------------------------- MODULE LineReader_proofs --------------------------
(***************************************************************************)
(* The lines that a LineReader cuts, for any limit and any chunks: they    *)
(* are those of the whole stream, cut up byte by byte.                     *)
(***************************************************************************)
EXTENDS LineReader, Induction, SequenceTheorems, TLAPS

-----------------------------------------------------------------------------
(* The reference: a stream cut up byte by byte.                             *)

Cuts == [lines : Seq(Seq(Letters)), kept : Seq(Seq(Letters)), rest : Seq(Letters)]

\* Before the first byte.
LEMMA NothingType == NothingYet \in Cuts
BY DEF NothingYet, Cuts

\* A byte more gives a reading of the stream.
LEMMA NextByteType ==
  ASSUME NEW cut \in Cuts, NEW byte \in Bytes
  PROVE  NextByte(cut, byte) \in Cuts
<1>1. cut.lines \in Seq(Seq(Letters)) /\ cut.kept \in Seq(Seq(Letters)) /\ cut.rest \in Seq(Letters)
  BY DEF Cuts
<1>2. CASE byte # Newline
  <2>1. Append(cut.rest, byte) \in Seq(Letters)
    BY <1>1, <1>2, AppendProperties DEF Bytes
  <2>2. QED
    BY <1>1, <1>2, <2>1 DEF NextByte, Cuts
<1>3. CASE byte = Newline
  <2>1. /\ Append(cut.lines, cut.rest) \in Seq(Seq(Letters))
        /\ Append(cut.kept, cut.rest) \in Seq(Seq(Letters))
    BY <1>1, AppendProperties
  <2>2. QED
    BY <1>1, <1>3, <2>1 DEF NextByte, Cuts
<1>4. QED
  BY <1>2, <1>3

\* A letter lengthens the line that is not finished.
LEMMA OnLetter ==
  ASSUME NEW cut, NEW byte, byte # Newline
  PROVE  /\ NextByte(cut, byte).lines = cut.lines
         /\ NextByte(cut, byte).kept = cut.kept
         /\ NextByte(cut, byte).rest = Append(cut.rest, byte)
BY DEF NextByte

\* A newline ends the line, which is kept if it fits.
LEMMA OnNewline ==
  ASSUME NEW cut
  PROVE  /\ NextByte(cut, Newline).lines = Append(cut.lines, cut.rest)
         /\ NextByte(cut, Newline).kept = IF Fits(cut.rest) THEN Append(cut.kept, cut.rest)
                                          ELSE cut.kept
         /\ NextByte(cut, Newline).rest = << >>
<1> DEFINE kept == IF Fits(cut.rest) THEN Append(cut.kept, cut.rest) ELSE cut.kept
<1>1. NextByte(cut, Newline) = [lines |-> Append(cut.lines, cut.rest), kept |-> kept, rest |-> << >>]
  BY DEF NextByte
<1> HIDE DEF kept
<1>2. /\ NextByte(cut, Newline).lines = Append(cut.lines, cut.rest)
      /\ NextByte(cut, Newline).kept = kept
      /\ NextByte(cut, Newline).rest = << >>
  BY <1>1
<1>3. QED
  BY <1>2 DEF kept

\* CutUp() is what its recursion says.
LEMMA CutUpSteps ==
  ASSUME NEW bytes \in Seq(Bytes)
  PROVE  \E f \in [0..Len(bytes) -> Cuts] :
            /\ f[0] = NothingYet
            /\ \A n \in 1..Len(bytes) : f[n] = NextByte(f[n - 1], bytes[n])
            /\ CutUp(bytes) = f[Len(bytes)]
<1> DEFINE N == Len(bytes)
           Solves(f) == f = [n \in 0..N |-> IF n = 0 THEN NothingYet
                                            ELSE NextByte(f[n - 1], bytes[n])]
           step == [n \in 1..N |-> [v \in Cuts |-> NextByte(v, bytes[n])]]
           cut == CHOOSE f : Solves(f)
<1>1. N \in Nat /\ \A n \in 1..N : bytes[n] \in Bytes
  BY ElementOfSeq
<1>2. CutUp(bytes) = cut[N]
  BY DEF CutUp
<1> HIDE DEF N
<1>3. \E f : Solves(f)
  <2>1. \A n \in 1..N, v \in Cuts : step[n][v] = NextByte(v, bytes[n]) /\ step[n][v] \in Cuts
    BY <1>1, NextByteType
  <2> HIDE DEF step
  <2>2. PICK f \in [0..N -> Cuts] :
           f[0] = NothingYet /\ \A n \in 1..N : f[n] = step[n][f[n - 1]]
    <3>1. StaysIn(Cuts, N, step)
      BY <2>1 DEF StaysIn
    <3>2. \E f \in [0..N -> Cuts] : Iterates(f, NothingYet, N, step)
      BY <1>1, <3>1, NothingType, RecursionExists
    <3>3. QED BY <3>2 DEF Iterates
  <2>3. ASSUME NEW n \in 0..N
        PROVE  f[n] = IF n = 0 THEN NothingYet ELSE NextByte(f[n - 1], bytes[n])
    <3>1. CASE n = 0
      BY <2>2, <3>1
    <3>2. CASE n # 0
      <4>1. n \in 1..N /\ n - 1 \in 0..N
        BY <1>1, <3>2
      <4>2. f[n] = step[n][f[n - 1]] /\ f[n - 1] \in Cuts
        BY <2>2, <3>2, <4>1
      <4>3. QED BY <2>1, <3>2, <4>1, <4>2
    <3>3. QED BY <3>1, <3>2
  <2> DEFINE g == [n \in 0..N |-> IF n = 0 THEN NothingYet ELSE NextByte(f[n - 1], bytes[n])]
  <2>4. f = g
    <3>1. \A n \in 0..N : f[n] = g[n]
      BY <2>3
    <3>2. f = [n \in 0..N |-> f[n]] /\ g = [n \in 0..N |-> g[n]]
      OBVIOUS
    <3> HIDE DEF g
    <3>3. QED BY <3>1, <3>2
  <2>5. Solves(f)
    BY <2>4
  <2>6. QED BY <2>5
<1>4. Solves(cut)
  <2> HIDE DEF Solves
  <2>1. QED BY <1>3
<1> HIDE DEF cut
<1>5. cut[0] = NothingYet /\ \A n \in 1..N : cut[n] = NextByte(cut[n - 1], bytes[n])
  BY <1>1, <1>4
<1> DEFINE K == {n \in Nat : n =< N => cut[n] \in Cuts}
<1>6. 0 \in K
  BY <1>5, NothingType
<1>7. ASSUME NEW n \in Nat, n \in K PROVE n + 1 \in K
  <2> SUFFICES ASSUME n + 1 =< N PROVE cut[n + 1] \in Cuts
    OBVIOUS
  <2>1. n + 1 \in 1..N /\ (n + 1) - 1 = n /\ cut[n] \in Cuts
    BY <1>1, <1>7
  <2>2. cut[n + 1] = NextByte(cut[n], bytes[n + 1])
    BY <1>5, <2>1
  <2>3. QED BY <1>1, <2>1, <2>2, NextByteType
<1>8. Nat \subseteq K
  <2> HIDE DEF K
  <2>1. QED BY <1>6, <1>7, SetInduction
<1>9. cut \in [0..N -> Cuts]
  BY <1>1, <1>4, <1>8
<1>10. QED
  BY <1>2, <1>5, <1>9 DEF N

\* An empty stream has no line.
LEMMA CutUpEmpty == CutUp(<< >>) = NothingYet
<1>1. << >> \in Seq(Bytes) /\ Len(<< >>) = 0
  OBVIOUS
<1>2. PICK f \in [0..Len(<< >>) -> Cuts] : f[0] = NothingYet /\ CutUp(<< >>) = f[Len(<< >>)]
  BY <1>1, CutUpSteps
<1>3. QED
  BY <1>1, <1>2

\* Every stream has a reading.
LEMMA CutUpType == ASSUME NEW bytes \in Seq(Bytes) PROVE CutUp(bytes) \in Cuts
<1>1. PICK f \in [0..Len(bytes) -> Cuts] : CutUp(bytes) = f[Len(bytes)]
  BY CutUpSteps
<1>2. QED
  BY <1>1, LenProperties

\* The reading of a stream with one byte more.
LEMMA CutUpAppend ==
  ASSUME NEW bytes \in Seq(Bytes), NEW byte \in Bytes
  PROVE  CutUp(Append(bytes, byte)) = NextByte(CutUp(bytes), byte)
<1> DEFINE more == Append(bytes, byte)
           N == Len(bytes)
<1>1. /\ N \in Nat /\ more \in Seq(Bytes) /\ Len(more) = N + 1
      /\ more[N + 1] = byte /\ \A n \in 1..N : more[n] = bytes[n]
  BY AppendProperties, LenProperties
<1> HIDE DEF more, N
<1>2. PICK f \in [0..N -> Cuts] :
         /\ f[0] = NothingYet
         /\ \A n \in 1..N : f[n] = NextByte(f[n - 1], bytes[n])
         /\ CutUp(bytes) = f[N]
  BY CutUpSteps DEF N
<1>3. PICK g \in [0..(N + 1) -> Cuts] :
         /\ g[0] = NothingYet
         /\ \A n \in 1..(N + 1) : g[n] = NextByte(g[n - 1], more[n])
         /\ CutUp(more) = g[N + 1]
  <2>1. \E g \in [0..Len(more) -> Cuts] :
         /\ g[0] = NothingYet
         /\ \A n \in 1..Len(more) : g[n] = NextByte(g[n - 1], more[n])
         /\ CutUp(more) = g[Len(more)]
    BY <1>1, CutUpSteps
  <2>2. QED BY <1>1, <2>1
<1> DEFINE K == {n \in Nat : n =< N => f[n] = g[n]}
<1>4. 0 \in K
  BY <1>2, <1>3
<1>5. ASSUME NEW n \in Nat, n \in K PROVE n + 1 \in K
  <2> SUFFICES ASSUME n + 1 =< N PROVE f[n + 1] = g[n + 1]
    OBVIOUS
  <2>1. n + 1 \in 1..N /\ n + 1 \in 1..(N + 1) /\ (n + 1) - 1 = n /\ f[n] = g[n]
    BY <1>1, <1>5
  <2>2. f[n + 1] = NextByte(f[n], bytes[n + 1])
    BY <1>2, <2>1
  <2>3. g[n + 1] = NextByte(g[n], more[n + 1])
    BY <1>3, <2>1
  <2>4. QED BY <1>1, <2>1, <2>2, <2>3
<1>6. Nat \subseteq K
  <2> HIDE DEF K
  <2>1. QED BY <1>4, <1>5, SetInduction
<1>7. f[N] = g[N]
  BY <1>1, <1>6
<1>8. g[N + 1] = NextByte(g[N], more[N + 1])
  <2>1. N + 1 \in 1..(N + 1) /\ (N + 1) - 1 = N
    BY <1>1
  <2>2. QED BY <1>3, <2>1
<1>9. QED
  BY <1>1, <1>2, <1>3, <1>7, <1>8 DEF more

\* Letters are bytes.
LEMMA LettersAreBytes == ASSUME NEW word \in Seq(Letters) PROVE word \in Seq(Bytes)
<1>1. Letters \subseteq Bytes
  BY DEF Bytes
<1>2. QED
  BY <1>1, SeqMonotonic

\* The letters of a word only make the line longer.
LEMMA CutUpLetters ==
  ASSUME NEW bytes \in Seq(Bytes), NEW word \in Seq(Letters)
  PROVE  /\ CutUp(bytes \o word).lines = CutUp(bytes).lines
         /\ CutUp(bytes \o word).kept = CutUp(bytes).kept
         /\ CutUp(bytes \o word).rest = CutUp(bytes).rest \o word
<1> DEFINE cut == CutUp(bytes)
           N == Len(word)
           start(n) == SubSeq(word, 1, n)
           Longer(n) == /\ CutUp(bytes \o start(n)).lines = cut.lines
                        /\ CutUp(bytes \o start(n)).kept = cut.kept
                        /\ CutUp(bytes \o start(n)).rest = cut.rest \o start(n)
           K == {n \in Nat : n =< N => Longer(n)}
<1>1. N \in Nat /\ cut.rest \in Seq(Letters) /\ \A n \in 1..N : word[n] \in Letters
  BY CutUpType, ElementOfSeq, LenProperties DEF Cuts
<1>2. 0 \in K
  <2>1. start(0) = << >>
    BY SubSeqEmpty
  <2>2. bytes \o << >> = bytes /\ cut.rest \o << >> = cut.rest
    BY <1>1, ConcatEmptySeq
  <2>3. QED BY <2>1, <2>2
<1> HIDE DEF cut, Longer, N, start
<1>3. ASSUME NEW n \in Nat, n \in K PROVE n + 1 \in K
  <2> SUFFICES ASSUME n + 1 =< N PROVE Longer(n + 1)
    OBVIOUS
  <2> DEFINE e == word[n + 1]
             w == start(n)
  <2>1. e \in Letters /\ e \in Bytes /\ e # Newline /\ Longer(n)
    BY <1>1, <1>3, LineReaderAssumption DEF Bytes
  <2>2. w \in Seq(Letters) /\ w \in Seq(Bytes)
    <3>1. w \in Seq(Letters)
      BY <1>1, SubSeqProperties DEF start
    <3>2. QED BY <3>1, LettersAreBytes
  <2>3. start(n + 1) = w \o <<e>>
    <3>1. 1 \in 1..N /\ n + 1 \in 1..N /\ (n + 1) - 1 = n
      BY <1>1
    <3>2. QED BY <3>1, SubSeqRecursiveSecond DEF N, start
  <2>7. /\ CutUp(bytes \o w).lines = cut.lines /\ CutUp(bytes \o w).kept = cut.kept
        /\ CutUp(bytes \o w).rest = cut.rest \o w
    BY <2>1 DEF Longer
  <2> HIDE DEF w, e
  <2>4. bytes \o (w \o <<e>>) = Append(bytes \o w, e) /\ bytes \o w \in Seq(Bytes)
    <3>1. <<e>> \in Seq(Bytes)
      BY <2>1
    <3>2. bytes \o (w \o <<e>>) = (bytes \o w) \o <<e>>
      BY <2>2, <3>1, ConcatAssociative
    <3>3. bytes \o w \in Seq(Bytes)
      BY <2>2, ConcatProperties
    <3>4. QED BY <2>1, <3>2, <3>3, AppendIsConcat
  <2>5. CutUp(bytes \o (w \o <<e>>)) = NextByte(CutUp(bytes \o w), e)
    BY <2>1, <2>4, CutUpAppend
  <2>6. Append(cut.rest \o w, e) = cut.rest \o (w \o <<e>>)
    <3> DEFINE r == cut.rest
    <3>1. <<e>> \in Seq(Letters) /\ r \in Seq(Letters)
      BY <1>1, <2>1
    <3> HIDE DEF r
    <3>2. r \o (w \o <<e>>) = (r \o w) \o <<e>>
      BY <2>2, <3>1, ConcatAssociative
    <3>3. r \o w \in Seq(Letters)
      BY <2>2, <3>1, ConcatProperties
    <3>4. Append(r \o w, e) = r \o (w \o <<e>>)
      BY <2>1, <3>2, <3>3, AppendIsConcat
    <3>5. QED BY <3>4 DEF r
  <2>8. /\ CutUp(bytes \o (w \o <<e>>)).lines = cut.lines
        /\ CutUp(bytes \o (w \o <<e>>)).kept = cut.kept
        /\ CutUp(bytes \o (w \o <<e>>)).rest = cut.rest \o (w \o <<e>>)
    <3>1. /\ CutUp(bytes \o (w \o <<e>>)).lines = CutUp(bytes \o w).lines
          /\ CutUp(bytes \o (w \o <<e>>)).kept = CutUp(bytes \o w).kept
          /\ CutUp(bytes \o (w \o <<e>>)).rest = Append(CutUp(bytes \o w).rest, e)
      BY <2>1, <2>5, OnLetter
    <3>2. QED BY <2>6, <2>7, <3>1
  <2>9. QED
    BY <2>3, <2>8 DEF Longer
<1>4. Nat \subseteq K
  <2> HIDE DEF K
  <2>1. QED BY <1>2, <1>3, SetInduction
<1>5. start(N) = word
  BY SubSeqFull DEF start, N
<1>6. Longer(N)
  BY <1>1, <1>4
<1>7. QED
  BY <1>5, <1>6 DEF Longer, cut

\* A word and a newline end a line.
LEMMA CutUpLine ==
  ASSUME NEW bytes \in Seq(Bytes), NEW word \in Seq(Letters)
  PROVE  LET cut == CutUp(bytes)
             new == CutUp((bytes \o word) \o <<Newline>>)
         IN  /\ new.lines = Append(cut.lines, cut.rest \o word)
             /\ new.kept = IF Fits(cut.rest \o word) THEN Append(cut.kept, cut.rest \o word)
                           ELSE cut.kept
             /\ new.rest = << >>
<1> DEFINE all == bytes \o word
<1>1. all \in Seq(Bytes) /\ Newline \in Bytes
  BY LettersAreBytes, ConcatProperties DEF Bytes
<1>2. CutUp(all).lines = CutUp(bytes).lines /\ CutUp(all).kept = CutUp(bytes).kept
      /\ CutUp(all).rest = CutUp(bytes).rest \o word
  BY CutUpLetters
<1> HIDE DEF all
<1>3. all \o <<Newline>> = Append(all, Newline)
  BY <1>1, AppendIsConcat
<1>4. CutUp(all \o <<Newline>>) = NextByte(CutUp(all), Newline)
  BY <1>1, <1>3, CutUpAppend
<1>5. /\ CutUp(all \o <<Newline>>).lines = Append(CutUp(all).lines, CutUp(all).rest)
      /\ CutUp(all \o <<Newline>>).kept = IF Fits(CutUp(all).rest)
                                          THEN Append(CutUp(all).kept, CutUp(all).rest)
                                          ELSE CutUp(all).kept
      /\ CutUp(all \o <<Newline>>).rest = << >>
  BY <1>4, OnNewline, Zenon
<1>6. QED
  BY <1>2, <1>5, Zenon DEF all

-----------------------------------------------------------------------------
(* The rounds of feed().                                                    *)

\* The first newline of a chunk has only letters before it; without one it is all letters.
LEMMA FirstNewlineFound ==
  ASSUME NEW chunk \in Seq(Bytes)
  PROVE  LET end == FirstNewline(chunk)
         IN  \/ end = 0 /\ chunk \in Seq(Letters)
             \/ /\ end \in 1..Len(chunk) /\ chunk[end] = Newline
                /\ SubSeq(chunk, 1, end - 1) \in Seq(Letters)
<1> DEFINE First(i) == chunk[i] = Newline /\ \A j \in 1..(i - 1) : chunk[j] # Newline
           T == {i \in 1..Len(chunk) : chunk[i] = Newline}
           end == FirstNewline(chunk)
<1>1. Len(chunk) \in Nat /\ DOMAIN chunk = 1..Len(chunk) /\ \A i \in 1..Len(chunk) : chunk[i] \in Bytes
  BY ElementOfSeq, LenProperties
<1>2. CASE T = {}
  <2>1. end = 0
    BY <1>1, <1>2 DEF FirstNewline
  <2>2. \A i \in 1..Len(chunk) : chunk[i] \in Letters
    BY <1>1, <1>2 DEF Bytes
  <2>3. SubSeq(chunk, 1, Len(chunk)) \in Seq(Letters)
    BY <1>1, <2>2, SubSeqProperties
  <2>4. QED BY <2>1, <2>3, SubSeqFull
<1>3. CASE T # {}
  <2>1. PICK x \in T : \A y \in T : x =< y
    <3>1. T \in SUBSET Nat
      OBVIOUS
    <3> HIDE DEF T
    <3>2. QED BY <1>3, <3>1, LeastNumber
  <2>2. \E i \in DOMAIN chunk : First(i)
    <3>1. x \in DOMAIN chunk /\ First(x)
      BY <1>1, <2>1
    <3>2. QED BY <3>1
  <2>3. end = CHOOSE i \in DOMAIN chunk : First(i)
    BY <1>1, <1>3 DEF FirstNewline
  <2>4. end \in DOMAIN chunk /\ First(end)
    <3> HIDE DEF First
    <3>1. QED BY <2>2, <2>3
  <2>5. \A i \in 1..(end - 1) : chunk[i] \in Letters
    BY <1>1, <2>4 DEF Bytes
  <2>6. end - 1 \in Int
    BY <1>1, <2>4
  <2> HIDE DEF end
  <2>7. SubSeq(chunk, 1, end - 1) \in Seq(Letters)
    BY <2>5, <2>6, SubSeqProperties
  <2>8. QED BY <1>1, <2>4, <2>7 DEF end
<1>4. QED
  BY <1>2, <1>3

Rounds == [chunk : Seq(Bytes), pending : Seq(Letters), skipping : BOOLEAN,
           lines : Seq(Seq(Letters)), complete : BOOLEAN]

Is(t, chunk, pending, skipping, found, complete) ==
    /\ t \in Rounds
    /\ t.chunk = chunk /\ t.pending = pending /\ t.skipping = skipping
    /\ t.lines = found /\ t.complete = complete

\* The fields of the records that a round makes.
LEMMA RoundFields ==
  ASSUME NEW s \in Rounds, NEW c \in Seq(Bytes), NEW p \in Seq(Letters),
         NEW k \in BOOLEAN, NEW l \in Seq(Seq(Letters)), NEW m \in BOOLEAN
  PROVE  /\ Is([s EXCEPT !.chunk = c], c, s.pending, s.skipping, s.lines, s.complete)
         /\ Is([s EXCEPT !.chunk = c, !.skipping = k], c, s.pending, k, s.lines, s.complete)
         /\ Is([s EXCEPT !.pending = p, !.chunk = c], c, p, s.skipping, s.lines, s.complete)
         /\ Is([s EXCEPT !.pending = p, !.skipping = k, !.complete = m, !.chunk = c],
               c, p, k, s.lines, m)
         /\ Is([s EXCEPT !.chunk = c, !.pending = p, !.complete = m],
               c, p, s.skipping, s.lines, m)
         /\ Is([s EXCEPT !.chunk = c, !.pending = p, !.lines = l],
               c, p, s.skipping, l, s.complete)
<1>1. Is([s EXCEPT !.chunk = c], c, s.pending, s.skipping, s.lines, s.complete)
  BY DEF Is, Rounds
<1>2. Is([s EXCEPT !.chunk = c, !.skipping = k], c, s.pending, k, s.lines, s.complete)
  BY DEF Is, Rounds
<1>3. Is([s EXCEPT !.pending = p, !.chunk = c], c, p, s.skipping, s.lines, s.complete)
  BY DEF Is, Rounds
<1>4. Is([s EXCEPT !.pending = p, !.skipping = k, !.complete = m, !.chunk = c],
         c, p, k, s.lines, m)
  BY DEF Is, Rounds
<1>5. Is([s EXCEPT !.chunk = c, !.pending = p, !.complete = m], c, p, s.skipping, s.lines, m)
  BY DEF Is, Rounds
<1>6. Is([s EXCEPT !.chunk = c, !.pending = p, !.lines = l], c, p, s.skipping, l, s.complete)
  BY DEF Is, Rounds
<1>7. QED
  BY <1>1, <1>2, <1>3, <1>4, <1>5, <1>6, Zenon

\* What a LineReader remembers of a stream that is cut up so far.
Remembers(pending, skipping, cut) ==
    IF Fits(cut.rest) THEN pending = cut.rest /\ skipping = FALSE
    ELSE pending = << >> /\ skipping = TRUE

Drops(cut) == Len(cut.lines) - Len(cut.kept) + (IF Fits(cut.rest) THEN 0 ELSE 1)

\* A round takes k bytes of the chunk, and stays in step with the reference, which
\* goes from cut to new.
Advances(s, t, k, cut, new) ==
    /\ t \in Rounds
    /\ t.chunk = After(s.chunk, k)
    /\ Remembers(t.pending, t.skipping, new)
    /\ \E added \in Seq(Seq(Letters)) : t.lines = s.lines \o added /\ new.kept = cut.kept \o added
    /\ Drops(new) = Drops(cut) + (IF s.complete /\ ~ t.complete THEN 1 ELSE 0)
    /\ t.complete => s.complete
    /\ k = Len(s.chunk) \/ new.rest = << >>

\* A line of the chunk may be dropped only if none was before.
Room(s, cut) == s.complete \/ Len(cut.rest) + Len(s.chunk) =< Limit

\* Nothing is behind the last byte.
LEMMA AllTaken == ASSUME NEW chunk \in Seq(Bytes) PROVE After(chunk, Len(chunk)) = << >>
BY SubSeqEmpty, LenProperties DEF After

\* A round that skips a chunk without a newline.
LEMMA SkipsAll ==
  ASSUME NEW s \in Rounds, NEW bytes \in Seq(Bytes),
         s.skipping, Remembers(s.pending, s.skipping, CutUp(bytes)), s.chunk \in Seq(Letters)
  PROVE  Advances(s, Skip(s, 0), Len(s.chunk), CutUp(bytes), CutUp(bytes \o s.chunk))
<1> DEFINE t == Skip(s, 0)
           cut == CutUp(bytes)
           new == CutUp(bytes \o s.chunk)
<1>1. t = [s EXCEPT !.chunk = << >>]
  BY DEF Skip
<1>2. Is(t, << >>, s.pending, s.skipping, s.lines, s.complete)
  <2>1. << >> \in Seq(Bytes) /\ << >> \in Seq(Letters) /\ << >> \in Seq(Seq(Letters))
    OBVIOUS
  <2>2. QED BY <1>1, <2>1, RoundFields, Zenon
<1>3. new.lines = cut.lines /\ new.kept = cut.kept /\ new.rest = cut.rest \o s.chunk
  BY CutUpLetters
<1>4. cut \in Cuts /\ s.chunk \in Seq(Bytes) /\ s.lines \in Seq(Seq(Letters))
  BY CutUpType DEF Rounds
<1> HIDE DEF t, cut, new
<1>5. ~ Fits(cut.rest) /\ s.pending = << >>
  BY DEF Remembers, cut
<1>6. ~ Fits(new.rest)
  <2> DEFINE r == cut.rest
             c == s.chunk
  <2>1. r \in Seq(Letters) /\ c \in Seq(Letters)
    BY <1>4 DEF Cuts
  <2> HIDE DEF r, c
  <2>2. Len(r \o c) = Len(r) + Len(c) /\ Len(r) \in Nat /\ Len(c) \in Nat
    BY <2>1, ConcatProperties, LenProperties
  <2>3. Len(r) > Limit
    BY <1>5, <2>2, LineReaderAssumption DEF Fits, r
  <2>4. Len(new.rest) = Len(r \o c)
    BY <1>3 DEF r, c
  <2>5. QED BY <2>2, <2>3, <2>4, LineReaderAssumption DEF Fits
<1>7. t.chunk = After(s.chunk, Len(s.chunk))
  BY <1>2, <1>4, AllTaken DEF Is
<1>8. Remembers(t.pending, t.skipping, new)
  BY <1>2, <1>5, <1>6 DEF Remembers, Is
<1>9. Drops(new) = Drops(cut)
  BY <1>3, <1>5, <1>6 DEF Drops
<1>10. t.lines = s.lines \o << >> /\ new.kept = cut.kept \o << >>
  <2>1. cut.kept \in Seq(Seq(Letters))
    BY <1>4 DEF Cuts
  <2>2. QED BY <1>2, <1>3, <1>4, <2>1, ConcatEmptySeq DEF Is
<1>11. Drops(cut) \in Int
  BY <1>4, LenProperties DEF Drops, Cuts
<1>12. QED
  <2>1. << >> \in Seq(Seq(Letters))
    OBVIOUS
  <2>2. Drops(new) = Drops(cut) + (IF s.complete /\ ~ t.complete THEN 1 ELSE 0)
    BY <1>2, <1>9, <1>11 DEF Is
  <2>3. QED BY <1>2, <1>7, <1>8, <1>10, <2>1, <2>2 DEF Is, Advances, t, cut, new

\* What is in the chunk up to its first newline.
LEMMA LineTaken ==
  ASSUME NEW bytes \in Seq(Bytes), NEW chunk \in Seq(Bytes), NEW end \in 1..Len(chunk),
         chunk[end] = Newline, SubSeq(chunk, 1, end - 1) \in Seq(Letters)
  PROVE  /\ bytes \o SubSeq(chunk, 1, end) = (bytes \o SubSeq(chunk, 1, end - 1)) \o <<Newline>>
         /\ Len(SubSeq(chunk, 1, end - 1)) = end - 1
         /\ After(chunk, end) \in Seq(Bytes) /\ Len(After(chunk, end)) = Len(chunk) - end
<1> DEFINE word == SubSeq(chunk, 1, end - 1)
<1>1. Len(chunk) \in Nat /\ \A i \in 1..Len(chunk) : chunk[i] \in Bytes
  BY ElementOfSeq, LenProperties
<1>2. SubSeq(chunk, 1, end) = word \o <<Newline>>
  <2>1. 1 \in 1..Len(chunk) /\ end \in 1..Len(chunk)
    BY <1>1
  <2>2. QED BY <2>1, SubSeqRecursiveSecond
<1>3. word \in Seq(Bytes) /\ <<Newline>> \in Seq(Bytes)
  BY LettersAreBytes DEF Bytes
<1>4. Len(word) = end - 1
  BY <1>1, SubSeqProperties
<1>5. After(chunk, end) \in Seq(Bytes) /\ Len(After(chunk, end)) = Len(chunk) - end
  BY <1>1, SubSeqProperties DEF After
<1> HIDE DEF word
<1>6. bytes \o (word \o <<Newline>>) = (bytes \o word) \o <<Newline>>
  BY <1>3, ConcatAssociative
<1>7. QED
  BY <1>2, <1>4, <1>5, <1>6 DEF word

\* The length of a line that a word makes longer, and that of the two lists.
LEMMA LongerRest ==
  ASSUME NEW cut \in Cuts, NEW word \in Seq(Letters)
  PROVE  /\ cut.rest \o word \in Seq(Letters)
         /\ Len(cut.rest \o word) = Len(cut.rest) + Len(word)
         /\ Len(cut.rest) \in Nat /\ Len(word) \in Nat
         /\ Len(cut.lines) \in Nat /\ Len(cut.kept) \in Nat
         /\ Len(Append(cut.lines, cut.rest \o word)) = Len(cut.lines) + 1
         /\ Len(Append(cut.kept, cut.rest \o word)) = Len(cut.kept) + 1
         /\ Append(cut.kept, cut.rest \o word) = cut.kept \o <<cut.rest \o word>>
         /\ cut.kept \o << >> = cut.kept
<1> DEFINE r == cut.rest
           l == cut.lines
           k == cut.kept
<1>1. r \in Seq(Letters) /\ l \in Seq(Seq(Letters)) /\ k \in Seq(Seq(Letters))
  BY DEF Cuts
<1> HIDE DEF r, l, k
<1>2. /\ r \o word \in Seq(Letters) /\ Len(r \o word) = Len(r) + Len(word)
      /\ Len(r) \in Nat /\ Len(word) \in Nat /\ Len(l) \in Nat /\ Len(k) \in Nat
  BY <1>1, ConcatProperties, LenProperties
<1>3. /\ Len(Append(l, r \o word)) = Len(l) + 1 /\ Len(Append(k, r \o word)) = Len(k) + 1
      /\ Append(k, r \o word) = k \o <<r \o word>> /\ k \o << >> = k
  <2> DEFINE x == r \o word
  <2>1. x \in Seq(Letters)
    BY <1>2
  <2> HIDE DEF x
  <2>2. Len(Append(l, x)) = Len(l) + 1 /\ Len(Append(k, x)) = Len(k) + 1
    BY <1>1, <2>1, AppendProperties
  <2>3. Append(k, x) = k \o <<x>>
    BY <1>1, <2>1, AppendIsConcat
  <2>4. k \o << >> = k
    BY <1>1, ConcatEmptySeq
  <2>5. QED BY <2>2, <2>3, <2>4 DEF x
<1>4. QED
  BY <1>2, <1>3 DEF r, l, k

\* A round that skips up to the end of the line that is too long.
LEMMA SkipsLine ==
  ASSUME NEW s \in Rounds, NEW bytes \in Seq(Bytes), NEW end \in 1..Len(s.chunk),
         s.chunk[end] = Newline, SubSeq(s.chunk, 1, end - 1) \in Seq(Letters),
         s.skipping, Remembers(s.pending, s.skipping, CutUp(bytes))
  PROVE  Advances(s, Skip(s, end), end, CutUp(bytes), CutUp(bytes \o SubSeq(s.chunk, 1, end)))
<1> DEFINE t == Skip(s, end)
           cut == CutUp(bytes)
           new == CutUp(bytes \o SubSeq(s.chunk, 1, end))
           word == SubSeq(s.chunk, 1, end - 1)
           line == cut.rest \o word
<1>1. s.chunk \in Seq(Bytes) /\ s.lines \in Seq(Seq(Letters)) /\ cut \in Cuts
  BY CutUpType DEF Rounds
<1>2. Is(t, After(s.chunk, end), s.pending, FALSE, s.lines, s.complete)
  <2>1. After(s.chunk, end) \in Seq(Bytes) /\ end # 0
    BY <1>1, LineTaken, LenProperties
  <2>2. t = [s EXCEPT !.chunk = After(s.chunk, end), !.skipping = FALSE]
    BY <2>1 DEF Skip
  <2>3. << >> \in Seq(Letters) /\ << >> \in Seq(Seq(Letters)) /\ FALSE \in BOOLEAN
    OBVIOUS
  <2>4. QED BY <2>1, <2>2, <2>3, RoundFields, Zenon
<1>3. new = CutUp((bytes \o word) \o <<Newline>>)
  BY <1>1, LineTaken
<1>4. /\ new.lines = Append(cut.lines, line)
      /\ new.kept = IF Fits(line) THEN Append(cut.kept, line) ELSE cut.kept
      /\ new.rest = << >>
  <2> DEFINE w == word
  <2>1. w \in Seq(Letters) /\ new = CutUp((bytes \o w) \o <<Newline>>)
    BY <1>3
  <2> HIDE DEF w, new, cut
  <2>2. LET c == CutUp((bytes \o w) \o <<Newline>>)
            l == CutUp(bytes).rest \o w
        IN  /\ c.lines = Append(CutUp(bytes).lines, l)
            /\ c.kept = IF Fits(l) THEN Append(CutUp(bytes).kept, l) ELSE CutUp(bytes).kept
            /\ c.rest = << >>
    BY <2>1, CutUpLine
  <2>3. QED BY <2>1, <2>2, Zenon DEF cut, w
<1>5. ~ Fits(cut.rest) /\ s.pending = << >>
  BY DEF Remembers
<1> HIDE DEF t, cut, new
<1>6. ~ Fits(line)
  <2>1. Len(line) = Len(cut.rest) + Len(word) /\ Len(cut.rest) \in Nat /\ Len(word) \in Nat
    BY <1>1, LongerRest
  <2>2. ~ (Len(cut.rest) =< Limit)
    BY <1>5 DEF Fits
  <2> HIDE DEF line, word
  <2>3. ~ (Len(line) =< Limit)
    BY <2>1, <2>2, LineReaderAssumption
  <2>4. QED BY <2>3 DEF Fits
<1>7. Fits(new.rest)
  BY <1>4, LineReaderAssumption DEF Fits
<1>8. Remembers(t.pending, t.skipping, new)
  BY <1>2, <1>4, <1>5, <1>7 DEF Remembers, Is
<1>9. new.kept = cut.kept
  BY <1>4, <1>6
<1>10. Drops(new) = Drops(cut) + (IF s.complete /\ ~ t.complete THEN 1 ELSE 0)
  <2>1. Len(new.lines) = Len(cut.lines) + 1 /\ Len(cut.lines) \in Nat /\ Len(cut.kept) \in Nat
    BY <1>1, <1>4, LongerRest
  <2>2. t.complete = s.complete
    BY <1>2 DEF Is
  <2>3. Drops(cut) = Len(cut.lines) - Len(cut.kept) + 1
    BY <1>5 DEF Drops
  <2>4. Drops(new) = Len(new.lines) - Len(new.kept) + 0
    BY <1>7 DEF Drops
  <2>5. Drops(new) = Drops(cut) /\ Drops(cut) + 0 = Drops(cut)
    BY <1>9, <2>1, <2>3, <2>4
  <2>6. QED BY <2>2, <2>5
<1>11. t.lines = s.lines \o << >> /\ new.kept = cut.kept \o << >>
  BY <1>1, <1>2, <1>9, LongerRest, ConcatEmptySeq DEF Is
<1>12. QED
  <2>1. << >> \in Seq(Seq(Letters))
    OBVIOUS
  <2>2. \E added \in Seq(Seq(Letters)) : t.lines = s.lines \o added /\ new.kept = cut.kept \o added
    BY <1>11, <2>1
  <2>3. QED BY <1>2, <1>4, <1>8, <1>10, <2>2 DEF Is, Advances, t, cut, new

\* A line fits by its length alone.
LEMMA FitsLength ==
  ASSUME NEW l, Len(l) \in Nat
  PROVE  /\ Fits(l) => Len(l) =< Limit /\ ~ (Len(l) > Limit)
         /\ ~ Fits(l) => Len(l) > Limit /\ ~ (Len(l) =< Limit)
BY LineReaderAssumption DEF Fits

\* A line that is too long has no room in the buffer with the chunk.
LEMMA PastLimit ==
  ASSUME NEW rest \in Nat, NEW chunk \in Nat, NEW limit \in Nat, NEW end \in Nat,
         NEW line \in Nat, end =< chunk, line = rest + end - 1, ~ (line =< limit)
  PROVE  ~ (rest + chunk =< limit)
OBVIOUS

\* A round that keeps a chunk without a newline.
LEMMA KeepsAll ==
  ASSUME NEW s \in Rounds, NEW bytes \in Seq(Bytes),
         ~ s.skipping, Remembers(s.pending, s.skipping, CutUp(bytes)),
         s.chunk \in Seq(Letters), Room(s, CutUp(bytes))
  PROVE  Advances(s, Keep(s), Len(s.chunk), CutUp(bytes), CutUp(bytes \o s.chunk))
<1> DEFINE t == Keep(s)
           cut == CutUp(bytes)
           new == CutUp(bytes \o s.chunk)
           word == s.chunk
           line == cut.rest \o word
<1>1. s.chunk \in Seq(Bytes) /\ s.lines \in Seq(Seq(Letters)) /\ cut \in Cuts
      /\ s.complete \in BOOLEAN
  BY CutUpType DEF Rounds
<1>2. new.lines = cut.lines /\ new.kept = cut.kept /\ new.rest = line
  BY CutUpLetters
<1>3. Fits(cut.rest) /\ s.pending = cut.rest /\ s.skipping = FALSE
  BY DEF Remembers
<1>4. /\ line \in Seq(Letters) /\ Len(line) = Len(cut.rest) + Len(word)
      /\ Len(cut.lines) \in Nat /\ Len(cut.kept) \in Nat /\ Len(line) \in Nat
      /\ Len(s.pending) + Len(s.chunk) = Len(line)
  BY <1>1, <1>3, LongerRest, LenProperties
<1>5. After(s.chunk, Len(s.chunk)) = << >>
  BY <1>1, AllTaken
<1>6. Drops(cut) = Len(cut.lines) - Len(cut.kept) + 0 /\ Drops(cut) \in Int
  BY <1>3, <1>4 DEF Drops
<1>7. s.lines = s.lines \o << >> /\ new.kept = cut.kept \o << >>
  BY <1>1, <1>2, LongerRest, ConcatEmptySeq
<1>8. << >> \in Seq(Bytes) /\ << >> \in Seq(Letters) /\ << >> \in Seq(Seq(Letters))
      /\ TRUE \in BOOLEAN /\ FALSE \in BOOLEAN
  OBVIOUS
<1>9. CASE Fits(line)
  <2>1. Is(t, << >>, line, FALSE, s.lines, s.complete)
    <3>1. ~ (Len(s.pending) + Len(s.chunk) > Limit)
      <4> HIDE DEF line, t
      <4>1. ~ (Len(line) > Limit)
        BY <1>4, <1>9, FitsLength
      <4>2. QED BY <1>4, <4>1
    <3>2. t = [s EXCEPT !.pending = line, !.chunk = << >>]
      BY <1>3, <3>1 DEF Keep
    <3> HIDE DEF line, t
    <3>3. QED BY <1>3, <1>4, <1>8, <3>2, RoundFields, Zenon
  <2> HIDE DEF t, cut, new, line, word
  <2>2. Remembers(t.pending, t.skipping, new)
    BY <1>2, <1>9, <2>1 DEF Remembers, Is
  <2>3. Drops(new) = Len(new.lines) - Len(new.kept) + 0
    BY <1>2, <1>9 DEF Drops
  <2>4. Drops(new) = Drops(cut) + (IF s.complete /\ ~ t.complete THEN 1 ELSE 0)
    <3>1. t.complete = s.complete
      BY <2>1 DEF Is
    <3>2. Drops(new) = Drops(cut) /\ Drops(cut) + 0 = Drops(cut)
      BY <1>2, <1>6, <2>3
    <3>3. QED BY <3>1, <3>2
  <2>5. \E added \in Seq(Seq(Letters)) : t.lines = s.lines \o added /\ new.kept = cut.kept \o added
    BY <1>7, <1>8, <2>1 DEF Is
  <2>6. QED BY <1>5, <2>1, <2>2, <2>4, <2>5 DEF Is, Advances, t, cut, new
<1>10. CASE ~ Fits(line)
  <2>1. Is(t, << >>, << >>, TRUE, s.lines, FALSE)
    <3>1. Len(s.pending) + Len(s.chunk) > Limit
      <4> HIDE DEF line, t
      <4>1. Len(line) > Limit
        BY <1>4, <1>10, FitsLength
      <4>2. QED BY <1>4, <4>1
    <3>2. t = [s EXCEPT !.pending = << >>, !.skipping = TRUE, !.complete = FALSE, !.chunk = << >>]
      BY <3>1 DEF Keep
    <3> HIDE DEF line, t
    <3>3. QED BY <1>8, <3>2, RoundFields, Zenon
  <2>2. s.complete
    <3>1. ~ (Len(cut.rest) + Len(s.chunk) =< Limit)
      BY <1>4, <1>10 DEF Fits
    <3>2. QED BY <3>1 DEF Room
  <2> HIDE DEF t, cut, new, line, word
  <2>3. Remembers(t.pending, t.skipping, new)
    BY <1>2, <1>10, <2>1 DEF Remembers, Is
  <2>4. Drops(new) = Len(new.lines) - Len(new.kept) + 1
    BY <1>2, <1>10 DEF Drops
  <2>5. Drops(new) = Drops(cut) + (IF s.complete /\ ~ t.complete THEN 1 ELSE 0)
    <3>1. t.complete = FALSE
      BY <2>1 DEF Is
    <3>2. Drops(new) = Drops(cut) + 1
      BY <1>2, <1>4, <1>6, <2>4
    <3>3. QED BY <2>2, <3>1, <3>2
  <2>6. \E added \in Seq(Seq(Letters)) : t.lines = s.lines \o added /\ new.kept = cut.kept \o added
    BY <1>7, <1>8, <2>1 DEF Is
  <2>7. QED BY <1>5, <2>1, <2>2, <2>3, <2>5, <2>6 DEF Is, Advances, t, cut, new
<1>11. QED
  BY <1>9, <1>10

\* A round that finishes a line.
LEMMA CutsLine ==
  ASSUME NEW s \in Rounds, NEW bytes \in Seq(Bytes), NEW end \in 1..Len(s.chunk),
         s.chunk[end] = Newline, SubSeq(s.chunk, 1, end - 1) \in Seq(Letters),
         ~ s.skipping, Remembers(s.pending, s.skipping, CutUp(bytes)), Room(s, CutUp(bytes))
  PROVE  Advances(s, Cut(s, end), end, CutUp(bytes), CutUp(bytes \o SubSeq(s.chunk, 1, end)))
<1> DEFINE t == Cut(s, end)
           cut == CutUp(bytes)
           new == CutUp(bytes \o SubSeq(s.chunk, 1, end))
           word == SubSeq(s.chunk, 1, end - 1)
           line == cut.rest \o word
           others == After(s.chunk, end)
<1>1. /\ s.chunk \in Seq(Bytes) /\ s.lines \in Seq(Seq(Letters)) /\ cut \in Cuts
      /\ s.complete \in BOOLEAN /\ Len(s.chunk) \in Nat
  BY CutUpType, LenProperties DEF Rounds
<1>2. new = CutUp((bytes \o word) \o <<Newline>>) /\ others \in Seq(Bytes) /\ Len(word) = end - 1
  BY <1>1, LineTaken
<1>3. /\ new.lines = Append(cut.lines, line)
      /\ new.kept = IF Fits(line) THEN Append(cut.kept, line) ELSE cut.kept
      /\ new.rest = << >>
  BY <1>2, CutUpLine, Zenon
<1>4. Fits(cut.rest) /\ s.pending = cut.rest /\ s.skipping = FALSE
  BY DEF Remembers
<1>5. Fits(new.rest)
  BY <1>3, LineReaderAssumption DEF Fits
<1>6. /\ line \in Seq(Letters) /\ Len(line) = Len(cut.rest) + Len(word)
      /\ Len(cut.lines) \in Nat /\ Len(cut.kept) \in Nat /\ Len(cut.rest) \in Nat
      /\ Len(line) \in Nat
      /\ Len(new.lines) = Len(cut.lines) + 1
      /\ Len(Append(cut.kept, line)) = Len(cut.kept) + 1
      /\ Append(cut.kept, line) = cut.kept \o <<line>> /\ cut.kept \o << >> = cut.kept
  BY <1>1, <1>3, LongerRest, LenProperties
<1>7. Drops(cut) = Len(cut.lines) - Len(cut.kept) + 0 /\ Drops(cut) \in Int
  BY <1>4, <1>6 DEF Drops
<1>8. Drops(new) = Len(new.lines) - Len(new.kept) + 0
  BY <1>5 DEF Drops
<1>9. /\ << >> \in Seq(Bytes) /\ << >> \in Seq(Letters) /\ << >> \in Seq(Seq(Letters))
      /\ TRUE \in BOOLEAN /\ FALSE \in BOOLEAN
  OBVIOUS
<1>10. Len(line) = Len(s.pending) + end - 1
  <2> HIDE DEF line, word
  <2>1. Len(s.pending) = Len(cut.rest)
    BY <1>4
  <2>2. QED BY <1>2, <1>6, <2>1
<1>11. CASE Fits(line)
  <2>1. Is(t, others, << >>, FALSE, Append(s.lines, line), s.complete)
    <3>1. ~ (Len(s.pending) + end - 1 > Limit)
      <4> HIDE DEF line, t, word
      <4>1. ~ (Len(line) > Limit)
        BY <1>6, <1>11, FitsLength
      <4>2. QED BY <1>10, <4>1
    <3>2. t = [s EXCEPT !.chunk = others, !.pending = << >>, !.lines = Append(s.lines, line)]
      BY <1>4, <3>1 DEF Cut
    <3>3. Append(s.lines, line) \in Seq(Seq(Letters))
      BY <1>1, <1>6, AppendProperties
    <3> DEFINE more == Append(s.lines, line)
    <3>5. more \in Seq(Seq(Letters)) /\ t = [s EXCEPT !.chunk = others, !.pending = << >>, !.lines = more]
      BY <3>2, <3>3
    <3> HIDE DEF line, t, others, more
    <3>6. Is(t, others, << >>, s.skipping, more, s.complete)
      BY <1>2, <1>9, <3>5, RoundFields, Zenon
    <3>7. QED BY <1>4, <3>6 DEF more
  <2>2. s.lines \in Seq(Seq(Letters)) => Append(s.lines, line) = s.lines \o <<line>>
    BY <1>6, AppendIsConcat
  <2> HIDE DEF t, cut, new, line, word, others
  <2>3. Remembers(t.pending, t.skipping, new)
    BY <1>3, <1>5, <2>1 DEF Remembers, Is
  <2>4. new.kept = Append(cut.kept, line)
    BY <1>3, <1>11
  <2>5. Drops(new) = Drops(cut) + (IF s.complete /\ ~ t.complete THEN 1 ELSE 0)
    <3>1. t.complete = s.complete
      BY <2>1 DEF Is
    <3>2. Drops(new) = Drops(cut) /\ Drops(cut) + 0 = Drops(cut)
      <4>1. Len(new.kept) = Len(cut.kept) + 1
        BY <1>6, <2>4
      <4>2. QED BY <1>6, <1>7, <1>8, <4>1
    <3>3. QED BY <3>1, <3>2
  <2>6. \E added \in Seq(Seq(Letters)) : t.lines = s.lines \o added /\ new.kept = cut.kept \o added
    <3>1. <<line>> \in Seq(Seq(Letters))
      BY <1>6
    <3>2. t.lines = s.lines \o <<line>> /\ new.kept = cut.kept \o <<line>>
      BY <1>1, <1>6, <2>1, <2>2, <2>4 DEF Is
    <3>3. QED BY <3>1, <3>2
  <2>7. QED BY <1>3, <2>1, <2>3, <2>5, <2>6 DEF Is, Advances, t, cut, new, others
<1>12. CASE ~ Fits(line)
  <2>1. Is(t, others, << >>, FALSE, s.lines, FALSE)
    <3>1. Len(s.pending) + end - 1 > Limit
      <4> HIDE DEF line, t, word
      <4>1. Len(line) > Limit
        BY <1>6, <1>12, FitsLength
      <4>2. QED BY <1>10, <4>1
    <3>2. t = [s EXCEPT !.chunk = others, !.pending = << >>, !.complete = FALSE]
      BY <3>1 DEF Cut
    <3> HIDE DEF line, t, others
    <3>3. QED BY <1>2, <1>4, <1>9, <3>2, RoundFields, Zenon
  <2>2. s.complete
    <3>1. ~ (Len(line) =< Limit)
      BY <1>6, <1>12, FitsLength
    <3>2. ~ (Len(cut.rest) + Len(s.chunk) =< Limit)
      <4>1. end \in Nat /\ end =< Len(s.chunk)
        BY <1>1
      <4> HIDE DEF line, word, cut, new, t
      <4>2. Len(s.chunk) \in Nat /\ Len(cut.rest) \in Nat /\ Limit \in Nat
        BY <1>1, <1>6, LineReaderAssumption
      <4>3. Len(line) = Len(cut.rest) + end - 1
        BY <1>2, <1>6
      <4>4. Len(line) \in Nat /\ ~ (Len(line) =< Limit)
        BY <1>6, <3>1
      <4>5. QED BY <4>1, <4>2, <4>3, <4>4, PastLimit, Zenon
    <3>3. QED BY <3>2 DEF Room
  <2> HIDE DEF t, cut, new, line, word, others
  <2>3. Remembers(t.pending, t.skipping, new)
    BY <1>3, <1>5, <2>1 DEF Remembers, Is
  <2>4. new.kept = cut.kept
    BY <1>3, <1>12
  <2>5. Drops(new) = Drops(cut) + (IF s.complete /\ ~ t.complete THEN 1 ELSE 0)
    <3>1. t.complete = FALSE
      BY <2>1 DEF Is
    <3>2. Drops(new) = Drops(cut) + 1
      BY <1>6, <1>7, <1>8, <2>4
    <3>3. QED BY <2>2, <3>1, <3>2
  <2>6. \E added \in Seq(Seq(Letters)) : t.lines = s.lines \o added /\ new.kept = cut.kept \o added
    <3>1. t.lines = s.lines \o << >> /\ new.kept = cut.kept \o << >>
      BY <1>1, <1>6, <2>1, <2>4, ConcatEmptySeq DEF Is
    <3>2. QED BY <1>9, <3>1
  <2>7. QED BY <1>3, <2>1, <2>2, <2>3, <2>5, <2>6 DEF Is, Advances, t, cut, new, others
<1>13. QED
  BY <1>11, <1>12

\* Every round of the loop takes bytes, as the reading of the stream does.
LEMMA RoundAdvances ==
  ASSUME NEW s \in Rounds, NEW bytes \in Seq(Bytes), s.chunk # << >>,
         Remembers(s.pending, s.skipping, CutUp(bytes)), Room(s, CutUp(bytes))
  PROVE  \E k \in 1..Len(s.chunk) :
            Advances(s, Round(s), k, CutUp(bytes), CutUp(bytes \o SubSeq(s.chunk, 1, k)))
<1> DEFINE end == FirstNewline(s.chunk)
           Goal(t, k) == Advances(s, t, k, CutUp(bytes), CutUp(bytes \o SubSeq(s.chunk, 1, k)))
<1>1. s.chunk \in Seq(Bytes) /\ Len(s.chunk) \in Nat /\ Len(s.chunk) # 0 /\ s.skipping \in BOOLEAN
  BY EmptySeq, LenProperties DEF Rounds
<1>2. \/ end = 0 /\ s.chunk \in Seq(Letters)
      \/ /\ end \in 1..Len(s.chunk) /\ s.chunk[end] = Newline
         /\ SubSeq(s.chunk, 1, end - 1) \in Seq(Letters)
  BY <1>1, FirstNewlineFound
<1>3. SubSeq(s.chunk, 1, Len(s.chunk)) = s.chunk /\ Len(s.chunk) \in 1..Len(s.chunk)
  BY <1>1, SubSeqFull
<1>4. Round(s) = IF s.skipping THEN Skip(s, end) ELSE IF end = 0 THEN Keep(s) ELSE Cut(s, end)
  BY <1>1 DEF Round
<1> HIDE DEF end
<1>5. CASE s.skipping /\ end = 0
  <2>1. s.chunk \in Seq(Letters)
    BY <1>2, <1>5
  <2>2. Advances(s, Skip(s, 0), Len(s.chunk), CutUp(bytes), CutUp(bytes \o s.chunk))
    BY <2>1, <1>5, SkipsAll
  <2>3. Goal(Skip(s, 0), Len(s.chunk))
    BY <1>3, <2>2, Zenon
  <2>4. QED BY <1>3, <1>4, <1>5, <2>3, Zenon
<1>6. CASE s.skipping /\ end # 0
  <2>1. end \in 1..Len(s.chunk) /\ Goal(Skip(s, end), end)
    BY <1>2, <1>6, SkipsLine
  <2>2. QED BY <1>4, <1>6, <2>1, Zenon
<1>7. CASE ~ s.skipping /\ end = 0
  <2>1. s.chunk \in Seq(Letters)
    BY <1>2, <1>7
  <2>2. Advances(s, Keep(s), Len(s.chunk), CutUp(bytes), CutUp(bytes \o s.chunk))
    BY <2>1, <1>7, KeepsAll
  <2>3. Goal(Keep(s), Len(s.chunk))
    BY <1>3, <2>2, Zenon
  <2>4. QED BY <1>3, <1>4, <1>7, <2>3, Zenon
<1>8. CASE ~ s.skipping /\ end # 0
  <2>1. end \in 1..Len(s.chunk) /\ Goal(Cut(s, end), end)
    BY <1>2, <1>8, CutsLine
  <2>2. QED BY <1>4, <1>8, <2>1, Zenon
<1>9. QED
  BY <1>5, <1>6, <1>7, <1>8

-----------------------------------------------------------------------------
(* feed(): s is what the rounds have made of the first p bytes of a chunk,  *)
(* of a stream that was bytes before it.                                    *)

Tracks(s, bytes, chunk, p) ==
    LET cut == CutUp(bytes)
        new == CutUp(bytes \o SubSeq(chunk, 1, p))
    IN  /\ s \in Rounds
        /\ s.chunk = After(chunk, p)
        /\ Remembers(s.pending, s.skipping, new)
        /\ new.kept = cut.kept \o s.lines
        /\ Drops(new) = Drops(cut) + (IF s.complete THEN 0 ELSE 1)
        /\ p = Len(chunk) \/ Room(s, new)

\* Brackets in a concatenation of three do not matter.
LEMMA Regroup ==
  ASSUME NEW a \in Seq(Bytes), NEW b \in Seq(Bytes), NEW c \in Seq(Bytes)
  PROVE  a \o (b \o c) = (a \o b) \o c
BY ConcatAssociative, SMTT(30)

\* The two parts of what is left of a chunk.
LEMMA LeftOver ==
  ASSUME NEW bytes \in Seq(Bytes), NEW chunk \in Seq(Bytes), NEW p \in 0..Len(chunk),
         NEW k \in 1..Len(After(chunk, p))
  PROVE  /\ p + k \in 1..Len(chunk) /\ Len(After(chunk, p)) = Len(chunk) - p
         /\ After(After(chunk, p), k) = After(chunk, p + k)
         /\ bytes \o SubSeq(chunk, 1, p + k)
              = (bytes \o SubSeq(chunk, 1, p)) \o SubSeq(After(chunk, p), 1, k)
<1> DEFINE N == Len(chunk)
           others == After(chunk, p)
<1>1. N \in Nat /\ \A i \in 1..N : chunk[i] \in Bytes
  BY ElementOfSeq, LenProperties
<1>2. Len(others) = N - p
  BY <1>1, SubSeqProperties DEF After
<1>3. p + k \in 1..N /\ p + 1 \in 1..N /\ p < N /\ k \in 1..(N - p)
  BY <1>1, <1>2
<1>4. SubSeq(others, 1, k) = SubSeq(chunk, p + 1, p + k)
  <2>1. /\ p + 1 \in 1..Len(chunk) /\ N \in 1..Len(chunk)
        /\ 1 \in 1..(N - (p + 1) + 1) /\ k \in 1..(N - (p + 1) + 1)
    BY <1>1, <1>3
  <2>2. SubSeq(SubSeq(chunk, p + 1, N), 1, k) = SubSeq(chunk, (p + 1) + 1 - 1, (p + 1) + k - 1)
    BY <2>1, SubSeqOfSubSeq
  <2>3. (p + 1) + 1 - 1 = p + 1 /\ (p + 1) + k - 1 = p + k
    BY <1>3
  <2>4. QED BY <2>2, <2>3 DEF After
<1>5. SubSeq(chunk, 1, p + k) = SubSeq(chunk, 1, p) \o SubSeq(chunk, p + 1, p + k)
  <2>1. 1 \in 1..(Len(chunk) + 1) /\ p \in (1 - 1)..Len(chunk) /\ p + k \in p..Len(chunk)
    BY <1>1, <1>3
  <2>2. QED BY <2>1, ConcatAdjacentSubSeq
<1>6. SubSeq(chunk, 1, p) \in Seq(Bytes) /\ SubSeq(chunk, p + 1, p + k) \in Seq(Bytes)
  BY <1>1, <1>3, SubSeqProperties
<1>7. bytes \o SubSeq(chunk, 1, p + k)
        = (bytes \o SubSeq(chunk, 1, p)) \o SubSeq(chunk, p + 1, p + k)
  <2>1. bytes \o (SubSeq(chunk, 1, p) \o SubSeq(chunk, p + 1, p + k))
          = (bytes \o SubSeq(chunk, 1, p)) \o SubSeq(chunk, p + 1, p + k)
    BY <1>6, Regroup, Zenon
  <2>2. QED BY <1>5, <2>1, Zenon
<1>8. After(others, k) = After(chunk, p + k)
  <2>1. CASE k = N - p
    <3>1. After(others, k) = << >> /\ After(chunk, p + k) = << >>
      BY <1>1, <1>2, <1>3, <2>1, SubSeqEmpty DEF After
    <3>2. QED BY <3>1
  <2>2. CASE k < N - p
    <3>1. /\ p + 1 \in 1..Len(chunk) /\ N \in 1..Len(chunk)
          /\ k + 1 \in 1..(N - (p + 1) + 1) /\ N - p \in 1..(N - (p + 1) + 1)
      BY <1>1, <1>3, <2>2
    <3>2. SubSeq(SubSeq(chunk, p + 1, N), k + 1, N - p)
            = SubSeq(chunk, (p + 1) + (k + 1) - 1, (p + 1) + (N - p) - 1)
      BY <3>1, SubSeqOfSubSeq
    <3>3. (p + 1) + (k + 1) - 1 = (p + k) + 1 /\ (p + 1) + (N - p) - 1 = N
      BY <1>1, <1>3
    <3>4. QED BY <1>2, <3>2, <3>3 DEF After
  <2>3. QED BY <1>3, <2>1, <2>2
<1>9. QED
  BY <1>2, <1>3, <1>4, <1>7, <1>8

\* Nor do they in one of lines.
LEMMA RegroupLines ==
  ASSUME NEW a \in Seq(Seq(Letters)), NEW b \in Seq(Seq(Letters)), NEW c \in Seq(Seq(Letters))
  PROVE  (a \o b) \o c = a \o (b \o c)
BY ConcatAssociative, SMTT(30)

\* A round of the loop stays with the stream.
LEMMA TracksStep ==
  ASSUME NEW s, NEW bytes \in Seq(Bytes), NEW chunk \in Seq(Bytes), Len(chunk) =< Limit,
         NEW p \in 0..Len(chunk), Tracks(s, bytes, chunk, p), s.chunk # << >>
  PROVE  \E q \in (p + 1)..Len(chunk) : Tracks(Round(s), bytes, chunk, q)
<1> DEFINE before == bytes \o SubSeq(chunk, 1, p)
           old == CutUp(bytes)
           mid == CutUp(before)
<1>1. /\ s \in Rounds /\ s.chunk = After(chunk, p)
      /\ Remembers(s.pending, s.skipping, mid)
      /\ mid.kept = old.kept \o s.lines
      /\ Drops(mid) = Drops(old) + (IF s.complete THEN 0 ELSE 1)
      /\ p = Len(chunk) \/ Room(s, mid)
  BY Zenon DEF Tracks
<1>2. Len(chunk) \in Nat /\ \A i \in 1..Len(chunk) : chunk[i] \in Bytes
  BY ElementOfSeq, LenProperties
<1>3. before \in Seq(Bytes)
  <2>1. SubSeq(chunk, 1, p) \in Seq(Bytes)
    BY <1>2, SubSeqProperties
  <2>2. QED BY <2>1, ConcatProperties
<1>4. p # Len(chunk)
  BY <1>1, AllTaken
<1>5. s.lines \in Seq(Seq(Letters)) /\ s.complete \in BOOLEAN
  BY <1>1 DEF Rounds
<1>6. old.kept \in Seq(Seq(Letters)) /\ Drops(old) \in Int
  BY CutUpType, LenProperties DEF Cuts, Drops
<1> DEFINE t == Round(s)
           Step(k) == Advances(s, t, k, mid, CutUp(before \o SubSeq(s.chunk, 1, k)))
<1>7. \E k \in 1..Len(s.chunk) : Step(k)
  <2> HIDE DEF before
  <2>1. QED BY <1>1, <1>3, <1>4, RoundAdvances, Zenon
<1> HIDE DEF Step
<1>8. PICK k \in 1..Len(After(chunk, p)) : Step(k)
  BY <1>1, <1>7
<1> DEFINE q == p + k
           new == CutUp(bytes \o SubSeq(chunk, 1, q))
<1>9. /\ q \in 1..Len(chunk) /\ Len(After(chunk, p)) = Len(chunk) - p
      /\ After(After(chunk, p), k) = After(chunk, q)
      /\ bytes \o SubSeq(chunk, 1, q) = before \o SubSeq(After(chunk, p), 1, k)
  BY LeftOver
<1>10. Advances(s, t, k, mid, new)
  BY <1>1, <1>8, <1>9, Zenon DEF Step
<1> HIDE DEF t, mid, old, new, before, q
<1>11. /\ t \in Rounds /\ t.chunk = After(chunk, q)
       /\ Remembers(t.pending, t.skipping, new)
       /\ \E added \in Seq(Seq(Letters)) : t.lines = s.lines \o added /\ new.kept = mid.kept \o added
       /\ Drops(new) = Drops(mid) + (IF s.complete /\ ~ t.complete THEN 1 ELSE 0)
       /\ t.complete => s.complete
       /\ k = Len(s.chunk) \/ new.rest = << >>
  BY <1>1, <1>9, <1>10, Zenon DEF Advances
<1>12. new.kept = old.kept \o t.lines
  <2>1. PICK added \in Seq(Seq(Letters)) : t.lines = s.lines \o added /\ new.kept = mid.kept \o added
    BY <1>11
  <2>2. (old.kept \o s.lines) \o added = old.kept \o (s.lines \o added)
    BY <1>5, <1>6, RegroupLines, Zenon
  <2>3. QED BY <1>1, <2>1, <2>2, Zenon
<1>13. Drops(new) = Drops(old) + (IF t.complete THEN 0 ELSE 1)
  <2>1. CASE s.complete /\ ~ t.complete
    BY <1>1, <1>6, <1>11, <2>1
  <2>2. CASE s.complete /\ t.complete
    BY <1>1, <1>6, <1>11, <2>2
  <2>3. CASE ~ s.complete
    BY <1>1, <1>6, <1>11, <2>3
  <2>4. QED BY <2>1, <2>2, <2>3
<1>14. q \in (p + 1)..Len(chunk)
  BY <1>2, <1>9 DEF q
<1>15. q = Len(chunk) \/ Room(t, new)
  <2>1. CASE k = Len(s.chunk)
    BY <1>1, <1>2, <1>9, <2>1 DEF q
  <2>2. CASE new.rest = << >>
    <3>1. Len(t.chunk) = Len(chunk) - q
      BY <1>2, <1>9, <1>11, SubSeqProperties DEF After
    <3>2. Len(new.rest) = 0
      BY <2>2
    <3>3. Len(new.rest) + Len(t.chunk) =< Limit
      BY <1>2, <1>14, <3>1, <3>2, LineReaderAssumption
    <3>4. QED BY <3>3 DEF Room
  <2>3. QED BY <1>11, <2>1, <2>2
<1>16. Tracks(t, bytes, chunk, q)
  BY <1>11, <1>12, <1>13, <1>15, Zenon DEF Tracks, new, old
<1>17. QED
  BY <1>14, <1>16 DEF t

Readers == [pending : Seq(Letters), skipping : BOOLEAN]

Start(r, chunk) == [chunk |-> chunk, pending |-> r.pending, skipping |-> r.skipping,
                    lines |-> << >>, complete |-> TRUE]

\* Feed() is what its recursion says, of every property that a round keeps.
LEMMA FeedSteps ==
  ASSUME NEW r, NEW chunk \in Seq(Bytes), NEW S, Start(r, chunk) \in S,
         \A s \in S : Round(s) \in S
  PROVE  \E f \in [0..Len(chunk) -> S] :
            /\ f[0] = Start(r, chunk)
            /\ \A n \in 1..Len(chunk) : f[n] = Round(f[n - 1])
            /\ Feed(r, chunk) = [reader |-> [pending |-> f[Len(chunk)].pending,
                                             skipping |-> f[Len(chunk)].skipping],
                                 lines |-> f[Len(chunk)].lines,
                                 complete |-> f[Len(chunk)].complete]
<1> DEFINE N == Len(chunk)
           start == Start(r, chunk)
           Solves(f) == f = [n \in 0..N |-> IF n = 0 THEN start ELSE Round(f[n - 1])]
           step == [n \in 1..N |-> [v \in S |-> Round(v)]]
           after == CHOOSE f : Solves(f)
<1>1. N \in Nat /\ start \in S
  BY LenProperties
<1>2. Feed(r, chunk) = [reader |-> [pending |-> after[N].pending, skipping |-> after[N].skipping],
                        lines |-> after[N].lines, complete |-> after[N].complete]
  BY DEF Feed, Start
<1> HIDE DEF N, start
<1>3. \E f : Solves(f)
  <2>1. \A n \in 1..N, v \in S : step[n][v] = Round(v) /\ step[n][v] \in S
    OBVIOUS
  <2> HIDE DEF step
  <2>2. PICK f \in [0..N -> S] :
           f[0] = start /\ \A n \in 1..N : f[n] = step[n][f[n - 1]]
    <3>1. StaysIn(S, N, step)
      BY <2>1 DEF StaysIn
    <3>2. \E f \in [0..N -> S] : Iterates(f, start, N, step)
      BY <1>1, <3>1, RecursionExists
    <3>3. QED BY <3>2 DEF Iterates
  <2>3. ASSUME NEW n \in 0..N
        PROVE  f[n] = IF n = 0 THEN start ELSE Round(f[n - 1])
    <3>1. CASE n = 0
      BY <2>2, <3>1
    <3>2. CASE n # 0
      <4>1. n \in 1..N /\ n - 1 \in 0..N
        BY <1>1, <3>2
      <4>2. f[n] = step[n][f[n - 1]] /\ f[n - 1] \in S
        BY <2>2, <3>2, <4>1
      <4>3. QED BY <2>1, <3>2, <4>1, <4>2
    <3>3. QED BY <3>1, <3>2
  <2> DEFINE g == [n \in 0..N |-> IF n = 0 THEN start ELSE Round(f[n - 1])]
  <2>4. f = g
    <3>1. \A n \in 0..N : f[n] = g[n]
      BY <2>3
    <3>2. f = [n \in 0..N |-> f[n]] /\ g = [n \in 0..N |-> g[n]]
      OBVIOUS
    <3> HIDE DEF g
    <3>3. QED BY <3>1, <3>2
  <2>5. Solves(f)
    BY <2>4
  <2>6. QED BY <2>5
<1>4. Solves(after)
  <2> HIDE DEF Solves
  <2>1. QED BY <1>3
<1> HIDE DEF after
<1>5. after[0] = start /\ \A n \in 1..N : after[n] = Round(after[n - 1])
  BY <1>1, <1>4
<1> DEFINE K == {n \in Nat : n =< N => after[n] \in S}
<1>6. 0 \in K
  BY <1>1, <1>5
<1>7. ASSUME NEW n \in Nat, n \in K PROVE n + 1 \in K
  <2> SUFFICES ASSUME n + 1 =< N PROVE after[n + 1] \in S
    OBVIOUS
  <2>1. n + 1 \in 1..N /\ (n + 1) - 1 = n /\ after[n] \in S
    BY <1>1, <1>7
  <2>2. after[n + 1] = Round(after[n])
    BY <1>5, <2>1
  <2>3. QED BY <2>1, <2>2
<1>8. Nat \subseteq K
  <2> HIDE DEF K
  <2>1. QED BY <1>6, <1>7, SetInduction
<1>9. after \in [0..N -> S]
  BY <1>1, <1>4, <1>8
<1>10. QED
  BY <1>2, <1>5, <1>9 DEF N, start

\* How many bytes are left behind a place.
LEMMA AfterLength ==
  ASSUME NEW chunk \in Seq(Bytes), NEW p \in 0..Len(chunk), After(chunk, p) = << >>
  PROVE  p = Len(chunk)
<1>1. Len(chunk) \in Nat /\ p \in Nat /\ p =< Len(chunk)
  BY LenProperties
<1>2. \A i \in (p + 1)..Len(chunk) : chunk[i] \in Bytes
  BY <1>1, ElementOfSeq
<1>3. Len(SubSeq(chunk, p + 1, Len(chunk)))
        = IF p + 1 =< Len(chunk) THEN Len(chunk) - (p + 1) + 1 ELSE 0
  BY <1>1, <1>2, SubSeqProperties
<1>4. Len(SubSeq(chunk, p + 1, Len(chunk))) = 0
  BY DEF After
<1>5. QED
  BY <1>1, <1>3, <1>4

\* feed() keeps a reader in step with the reference, whatever the chunk.
LEMMA FeedCorrect ==
  ASSUME NEW r \in Readers, NEW bytes \in Seq(Bytes), NEW chunk \in Seq(Bytes),
         Len(chunk) =< Limit, Remembers(r.pending, r.skipping, CutUp(bytes))
  PROVE  LET fed == Feed(r, chunk)
         IN  /\ fed.reader \in Readers /\ fed.lines \in Seq(Seq(Letters)) /\ fed.complete \in BOOLEAN
             /\ Remembers(fed.reader.pending, fed.reader.skipping, CutUp(bytes \o chunk))
             /\ KeptLines(bytes \o chunk) = KeptLines(bytes) \o fed.lines
             /\ DroppedLines(bytes \o chunk)
                  = DroppedLines(bytes) + (IF fed.complete THEN 0 ELSE 1)
<1> DEFINE N == Len(chunk)
           Follows(s, p) == Tracks(s, bytes, chunk, p)
           S == {s \in Rounds : \E p \in 0..N : Follows(s, p)}
<1>1. N \in Nat /\ chunk = SubSeq(chunk, 1, N)
  BY LenProperties, SubSeqFull
<1>2. Follows(Start(r, chunk), 0) /\ Start(r, chunk) \in S
  <2> DEFINE s == Start(r, chunk)
  <2>1. r.pending \in Seq(Letters) /\ r.skipping \in BOOLEAN
    BY DEF Readers
  <2>2. /\ s \in Rounds /\ s.chunk = chunk /\ s.pending = r.pending /\ s.skipping = r.skipping
        /\ s.lines = << >> /\ s.complete = TRUE
    <3>1. << >> \in Seq(Seq(Letters))
      OBVIOUS
    <3>2. QED BY <2>1, <3>1 DEF Start, Rounds
  <2> HIDE DEF s
  <2>3. After(chunk, 0) = chunk /\ SubSeq(chunk, 1, 0) = << >> /\ bytes \o << >> = bytes
    BY <1>1, SubSeqEmpty, ConcatEmptySeq DEF After
  <2> DEFINE cut == CutUp(bytes)
  <2>4. cut.kept \in Seq(Seq(Letters)) /\ Drops(cut) \in Int
    BY CutUpType, LenProperties DEF Cuts, Drops
  <2> HIDE DEF cut
  <2>5. cut.kept = cut.kept \o s.lines
    BY <2>2, <2>4, ConcatEmptySeq
  <2>6. Drops(cut) = Drops(cut) + (IF s.complete THEN 0 ELSE 1)
    BY <2>2, <2>4
  <2>7. Room(s, cut)
    BY <2>2 DEF Room
  <2>8. CutUp(bytes \o SubSeq(chunk, 1, 0)) = cut
    BY <2>3 DEF cut
  <2>9. Remembers(s.pending, s.skipping, cut) /\ s.chunk = After(chunk, 0)
    BY <2>2, <2>3 DEF cut
  <2>10. Tracks(s, bytes, chunk, 0)
    BY <2>2, <2>5, <2>6, <2>7, <2>8, <2>9, Zenon DEF Tracks, cut
  <2>11. 0 \in 0..N
    BY <1>1
  <2>12. QED BY <2>2, <2>10, <2>11 DEF s
<1>3. ASSUME NEW s, NEW p \in 0..N, Follows(s, p)
      PROVE  \E q \in 0..N : Follows(Round(s), q) /\ (q = N \/ q > p)
  <2>1. CASE s.chunk = << >>
    <3>1. s.chunk = After(chunk, p)
      BY <1>3 DEF Tracks
    <3>3. p = N
      BY <2>1, <3>1, AfterLength
    <3>4. Round(s) = s
      BY <2>1 DEF Round
    <3>5. QED BY <1>3, <3>3, <3>4
  <2>2. CASE s.chunk # << >>
    <3>1. PICK q \in (p + 1)..Len(chunk) : Tracks(Round(s), bytes, chunk, q)
      BY <1>3, <2>2, TracksStep
    <3>2. q \in 0..N /\ q > p
      BY <1>1, <3>1
    <3>3. QED BY <3>1, <3>2
  <2>3. QED BY <2>1, <2>2
<1>4. \A s \in S : Round(s) \in S
  <2> SUFFICES ASSUME NEW s \in S PROVE Round(s) \in S
    OBVIOUS
  <2>1. PICK p \in 0..N : Follows(s, p)
    OBVIOUS
  <2>2. PICK q \in 0..N : Follows(Round(s), q)
    BY <1>3, <2>1
  <2>3. Round(s) \in Rounds
    BY <2>2, Zenon DEF Tracks
  <2>4. QED BY <2>2, <2>3
<1>5. PICK f \in [0..N -> S] :
         /\ f[0] = Start(r, chunk)
         /\ \A n \in 1..N : f[n] = Round(f[n - 1])
         /\ Feed(r, chunk) = [reader |-> [pending |-> f[N].pending, skipping |-> f[N].skipping],
                              lines |-> f[N].lines, complete |-> f[N].complete]
  <2> HIDE DEF S
  <2>1. QED BY <1>2, <1>4, FeedSteps
<1> DEFINE K == {n \in Nat : n =< N => \E p \in 0..N : Follows(f[n], p) /\ (p = N \/ p >= n)}
<1> HIDE DEF Follows, N, S
<1>6. 0 \in K
  <2>1. 0 \in 0..N
    BY <1>1
  <2>2. QED BY <1>2, <1>5, <2>1
<1>7. ASSUME NEW n \in Nat, n \in K PROVE n + 1 \in K
  <2> SUFFICES ASSUME n + 1 =< N
               PROVE  \E p \in 0..N : Follows(f[n + 1], p) /\ (p = N \/ p >= n + 1)
    OBVIOUS
  <2>1. n + 1 \in 1..N /\ (n + 1) - 1 = n /\ n =< N
    BY <1>1
  <2>2. PICK p \in 0..N : Follows(f[n], p) /\ (p = N \/ p >= n)
    BY <1>7, <2>1
  <2>3. PICK q \in 0..N : Follows(Round(f[n]), q) /\ (q = N \/ q > p)
    BY <1>3, <2>2
  <2>4. f[n + 1] = Round(f[n])
    BY <1>5, <2>1
  <2>5. q = N \/ q >= n + 1
    BY <1>1, <2>2, <2>3
  <2>6. QED BY <2>3, <2>4, <2>5
<1>8. Nat \subseteq K
  <2> HIDE DEF K
  <2>1. QED BY <1>6, <1>7, SetInduction
<1>9. Follows(f[N], N)
  <2>1. PICK p \in 0..N : Follows(f[N], p) /\ (p = N \/ p >= N)
    BY <1>1, <1>8
  <2>2. p = N
    BY <1>1, <2>1
  <2>3. QED BY <2>1, <2>2
<1> DEFINE s == f[N]
           fed == Feed(r, chunk)
<1>10. /\ fed.reader.pending = s.pending /\ fed.reader.skipping = s.skipping
       /\ fed.reader = [pending |-> s.pending, skipping |-> s.skipping]
       /\ fed.lines = s.lines /\ fed.complete = s.complete
  BY <1>5
<1> HIDE DEF s, fed
<1> DEFINE old == CutUp(bytes)
           new == CutUp(bytes \o chunk)
<1>11. Tracks(s, bytes, chunk, N)
  BY <1>9 DEF s, Follows
<1> HIDE DEF K
<1>12. /\ s \in Rounds /\ Remembers(s.pending, s.skipping, new)
       /\ new.kept = old.kept \o s.lines
       /\ Drops(new) = Drops(old) + (IF s.complete THEN 0 ELSE 1)
  BY <1>1, <1>11, Zenon DEF Tracks
<1>13. s.pending \in Seq(Letters) /\ s.skipping \in BOOLEAN /\ s.lines \in Seq(Seq(Letters))
       /\ s.complete \in BOOLEAN
  BY <1>12 DEF Rounds
<1>14. fed.reader \in Readers
  BY <1>10, <1>13 DEF Readers
<1>15. DroppedLines(bytes) = Drops(old) /\ DroppedLines(bytes \o chunk) = Drops(new)
  BY DEF DroppedLines, LinesOf, KeptLines, Unfinished, Drops
<1>16. KeptLines(bytes) = old.kept /\ KeptLines(bytes \o chunk) = new.kept
  BY DEF KeptLines
<1> HIDE DEF old, new
<1>17. /\ Remembers(fed.reader.pending, fed.reader.skipping, new)
       /\ new.kept = old.kept \o fed.lines
       /\ Drops(new) = Drops(old) + (IF fed.complete THEN 0 ELSE 1)
  BY <1>10, <1>12, Zenon
<1>18. fed.lines \in Seq(Seq(Letters)) /\ fed.complete \in BOOLEAN
  BY <1>10, <1>13, Zenon
<1>19. QED
  BY <1>14, <1>15, <1>16, <1>17, <1>18, Zenon DEF fed, old, new

\* The reading of a stream without a byte.
LEMMA NothingCut ==
  /\ CutUp(<< >>).rest = << >> /\ Fits(CutUp(<< >>).rest)
  /\ KeptLines(<< >>) = << >> /\ DroppedLines(<< >>) = 0
<1>1. /\ CutUp(<< >>).lines = << >> /\ CutUp(<< >>).kept = << >> /\ CutUp(<< >>).rest = << >>
  BY CutUpEmpty DEF NothingYet
<1>2. Fits(CutUp(<< >>).rest)
  BY <1>1, LineReaderAssumption DEF Fits
<1>3. QED
  BY <1>1, <1>2 DEF KeptLines, DroppedLines, LinesOf, Unfinished

\* A new reader has nothing of a stream that has not begun.
LEMMA FreshReader ==
  Fresh \in Readers /\ Remembers(Fresh.pending, Fresh.skipping, CutUp(<< >>))
<1>1. Fresh.pending = << >> /\ Fresh.skipping = FALSE
  BY DEF Fresh
<1>2. Fresh \in Readers
  BY DEF Fresh, Readers
<1>3. QED
  BY <1>1, <1>2, NothingCut DEF Remembers

\* What a reader keeps is a line within the limit.
LEMMA RemembersLittle ==
  ASSUME NEW r \in Readers, NEW bytes \in Seq(Bytes), Remembers(r.pending, r.skipping, CutUp(bytes))
  PROVE  Len(r.pending) =< Limit
<1> DEFINE rest == CutUp(bytes).rest
<1>1. CASE Fits(rest)
  BY <1>1 DEF Remembers, Fits
<1>2. CASE ~ Fits(rest)
  <2>1. r.pending = << >>
    BY <1>2 DEF Remembers
  <2>2. QED BY <2>1, LineReaderAssumption
<1>3. QED
  BY <1>1, <1>2

-----------------------------------------------------------------------------
(* A stream that is read in parts.                                          *)

\* Induction over the length of a sequence.
LEMMA WordInduction ==
  ASSUME NEW S, NEW T, << >> \in T,
         \A w \in Seq(S), e \in S : w \in T => Append(w, e) \in T
  PROVE  Seq(S) \subseteq T
<1> DEFINE K == {n \in Nat : \A w \in Seq(S) : Len(w) = n => w \in T}
<1>1. 0 \in K
  BY EmptySeq
<1>2. ASSUME NEW n \in Nat, n \in K PROVE n + 1 \in K
  <2> SUFFICES ASSUME NEW w \in Seq(S), Len(w) = n + 1 PROVE w \in T
    OBVIOUS
  <2>1. w # << >>
    BY EmptySeq
  <2>2. PICK v \in Seq(S), e \in S : w = Append(v, e)
    BY <2>1, SequenceEmptyOrAppend
  <2>3. Len(v) = n
    BY <2>2, AppendProperties, LenProperties
  <2>4. v \in T
    BY <1>2, <2>3
  <2>5. QED BY <2>2, <2>4
<1>3. Nat \subseteq K
  <2> HIDE DEF K
  <2>1. QED BY <1>1, <1>2, SetInduction
<1>4. QED
  BY <1>3, LenProperties

\* The reading of a letter at a time, of a line that has not ended.
LEMMA CutUpWord ==
  ASSUME NEW word \in Seq(Letters)
  PROVE  /\ CutUp(word).lines = << >> /\ CutUp(word).kept = << >>
         /\ CutUp(word).rest = word
<1>1. << >> \in Seq(Bytes) /\ << >> \o word = word
  BY ConcatEmptySeq
<1>2. /\ CutUp(<< >>).lines = << >> /\ CutUp(<< >>).kept = << >> /\ CutUp(<< >>).rest = << >>
  BY CutUpEmpty DEF NothingYet
<1>3. /\ CutUp(<< >> \o word).lines = CutUp(<< >>).lines
      /\ CutUp(<< >> \o word).kept = CutUp(<< >>).kept
      /\ CutUp(<< >> \o word).rest = CutUp(<< >>).rest \o word
  BY <1>1, CutUpLetters
<1>4. QED
  BY <1>1, <1>2, <1>3

ReadsOn(whole, first, second) ==
    /\ whole.lines = first.lines \o second.lines
    /\ whole.kept = first.kept \o second.kept
    /\ whole.rest = second.rest

\* A byte more for both.
LEMMA ReadsOnByte ==
  ASSUME NEW c \in Cuts, NEW u \in Cuts, NEW d \in Cuts, NEW e \in Bytes, ReadsOn(c, u, d)
  PROVE  ReadsOn(NextByte(c, e), u, NextByte(d, e))
<1>1. /\ u.lines \in Seq(Seq(Letters)) /\ u.kept \in Seq(Seq(Letters))
      /\ d.lines \in Seq(Seq(Letters)) /\ d.kept \in Seq(Seq(Letters)) /\ d.rest \in Seq(Letters)
      /\ c.lines = u.lines \o d.lines /\ c.kept = u.kept \o d.kept /\ c.rest = d.rest
  BY DEF Cuts, ReadsOn
<1>2. CASE e # Newline
  <2>1. /\ NextByte(c, e).lines = c.lines /\ NextByte(c, e).kept = c.kept
        /\ NextByte(c, e).rest = Append(c.rest, e)
        /\ NextByte(d, e).lines = d.lines /\ NextByte(d, e).kept = d.kept
        /\ NextByte(d, e).rest = Append(d.rest, e)
    BY <1>2, OnLetter
  <2>2. QED BY <1>1, <2>1 DEF ReadsOn
<1>3. CASE e = Newline
  <2> DEFINE r == d.rest
  <2>1. /\ NextByte(c, e).lines = Append(c.lines, r)
        /\ NextByte(c, e).kept = IF Fits(r) THEN Append(c.kept, r) ELSE c.kept
        /\ NextByte(c, e).rest = << >>
        /\ NextByte(d, e).lines = Append(d.lines, r)
        /\ NextByte(d, e).kept = IF Fits(r) THEN Append(d.kept, r) ELSE d.kept
        /\ NextByte(d, e).rest = << >>
    BY <1>1, <1>3, OnNewline
  <2>2. ASSUME NEW a \in Seq(Seq(Letters)), NEW b \in Seq(Seq(Letters))
        PROVE  Append(a \o b, r) = a \o Append(b, r)
    <3> HIDE DEF r
    <3>1. r \in Seq(Letters) /\ <<r>> \in Seq(Seq(Letters))
      BY <1>1 DEF r
    <3>2. a \o b \in Seq(Seq(Letters))
      BY ConcatProperties
    <3>3. Append(a \o b, r) = (a \o b) \o <<r>> /\ Append(b, r) = b \o <<r>>
      BY <3>1, <3>2, AppendIsConcat
    <3>4. (a \o b) \o <<r>> = a \o (b \o <<r>>)
      BY <3>1, ConcatAssociative
    <3>5. QED BY <3>3, <3>4
  <2> HIDE DEF r
  <2>3. Append(c.lines, r) = u.lines \o Append(d.lines, r)
    BY <1>1, <2>2
  <2>4. Append(c.kept, r) = u.kept \o Append(d.kept, r)
    BY <1>1, <2>2
  <2>5. QED BY <1>1, <2>1, <2>3, <2>4 DEF ReadsOn
<1>4. QED
  BY <1>2, <1>3

\* What comes behind a part of a stream is read with what that part has left unfinished.
LEMMA CutUpGoesOn ==
  ASSUME NEW x \in Seq(Bytes), NEW y \in Seq(Bytes)
  PROVE  ReadsOn(CutUp(x \o y), CutUp(x), CutUp(Unfinished(x) \o y))
<1> DEFINE u == Unfinished(x)
           T == {w \in Seq(Bytes) : ReadsOn(CutUp(x \o w), CutUp(x), CutUp(u \o w))}
<1>1. u \in Seq(Letters) /\ u \in Seq(Bytes) /\ u = CutUp(x).rest
  <2>1. u = CutUp(x).rest /\ CutUp(x).rest \in Seq(Letters)
    BY CutUpType DEF Unfinished, Cuts
  <2>2. QED BY <2>1, LettersAreBytes
<1> HIDE DEF u
<1>2. << >> \in T
  <2>1. x \o << >> = x /\ u \o << >> = u /\ << >> \in Seq(Bytes)
    BY <1>1, ConcatEmptySeq
  <2>2. CutUp(u).lines = << >> /\ CutUp(u).kept = << >> /\ CutUp(u).rest = u
    BY <1>1, CutUpWord
  <2> DEFINE c == CutUp(x)
  <2>3. c.lines \in Seq(Seq(Letters)) /\ c.kept \in Seq(Seq(Letters))
    BY CutUpType DEF Cuts
  <2>4. c.lines \o << >> = c.lines /\ c.kept \o << >> = c.kept
    <3> HIDE DEF c
    <3>1. QED BY <2>3, ConcatEmptySeq
  <2>5. QED BY <1>1, <2>1, <2>2, <2>4 DEF ReadsOn
<1>3. ASSUME NEW w \in Seq(Bytes), NEW e \in Bytes, w \in T PROVE Append(w, e) \in T
  <2>1. ASSUME NEW z \in Seq(Bytes)
        PROVE  /\ CutUp(z \o Append(w, e)) = NextByte(CutUp(z \o w), e)
               /\ CutUp(z \o w) \in Cuts
    <3>1. z \o w \in Seq(Bytes) /\ <<e>> \in Seq(Bytes)
      BY ConcatProperties
    <3>2. z \o Append(w, e) = Append(z \o w, e)
      <4>1. Append(w, e) = w \o <<e>> /\ Append(z \o w, e) = (z \o w) \o <<e>>
        BY <3>1, AppendIsConcat
      <4>2. QED BY <3>1, <4>1, ConcatAssociative
    <3>3. QED BY <3>1, <3>2, CutUpAppend, CutUpType
  <2>2. ReadsOn(CutUp(x \o w), CutUp(x), CutUp(u \o w))
    BY <1>3
  <2>3. CutUp(x) \in Cuts
    BY CutUpType
  <2>4. ReadsOn(NextByte(CutUp(x \o w), e), CutUp(x), NextByte(CutUp(u \o w), e))
    BY <1>1, <2>1, <2>2, <2>3, ReadsOnByte
  <2>5. Append(w, e) \in Seq(Bytes)
    BY AppendProperties
  <2>6. QED BY <1>1, <2>1, <2>4, <2>5
<1>4. Seq(Bytes) \subseteq T
  <2> HIDE DEF T
  <2>1. QED BY <1>2, <1>3, WordInduction
<1>5. QED
  BY <1>4 DEF u

\* Each kept line is one of the lines, and no two of them the same one.
PickedBy(e, kept, lines) ==
    /\ Len(kept) =< Len(lines)
    /\ e \in [1..Len(kept) -> 1..Len(lines)]
    /\ \A i, j \in 1..Len(kept) : e[i] = e[j] => i = j
    /\ \A i \in 1..Len(kept) : kept[i] = lines[e[i]]

\* What fits is kept, in the order of the lines.
LEMMA KeptAreLines ==
  ASSUME NEW x \in Seq(Bytes)
  PROVE  \E e : PickedBy(e, KeptLines(x), LinesOf(x))
<1> DEFINE Picked(c) == \E e : PickedBy(e, c.kept, c.lines)
           T == {w \in Seq(Bytes) : Picked(CutUp(w))}
<1>1. << >> \in T
  <2>1. CutUp(<< >>).lines = << >> /\ CutUp(<< >>).kept = << >>
    BY CutUpEmpty DEF NothingYet
  <2>2. PickedBy(<< >>, << >>, << >>)
    BY DEF PickedBy
  <2>3. QED BY <2>1, <2>2
<1>2. ASSUME NEW w \in Seq(Bytes), NEW b \in Bytes, w \in T PROVE Append(w, b) \in T
  <2> DEFINE c == CutUp(w)
  <2>1. Append(w, b) \in Seq(Bytes) /\ CutUp(Append(w, b)) = NextByte(c, b) /\ c \in Cuts
    BY AppendProperties, CutUpAppend, CutUpType
  <2>2. PICK e : PickedBy(e, c.kept, c.lines)
    BY <1>2
  <2> HIDE DEF c
  <2>3. /\ c.kept \in Seq(Seq(Letters)) /\ c.lines \in Seq(Seq(Letters)) /\ c.rest \in Seq(Letters)
    BY <2>1 DEF Cuts
  <2> DEFINE K == Len(c.kept)
             N == Len(c.lines)
             more == Append(c.lines, c.rest)
             keep == Append(c.kept, c.rest)
  <2>4. K \in Nat /\ N \in Nat
    BY <2>3, LenProperties
  <2>5. /\ Len(more) = N + 1 /\ (\A i \in 1..N : more[i] = c.lines[i]) /\ more[N + 1] = c.rest
        /\ Len(keep) = K + 1 /\ (\A i \in 1..K : keep[i] = c.kept[i]) /\ keep[K + 1] = c.rest
    BY <2>3, AppendProperties
  <2>6. /\ K =< N /\ e \in [1..K -> 1..N]
        /\ \A i, j \in 1..K : e[i] = e[j] => i = j
        /\ \A i \in 1..K : c.kept[i] = c.lines[e[i]]
    BY <2>2 DEF PickedBy
  <2> DEFINE both == [i \in 1..(K + 1) |-> IF i = K + 1 THEN N + 1 ELSE e[i]]
  <2> HIDE DEF K, N, more, keep
  <2>7. CASE b # Newline
    <3>1. NextByte(c, b).kept = c.kept /\ NextByte(c, b).lines = c.lines
      BY <2>7, OnLetter
    <3>2. QED BY <2>1, <2>2, <3>1
  <2>8. CASE b = Newline /\ Fits(c.rest)
    <3>1. NextByte(c, b).kept = keep /\ NextByte(c, b).lines = more
      BY <2>8, OnNewline DEF keep, more
    <3>2. \A i \in 1..(K + 1) : i # K + 1 => i \in 1..K
      BY <2>4
    <3>3. both \in [1..(K + 1) -> 1..(N + 1)]
      BY <2>4, <2>6, <3>2
    <3>4. \A i, j \in 1..(K + 1) : both[i] = both[j] => i = j
      BY <2>4, <2>6, <3>2
    <3>5. \A i \in 1..(K + 1) : keep[i] = more[both[i]]
      BY <2>4, <2>5, <2>6, <3>2
    <3> HIDE DEF both
    <3>6. PickedBy(both, keep, more)
      BY <2>4, <2>5, <2>6, <3>3, <3>4, <3>5 DEF PickedBy
    <3>7. QED BY <2>1, <3>1, <3>6
  <2>9. CASE b = Newline /\ ~ Fits(c.rest)
    <3>1. NextByte(c, b).kept = c.kept /\ NextByte(c, b).lines = more
      BY <2>9, OnNewline DEF more
    <3>2. PickedBy(e, c.kept, more)
      <4>1. ASSUME NEW i \in 1..K
            PROVE  e[i] \in 1..N /\ e[i] \in 1..(N + 1) /\ c.kept[i] = more[e[i]]
        <5>1. e[i] \in 1..N /\ c.kept[i] = c.lines[e[i]]
          BY <2>6
        <5>2. more[e[i]] = c.lines[e[i]] /\ e[i] \in 1..(N + 1)
          BY <2>4, <2>5, <5>1
        <5>3. QED BY <5>1, <5>2
      <4>2. e \in [1..K -> 1..(N + 1)]
        BY <2>6, <4>1
      <4>3. QED BY <2>4, <2>5, <2>6, <4>1, <4>2 DEF PickedBy, K
    <3>3. QED BY <2>1, <3>1, <3>2
  <2>10. QED BY <2>7, <2>8, <2>9
<1>3. Seq(Bytes) \subseteq T
  <2> HIDE DEF T
  <2>1. QED BY <1>1, <1>2, WordInduction
<1>4. QED
  BY <1>3 DEF KeptLines, LinesOf

\* A longer stream has not dropped less.
LEMMA DropsGrow ==
  ASSUME NEW x \in Seq(Bytes), NEW y \in Seq(Bytes)
  PROVE  DroppedLines(x) \in Int /\ DroppedLines(x) =< DroppedLines(x \o y)
<1>1. ASSUME NEW z \in Seq(Bytes) PROVE DroppedLines(z) = Drops(CutUp(z)) /\ Drops(CutUp(z)) \in Int
  <2> DEFINE c == CutUp(z)
  <2>1. Len(c.lines) \in Nat /\ Len(c.kept) \in Nat
    BY CutUpType, LenProperties DEF Cuts
  <2>2. DroppedLines(z) = Drops(c)
    BY DEF DroppedLines, LinesOf, KeptLines, Unfinished, Drops
  <2> HIDE DEF c
  <2>3. Drops(c) \in Int
    BY <2>1 DEF Drops
  <2>4. QED BY <2>2, <2>3 DEF c
<1> DEFINE D == Drops(CutUp(x))
           T == {w \in Seq(Bytes) : D =< Drops(CutUp(x \o w))}
<1>2. << >> \in T
  <2>1. x \o << >> = x /\ D \in Int
    BY <1>1, ConcatEmptySeq
  <2>2. QED BY <2>1
<1>3. ASSUME NEW w \in Seq(Bytes), NEW b \in Bytes, w \in T PROVE Append(w, b) \in T
  <2> DEFINE c == CutUp(x \o w)
             new == NextByte(c, b)
  <2>1. x \o w \in Seq(Bytes) /\ Append(w, b) \in Seq(Bytes)
    BY ConcatProperties, AppendProperties
  <2>2. CutUp(x \o Append(w, b)) = new
    <3>1. <<b>> \in Seq(Bytes)
      OBVIOUS
    <3>2. Append(w, b) = w \o <<b>> /\ Append(x \o w, b) = (x \o w) \o <<b>>
      BY <2>1, AppendIsConcat
    <3>3. x \o Append(w, b) = Append(x \o w, b)
      BY <3>1, <3>2, ConcatAssociative
    <3>4. QED BY <2>1, <3>3, CutUpAppend
  <2>3. c \in Cuts /\ D \in Int /\ Drops(c) \in Int /\ D =< Drops(c)
    BY <1>1, <1>3, <2>1, CutUpType
  <2> HIDE DEF c, D
  <2>4. /\ c.lines \in Seq(Seq(Letters)) /\ c.kept \in Seq(Seq(Letters)) /\ c.rest \in Seq(Letters)
        /\ Len(c.lines) \in Nat /\ Len(c.kept) \in Nat
    BY <2>3, LenProperties DEF Cuts
  <2>5. Drops(c) =< Drops(new) /\ Drops(new) \in Int
    <3>1. CASE b # Newline
      <4>1. new.lines = c.lines /\ new.kept = c.kept /\ new.rest = Append(c.rest, b)
        BY <3>1, OnLetter
      <4>2. b \in Letters
        BY <3>1 DEF Bytes
      <4>3. Len(new.rest) = Len(c.rest) + 1 /\ Len(c.rest) \in Nat
        BY <2>4, <4>1, <4>2, AppendProperties, LenProperties
      <4>4. Fits(new.rest) => Fits(c.rest)
        BY <4>3, LineReaderAssumption DEF Fits
      <4> HIDE DEF new
      <4>5. QED BY <2>4, <4>1, <4>4 DEF Drops
    <3>2. CASE b = Newline
      <4>1. /\ new.lines = Append(c.lines, c.rest) /\ new.rest = << >>
            /\ new.kept = IF Fits(c.rest) THEN Append(c.kept, c.rest) ELSE c.kept
        BY <3>2, OnNewline
      <4>2. /\ Len(Append(c.lines, c.rest)) = Len(c.lines) + 1
            /\ Len(Append(c.kept, c.rest)) = Len(c.kept) + 1
        BY <2>4, AppendProperties
      <4>3. Fits(<< >>)
        BY LineReaderAssumption DEF Fits
      <4> HIDE DEF new
      <4>4. /\ Len(new.lines) = Len(c.lines) + 1 /\ Fits(new.rest)
            /\ Len(new.kept) = IF Fits(c.rest) THEN Len(c.kept) + 1 ELSE Len(c.kept)
        BY <4>1, <4>2, <4>3
      <4> DEFINE l == Len(c.lines)
                 k == Len(c.kept)
      <4>5. l \in Nat /\ k \in Nat
        BY <2>4
      <4>6. CASE Fits(c.rest)
        <5>1. Drops(c) = l - k + 0 /\ Drops(new) = (l + 1) - (k + 1) + 0
          BY <4>4, <4>6, Zenon DEF Drops
        <5> HIDE DEF l, k
        <5>2. QED BY <4>5, <5>1
      <4>7. CASE ~ Fits(c.rest)
        <5>1. Drops(c) = l - k + 1 /\ Drops(new) = (l + 1) - k + 0
          BY <4>4, <4>7, Zenon DEF Drops
        <5> HIDE DEF l, k
        <5>2. QED BY <4>5, <5>1
      <4>8. QED BY <4>6, <4>7
    <3>3. QED BY <3>1, <3>2
  <2> HIDE DEF new
  <2>6. D =< Drops(new)
    BY <2>3, <2>5
  <2>7. QED BY <2>1, <2>2, <2>6 DEF c
<1>4. Seq(Bytes) \subseteq T
  <2> HIDE DEF T
  <2>1. QED BY <1>2, <1>3, WordInduction
<1>5. x \o y \in Seq(Bytes)
  BY ConcatProperties
<1>6. QED
  BY <1>1, <1>4, <1>5

\* ... and has dropped what its parts have.
LEMMA DropsOfTheRest ==
  ASSUME NEW x \in Seq(Bytes), NEW y \in Seq(Bytes), DroppedLines(x \o y) = 0
  PROVE  DroppedLines(x) = 0 /\ DroppedLines(Unfinished(x) \o y) = 0
<1>1. ASSUME NEW z \in Seq(Bytes) PROVE 0 =< DroppedLines(z) /\ DroppedLines(z) \in Int
  <2>1. << >> \in Seq(Bytes) /\ << >> \o z = z
    BY ConcatEmptySeq
  <2>2. DroppedLines(<< >>) =< DroppedLines(z) /\ DroppedLines(z) \in Int
    BY <2>1, DropsGrow
  <2>3. QED BY <2>2, NothingCut
<1>2. DroppedLines(x) = 0
  BY <1>1, DropsGrow
<1> DEFINE u == Unfinished(x)
           a == CutUp(x)
           b == CutUp(u \o y)
           c == CutUp(x \o y)
<1>3. u \in Seq(Bytes) /\ u \o y \in Seq(Bytes) /\ x \o y \in Seq(Bytes)
  <2>1. u \in Seq(Letters)
    BY CutUpType DEF Cuts, Unfinished
  <2>2. QED BY <2>1, LettersAreBytes, ConcatProperties
<1>4. ReadsOn(c, a, b) /\ a \in Cuts /\ b \in Cuts
  BY <1>3, CutUpGoesOn, CutUpType
<1>5. Len(a.kept) =< Len(a.lines)
  BY KeptAreLines DEF PickedBy, KeptLines, LinesOf
<1>6. DroppedLines(x \o y) = Drops(c) /\ DroppedLines(u \o y) = Drops(b)
  BY DEF DroppedLines, LinesOf, KeptLines, Unfinished, Drops
<1>7. 0 =< Drops(b) /\ Drops(c) = 0
  BY <1>1, <1>3, <1>6
<1> HIDE DEF a, b, c
<1>8. /\ c.lines = a.lines \o b.lines /\ c.kept = a.kept \o b.kept /\ c.rest = b.rest
      /\ a.lines \in Seq(Seq(Letters)) /\ a.kept \in Seq(Seq(Letters))
      /\ b.lines \in Seq(Seq(Letters)) /\ b.kept \in Seq(Seq(Letters))
  BY <1>4 DEF ReadsOn, Cuts
<1>9. /\ Len(c.lines) = Len(a.lines) + Len(b.lines) /\ Len(c.kept) = Len(a.kept) + Len(b.kept)
      /\ Len(a.lines) \in Nat /\ Len(b.lines) \in Nat /\ Len(a.kept) \in Nat /\ Len(b.kept) \in Nat
  BY <1>8, ConcatProperties, LenProperties
<1>10. Drops(b) = 0
  <2> DEFINE over == IF Fits(b.rest) THEN 0 ELSE 1
  <2>1. /\ Drops(b) = Len(b.lines) - Len(b.kept) + over
        /\ Drops(c) = Len(c.lines) - Len(c.kept) + over
    BY <1>8 DEF Drops
  <2>2. over \in Int
    OBVIOUS
  <2> DEFINE la == Len(a.lines)
             ka == Len(a.kept)
             lb == Len(b.lines)
             kb == Len(b.kept)
             db == Drops(b)
  <2>3. /\ db = lb - kb + over /\ 0 = (la + lb) - (ka + kb) + over
        /\ ka =< la /\ 0 =< db
        /\ la \in Nat /\ ka \in Nat /\ lb \in Nat /\ kb \in Nat
    <3>1. 0 = Len(c.lines) - Len(c.kept) + over
      BY <1>7, <2>1, Zenon
    <3>2. 0 = (la + lb) - (ka + kb) + over
      BY <1>9, <3>1, Zenon
    <3>3. QED BY <1>5, <1>7, <1>9, <2>1, <3>2, Zenon
  <2> HIDE DEF over, la, ka, lb, kb, db
  <2>4. db = 0
    BY <2>2, <2>3
  <2>5. QED BY <2>4 DEF db
<1>11. QED
  BY <1>2, <1>6, <1>10
=============================================================================
