------------------------- MODULE PartOffsetsProofs -------------------------
(***************************************************************************)
(* What the division into parts does for every part size and every archive *)
(* size, proved from loop invariants of calculateOffsets.                  *)
(***************************************************************************)
EXTENDS PartOffsets, TLAPS

\* While the loop runs, the next part starts inside the file and `end' is a
\* whole number of parts, MinPartSize - 1 bytes further (MinPartSize bytes for
\* the first part, which is one byte longer than the others).
LoopInv ==
    /\ pc \in {"begin", "loop"} =>
          /\ part = Len(offsets) + 1
          /\ end = part * MinPartSize
          /\ start = IF part = 1 THEN 0 ELSE end - MinPartSize + 1
    /\ pc = "loop" => MinPartSize <= total
    /\ pc \in {"begin", "single"} => offsets = <<>>

\* The ranges of s leave out no byte up to the last one.
AllCovered(s, last) ==
    \A b \in 0 .. last : \E i \in DOMAIN s : Covers(s[i], b)

\* The ranges so far lie before `start' and leave out no byte before it.
CoveredSoFar ==
    /\ pc = "loop" =>
          /\ \A i \in DOMAIN offsets : offsets[i].end < start
          /\ AllCovered(offsets, start - 1)
    /\ pc = "multipart" => AllCovered(offsets, total - 1)

IInv == TypeOK /\ LoopInv /\ NumberedInOrder /\ CoveredSoFar

-----------------------------------------------------------------------------

\* The facts about Append that the steps of the loop use.
LEMMA AppendFacts ==
    ASSUME NEW s \in Seq(Offset), NEW o \in Offset
    PROVE  /\ Append(s, o) \in Seq(Offset)
           /\ Len(s) \in Nat
           /\ Len(Append(s, o)) = Len(s) + 1
           /\ DOMAIN Append(s, o) = 1 .. Len(s) + 1
           /\ DOMAIN s = 1 .. Len(s)
           /\ \A i \in 1 .. Len(s) : Append(s, o)[i] = s[i] /\ s[i] \in Offset
           /\ Append(s, o)[Len(s) + 1] = o
  OBVIOUS

\* A range that carries the next number and lies behind all others keeps the
\* parts in order.
LEMMA AppendInOrder ==
    ASSUME NEW s \in Seq(Offset), NEW o \in Offset,
           InOrder(s),
           o.part = Len(s) + 1,
           \A i \in DOMAIN s : s[i].end < o.start
    PROVE  InOrder(Append(s, o))
<1> DEFINE t == Append(s, o)
           n == Len(s)
<1>1. /\ n \in Nat /\ DOMAIN s = 1 .. n /\ DOMAIN t = 1 .. n + 1
      /\ \A i \in 1 .. n : t[i] = s[i]
      /\ t[n + 1] = o
  BY AppendFacts
<1> HIDE DEF t, n
<1>2. o.part = n + 1
  BY DEF n
<1>3. ASSUME NEW i \in 1 .. n + 1, NEW j \in 1 .. n + 1, i < j
      PROVE  t[i].end < t[j].start
  <2>1. CASE j = n + 1
    BY <1>1, <1>3, <2>1
  <2>2. CASE j # n + 1
    BY <1>1, <1>3, <2>2 DEF InOrder
  <2>3. QED
    BY <2>1, <2>2
<1>4. ASSUME NEW i \in 1 .. n + 1
      PROVE  t[i].part = i
  BY <1>1, <1>2 DEF InOrder
<1>5. InOrder(t)
  BY <1>1, <1>3, <1>4 DEF InOrder
<1>6. QED
  BY <1>5 DEF t

\* A range that starts right after the bytes already covered covers those up to
\* its own end.
LEMMA AppendCovers ==
    ASSUME NEW s \in Seq(Offset), NEW o \in Offset,
           AllCovered(s, o.start - 1)
    PROVE  AllCovered(Append(s, o), o.end)
<1> DEFINE t == Append(s, o)
           n == Len(s)
<1>1. /\ n \in Nat /\ DOMAIN s = 1 .. n /\ DOMAIN t = 1 .. n + 1
      /\ \A i \in 1 .. n : t[i] = s[i]
      /\ t[n + 1] = o
      /\ o.start \in Nat /\ o.end \in Int
  BY AppendFacts DEF Offset
<1> HIDE DEF t, n
<1>2. ASSUME NEW b \in 0 .. o.end
      PROVE  \E i \in DOMAIN t : Covers(t[i], b)
  <2>1. CASE b < o.start
    <3>1. PICK i \in 1 .. n : Covers(s[i], b)
      BY <2>1, <1>1 DEF AllCovered
    <3>2. i \in DOMAIN t /\ Covers(t[i], b)
      BY <3>1, <1>1
    <3>3. QED
      BY <3>2
  <2>2. CASE b >= o.start
    BY <2>2, <1>1 DEF Covers
  <2>3. QED
    BY <2>1, <2>2, <1>1
<1>3. AllCovered(t, o.end)
  BY <1>2 DEF AllCovered
<1>4. QED
  BY <1>3 DEF t

\* The loop of calculateOffsets starts with its invariant ...
LEMMA InitIInv == Init => IInv
  BY MinPartSizeAssumption, MaxTotalAssumption
  DEF Init, IInv, TypeOK, LoopInv, NumberedInOrder, InOrder, CoveredSoFar

\* ... and every step keeps it.
LEMMA NextIInv == IInv /\ [Next]_vars => IInv'
<1> SUFFICES ASSUME IInv, [Next]_vars
             PROVE  IInv'
  OBVIOUS
<1> USE MinPartSizeAssumption, MaxTotalAssumption
<1>1. CASE SingleInstruction
  BY <1>1 DEF SingleInstruction, IInv, TypeOK, LoopInv, NumberedInOrder, CoveredSoFar
<1>2. CASE EnterLoop
  BY <1>2 DEF EnterLoop, IInv, TypeOK, LoopInv, NumberedInOrder, CoveredSoFar,
              AllCovered
<1>3. CASE AppendPart
  <2> DEFINE o == [part |-> part, start |-> start, end |-> end]
             n == Len(offsets)
  <2>1. /\ n \in Nat /\ part = n + 1 /\ end = part * MinPartSize
        /\ part \in Nat /\ start \in Nat /\ end \in Nat
        /\ start <= end /\ end < total
        /\ pc = "loop" /\ pc' = "loop" /\ total' = total
        /\ part' = part + 1 /\ start' = end + 1 /\ end' = end + MinPartSize
    BY <1>3 DEF AppendPart, MoreParts, NextStart, IInv, TypeOK, LoopInv
  <2>2. o \in Offset /\ offsets \in Seq(Offset) /\ offsets' = Append(offsets, o)
    BY <2>1, <1>3 DEF Offset, IInv, TypeOK, AppendPart
  <2>3. o.part = part /\ o.start = start /\ o.end = end
    OBVIOUS
  <2> HIDE DEF o
  <2>4. /\ offsets' \in Seq(Offset) /\ Len(offsets') = n + 1
        /\ DOMAIN offsets' = 1 .. n + 1 /\ DOMAIN offsets = 1 .. n
        /\ \A i \in 1 .. n : offsets'[i] = offsets[i]
        /\ offsets'[n + 1] = o
    BY <2>2, AppendFacts
  <2>5. /\ \A i \in DOMAIN offsets : offsets[i].end < start
        /\ AllCovered(offsets, start - 1)
    BY <2>1 DEF IInv, CoveredSoFar
  <2>6. TypeOK'
    BY <2>1, <2>4 DEF IInv, TypeOK
  <2>7. LoopInv'
    <3>1. end' = part' * MinPartSize
      BY <2>1
    <3>2. QED
      BY <2>1, <2>4, <3>1 DEF IInv, LoopInv
  <2>8. NumberedInOrder'
    BY <2>1, <2>2, <2>3, <2>5, AppendInOrder DEF IInv, NumberedInOrder
  <2>9. CoveredSoFar'
    <3>1. \A i \in DOMAIN offsets' : offsets'[i].end < start'
      <4>1. \A i \in 1 .. n : offsets[i].end \in Int
        <5>1. \A i \in 1 .. n : offsets[i] \in Offset
          BY <2>2, AppendFacts
        <5>2. QED
          BY <5>1 DEF Offset
      <4>2. \A i \in 1 .. n : offsets'[i].end < start'
        BY <2>1, <2>4, <2>5, <4>1
      <4>3. QED
        BY <4>2, <2>1, <2>3, <2>4
    <3>2. AllCovered(offsets', start' - 1)
      BY <2>1, <2>2, <2>3, <2>5, AppendCovers
    <3>3. QED
      BY <3>1, <3>2, <2>1 DEF CoveredSoFar
  <2>10. QED
    BY <2>6, <2>7, <2>8, <2>9 DEF IInv
<1>4. CASE AppendLast
  <2> DEFINE o == [part |-> part, start |-> start, end |-> total - 1]
             n == Len(offsets)
  <2>1. /\ n \in Nat /\ part = n + 1
        /\ part \in Nat /\ start \in Nat /\ start <= total /\ total \in Nat
        /\ pc = "loop" /\ pc' = "multipart" /\ total' = total
        /\ part' = part /\ start' = start /\ end' = total - 1
    BY <1>4 DEF AppendLast, IInv, TypeOK, LoopInv
  <2>2. o \in Offset /\ offsets \in Seq(Offset) /\ offsets' = Append(offsets, o)
    BY <2>1, <1>4 DEF Offset, IInv, TypeOK, AppendLast
  <2>3. o.part = part /\ o.start = start /\ o.end = total - 1
    OBVIOUS
  <2> HIDE DEF o
  <2>4. /\ \A i \in DOMAIN offsets : offsets[i].end < start
        /\ AllCovered(offsets, start - 1)
    BY <2>1 DEF IInv, CoveredSoFar
  <2>5. TypeOK'
    BY <2>1, <2>2, AppendFacts DEF IInv, TypeOK
  <2>6. LoopInv'
    BY <2>1 DEF LoopInv
  <2>7. NumberedInOrder'
    BY <2>1, <2>2, <2>3, <2>4, AppendInOrder DEF IInv, NumberedInOrder
  <2>8. CoveredSoFar'
    BY <2>1, <2>2, <2>3, <2>4, AppendCovers DEF CoveredSoFar
  <2>9. QED
    BY <2>5, <2>6, <2>7, <2>8 DEF IInv
<1>5. CASE UNCHANGED vars
  BY <1>5 DEF vars, IInv, TypeOK, LoopInv, NumberedInOrder, CoveredSoFar
<1>6. QED
  BY <1>1, <1>2, <1>3, <1>4, <1>5 DEF Next, Divided

\* The loop invariant holds throughout.
LEMMA IInvAlways == Spec => []IInv
  BY InitIInv, NextIInv, PTL DEF Spec

\* Type correctness, for every part size and archive size.
THEOREM TypeCorrect == Spec => []TypeOK
<1>1. IInv => TypeOK
  BY DEF IInv
<1>2. QED
  BY <1>1, IInvAlways, PTL

\* Parts are numbered in the order of their ranges, which do not overlap.
THEOREM PartsNumberedInOrder == Spec => []NumberedInOrder
<1>1. IInv => NumberedInOrder
  BY DEF IInv
<1>2. QED
  BY <1>1, IInvAlways, PTL

\* Every byte of every archive lies in exactly one part, for every part size:
\* at least one because the ranges leave no gap, at most one because they lie
\* behind one another.
THEOREM PartsPartitionTheArchive == Spec => []EveryByteOnce
<1>1. IInv => EveryByteOnce
  <2> SUFFICES ASSUME IInv, pc = "multipart", NEW b \in 0 .. total - 1
               PROVE  \E i \in DOMAIN offsets :
                         /\ Covers(offsets[i], b)
                         /\ \A j \in DOMAIN offsets : Covers(offsets[j], b) => j = i
    BY DEF EveryByteOnce
  <2>1. PICK i \in DOMAIN offsets : Covers(offsets[i], b)
    BY DEF IInv, CoveredSoFar, AllCovered
  <2>2. offsets \in Seq(Offset) /\ b \in Int
    BY DEF IInv, TypeOK
  <2>3. ASSUME NEW j \in DOMAIN offsets, Covers(offsets[j], b)
        PROVE  j = i
    <3>1. i \in Nat /\ j \in Nat /\ offsets[i] \in Offset /\ offsets[j] \in Offset
      BY <2>2
    <3>2. ~(i < j) /\ ~(j < i)
      BY <2>1, <2>2, <2>3, <3>1 DEF Covers, Offset, IInv, NumberedInOrder, InOrder
    <3>3. QED
      BY <3>1, <3>2
  <2>4. QED
    BY <2>1, <2>3
<1>2. QED
  BY <1>1, IInvAlways, PTL

-----------------------------------------------------------------------------
(* Limits of the bucket *)

\* Every part added inside the loop is full, and the last one ends the archive
\* where the count of parts says it should.
SizeInv ==
    /\ \A i \in DOMAIN offsets :
          \/ ChunkSize(offsets[i]) >= MinPartSize
          \/ pc = "multipart" /\ i = Len(offsets)
    /\ pc = "multipart" =>
          /\ Len(offsets) = part
          /\ total <= part * MinPartSize
          /\ part = 1 \/ (part - 1) * MinPartSize < total

\* Multiplication by a part size is monotone.
LEMMA PartSizesMonotone ==
    ASSUME NEW m \in Nat, NEW n \in Nat, NEW p \in Nat, m <= n
    PROVE  m * p <= n * p
  BY m <= n

LEMMA NextSizeInv == IInv /\ SizeInv /\ [Next]_vars => SizeInv'
<1> SUFFICES ASSUME IInv, SizeInv, [Next]_vars
             PROVE  SizeInv'
  OBVIOUS
<1> USE MinPartSizeAssumption, MaxTotalAssumption
<1>1. CASE SingleInstruction
  BY <1>1 DEF SingleInstruction, SizeInv
<1>2. CASE EnterLoop
  BY <1>2 DEF EnterLoop, SizeInv
<1>3. CASE AppendPart
  <2> DEFINE o == [part |-> part, start |-> start, end |-> end]
             n == Len(offsets)
  <2>1. /\ part \in Nat /\ start \in Nat /\ end \in Nat
        /\ end + 1 - start >= MinPartSize
        /\ pc = "loop" /\ pc' = "loop"
    BY <1>3 DEF AppendPart, MoreParts, IInv, TypeOK, LoopInv
  <2>2. o \in Offset /\ offsets \in Seq(Offset) /\ offsets' = Append(offsets, o)
    BY <2>1, <1>3 DEF Offset, IInv, TypeOK, AppendPart
  <2>3. ChunkSize(o) >= MinPartSize
    BY <2>1 DEF ChunkSize
  <2> HIDE DEF o
  <2>4. /\ DOMAIN offsets' = 1 .. n + 1 /\ DOMAIN offsets = 1 .. n /\ n \in Nat
        /\ \A i \in 1 .. n : offsets'[i] = offsets[i]
        /\ offsets'[n + 1] = o
    BY <2>2, AppendFacts
  <2>5. \A i \in 1 .. n : ChunkSize(offsets[i]) >= MinPartSize
    BY <2>1, <2>4 DEF SizeInv
  <2>6. \A i \in 1 .. n + 1 : ChunkSize(offsets'[i]) >= MinPartSize
    <3>1. \A i \in 1 .. n : ChunkSize(offsets'[i]) >= MinPartSize
      BY <2>4, <2>5 DEF ChunkSize
    <3>2. ChunkSize(offsets'[n + 1]) >= MinPartSize
      BY <2>3, <2>4 DEF ChunkSize
    <3>3. QED
      BY <3>1, <3>2, <2>4
  <2>7. QED
    BY <2>1, <2>4, <2>6 DEF SizeInv, ChunkSize
<1>4. CASE AppendLast
  <2> DEFINE o == [part |-> part, start |-> start, end |-> total - 1]
             n == Len(offsets)
  <2>1. /\ n \in Nat /\ part = n + 1 /\ part' = part /\ total' = total
        /\ part \in Nat /\ start \in Nat /\ start <= total /\ total \in Nat
        /\ pc = "loop" /\ pc' = "multipart"
    BY <1>4 DEF AppendLast, IInv, TypeOK, LoopInv
  <2>2. o \in Offset /\ offsets \in Seq(Offset) /\ offsets' = Append(offsets, o)
    BY <2>1, <1>4 DEF Offset, IInv, TypeOK, AppendLast
  <2> HIDE DEF o
  <2>3. /\ DOMAIN offsets' = 1 .. n + 1 /\ DOMAIN offsets = 1 .. n
        /\ Len(offsets') = n + 1
        /\ \A i \in 1 .. n : offsets'[i] = offsets[i]
    BY <2>2, AppendFacts
  <2>4. \A i \in 1 .. n : ChunkSize(offsets'[i]) >= MinPartSize
    BY <2>1, <2>3 DEF SizeInv, ChunkSize
  <2>5. total <= part * MinPartSize
    BY <1>4, <2>1 DEF AppendLast, MoreParts, IInv, TypeOK, LoopInv
  <2>6. part = 1 \/ (part - 1) * MinPartSize < total
    <3>1. part * MinPartSize - MinPartSize = (part - 1) * MinPartSize
      BY <2>1
    <3>2. part * MinPartSize \in Int /\ (part - 1) * MinPartSize \in Int
      BY <2>1
    <3>3. part = 1 \/ start = part * MinPartSize - MinPartSize + 1
      BY <2>1 DEF IInv, LoopInv
    <3>4. QED
      BY <2>1, <3>1, <3>2, <3>3
  <2>7. QED
    BY <2>1, <2>3, <2>4, <2>5, <2>6 DEF SizeInv
<1>5. CASE UNCHANGED vars
  BY <1>5 DEF vars, SizeInv
<1>6. QED
  BY <1>1, <1>2, <1>3, <1>4, <1>5 DEF Next, Divided

LEMMA SizeInvAlways == Spec => [](IInv /\ SizeInv)
<1>1. Init => SizeInv
  BY DEF Init, SizeInv
<1>2. QED
  BY <1>1, InitIInv, NextIInv, NextSizeInv, PTL DEF Spec

\* No part but the last is smaller than S3's minimum, for every part size.
THEOREM PartsAreFull == Spec => []NonLastPartsFull
<1>1. SizeInv => NonLastPartsFull
  BY DEF SizeInv, NonLastPartsFull
<1>2. QED
  BY <1>1, SizeInvAlways, PTL

\* The number of parts exceeds S3's limit for exactly the archives larger than
\* the limit times the part size, for every limit and part size.
THEOREM PartLimitIsArchiveLimit == Spec => []PartLimitExactly
<1>1. IInv /\ SizeInv => PartLimitExactly
  <2> SUFFICES ASSUME IInv, SizeInv, pc = "multipart"
               PROVE  part <= MaxParts <=> total <= MaxParts * MinPartSize
    BY DEF SizeInv, PartLimitExactly
  <2>1. /\ part \in Nat /\ total \in Nat /\ MaxParts \in Nat /\ MaxParts >= 1
        /\ MinPartSize \in Nat
        /\ part - 1 \in Nat
        /\ total <= part * MinPartSize
        /\ part = 1 \/ (part - 1) * MinPartSize < total
    BY MinPartSizeAssumption, MaxPartsAssumption, MaxTotalAssumption
    DEF IInv, TypeOK, SizeInv
  <2>2. /\ part * MinPartSize \in Nat /\ MaxParts * MinPartSize \in Nat
        /\ (part - 1) * MinPartSize \in Nat
    BY <2>1
  <2>3. CASE part <= MaxParts
    <3>1. part * MinPartSize <= MaxParts * MinPartSize
      BY <2>1, <2>3, PartSizesMonotone
    <3>2. QED
      BY <3>1, <2>1, <2>2, <2>3
  <2>4. CASE MaxParts <= part - 1
    <3>1. MaxParts * MinPartSize <= (part - 1) * MinPartSize
      BY <2>1, <2>4, PartSizesMonotone
    <3>2. QED
      BY <3>1, <2>1, <2>2, <2>4
  <2>5. QED
    BY <2>1, <2>3, <2>4
<1>2. QED
  BY <1>1, SizeInvAlways, PTL

-----------------------------------------------------------------------------
(* The empty tail *)

\* One byte more than whole parts leaves the rest of one byte.
LEMMA OneByteOver ==
    ASSUME NEW p \in Nat \ {0}, NEW q \in Nat
    PROVE  (q * p + 1) % p = 1 % p
  OBVIOUS

LEMMA NextOnlyTailEmpty == IInv /\ OnlyTailEmpty /\ [Next]_vars => OnlyTailEmpty'
<1> SUFFICES ASSUME IInv, OnlyTailEmpty, [Next]_vars
             PROVE  OnlyTailEmpty'
  OBVIOUS
<1> USE MinPartSizeAssumption, MaxTotalAssumption
<1>1. CASE SingleInstruction \/ EnterLoop
  BY <1>1 DEF SingleInstruction, EnterLoop, OnlyTailEmpty
<1>2. CASE AppendPart
  <2> DEFINE o == [part |-> part, start |-> start, end |-> end]
  <2>1. /\ part \in Nat /\ start \in Nat /\ end \in Nat /\ start <= end
        /\ pc = "loop" /\ pc' = "loop"
    BY <1>2 DEF AppendPart, MoreParts, IInv, TypeOK, LoopInv
  <2>2. o \in Offset /\ offsets \in Seq(Offset) /\ offsets' = Append(offsets, o)
    BY <2>1, <1>2 DEF Offset, IInv, TypeOK, AppendPart
  <2>3. ~(o.end < o.start)
    BY <2>1
  <2> HIDE DEF o
  <2>4. \A i \in DOMAIN offsets : ~(offsets[i].end < offsets[i].start)
    BY <2>1 DEF OnlyTailEmpty
  <2>5. \A i \in DOMAIN offsets' : ~(offsets'[i].end < offsets'[i].start)
    BY <2>2, <2>3, <2>4, AppendFacts
  <2>6. QED
    BY <2>5 DEF OnlyTailEmpty
<1>3. CASE AppendLast
  <2> DEFINE o == [part |-> part, start |-> start, end |-> total - 1]
             n == Len(offsets)
  <2>1. /\ n \in Nat /\ part \in Nat /\ part >= 1
        /\ start \in Nat /\ start <= total /\ total \in Nat
        /\ pc = "loop" /\ pc' = "multipart" /\ total' = total
        /\ MinPartSize <= total
        /\ start = IF part = 1 THEN 0 ELSE part * MinPartSize - MinPartSize + 1
    BY <1>3 DEF AppendLast, IInv, TypeOK, LoopInv
  <2>2. o \in Offset /\ offsets \in Seq(Offset) /\ offsets' = Append(offsets, o)
    BY <2>1, <1>3 DEF Offset, IInv, TypeOK, AppendLast
  <2>3. o.start = start /\ o.end = total - 1
    OBVIOUS
  <2> HIDE DEF o
  <2>4. /\ DOMAIN offsets' = 1 .. n + 1 /\ Len(offsets') = n + 1
        /\ DOMAIN offsets = 1 .. n
        /\ \A i \in 1 .. n : offsets'[i] = offsets[i]
        /\ offsets'[n + 1] = o
    BY <2>2, AppendFacts
  <2>5. \A i \in 1 .. n : ~(offsets'[i].end < offsets'[i].start)
    BY <2>1, <2>4 DEF OnlyTailEmpty
  <2>6. ASSUME total - 1 < start
        PROVE  start = total /\ total % MinPartSize = 1 % MinPartSize
    <3>1. start = total /\ part # 1
      BY <2>1, <2>6
    <3>2. total = (part - 1) * MinPartSize + 1 /\ part - 1 \in Nat
      <4>1. (part - 1) * MinPartSize = part * MinPartSize - MinPartSize
        BY <2>1
      <4>2. QED
        BY <2>1, <3>1, <4>1
    <3>3. QED
      BY <3>1, <3>2, OneByteOver
  <2>7. QED
    BY <2>1, <2>3, <2>4, <2>5, <2>6 DEF OnlyTailEmpty
<1>4. CASE UNCHANGED vars
  BY <1>4 DEF vars, OnlyTailEmpty
<1>5. QED
  BY <1>1, <1>2, <1>3, <1>4 DEF Next, Divided

\* For every part size, a range that can not be asked for is the last of its
\* archive, and the archive is one byte longer than a whole number of parts.
THEOREM EmptyTailOnly == Spec => []OnlyTailEmpty
<1>1. Init => OnlyTailEmpty
  BY DEF Init, OnlyTailEmpty
<1>2. QED
  BY <1>1, InitIInv, NextIInv, NextOnlyTailEmpty, PTL DEF Spec

=============================================================================
