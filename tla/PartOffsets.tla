---------------------------- MODULE PartOffsets ----------------------------
(***************************************************************************)
(* The presigner's division of an archive into parts                       *)
(* (internal/server/presigner.go).  An archive smaller than MinPartSize is *)
(* moved with one instruction that carries no offset; any other archive is *)
(* cut into inclusive byte ranges by the loop of calculateOffsets.  The    *)
(* client uploads each range on its own, and a restore recomputes the      *)
(* ranges from the stored object's length and fetches each one on its own. *)
(*                                                                         *)
(* The loop is a state machine: one step per iteration.                    *)
(***************************************************************************)
EXTENDS Integers, Sequences

CONSTANTS
    MinPartSize,  \* bytes in a part (10 MiB in the code)
    MaxParts,     \* parts S3 accepts in one upload (10,000)
    MaxTotal      \* bound: the largest archive considered

ASSUME MinPartSizeAssumption == MinPartSize \in Nat \ {0}
ASSUME MaxPartsAssumption == MaxParts \in Nat \ {0}
ASSUME MaxTotalAssumption == MaxTotal \in Nat

VARIABLES
    total,    \* totalSize
    part,     \* i, the number of the next part
    start,    \* first byte of the next part
    end,      \* last byte of the next part, if the file goes on past it
    offsets,  \* the ranges produced so far
    pc        \* "begin", "loop", or how the division ended

vars == <<total, part, start, end, offsets, pc>>

Offset == [part : Nat, start : Nat, end : Int]

\* The length of the chunk that an inclusive range stands for.
ChunkSize(o) == o.end - o.start + 1

-----------------------------------------------------------------------------

\* Numbered from 0, as a slice is.
Init_ZeroBased ==
    /\ total \in 0 .. MaxTotal
    /\ part = 0
    /\ start = 0
    /\ end = MinPartSize
    /\ offsets = <<>>
    /\ pc = "begin"

Init ==
    /\ total \in 0 .. MaxTotal
    /\ part = 1
    /\ start = 0
    /\ end = MinPartSize
    /\ offsets = <<>>
    /\ pc = "begin"

\* A small archive is one PUT or GET of the whole object.
SingleInstruction ==
    /\ pc = "begin"
    /\ total < MinPartSize
    /\ pc' = "single"
    /\ UNCHANGED <<total, part, start, end, offsets>>

EnterLoop ==
    /\ pc = "begin"
    /\ total >= MinPartSize
    /\ pc' = "loop"
    /\ UNCHANGED <<total, part, start, end, offsets>>

\* An inclusive end used as if it were exclusive.
NextStart_Overlap == end
\* One byte too many skipped.
NextStart_Gap == end + 2
\* start = end + 1
NextStart == end + 1

\* The two ways to be off by one in the loop's condition.
MoreParts_OneFewer == end + 1 < total
MoreParts_OneMore == end <= total
\* for end < totalSize
MoreParts == end < total

AppendPart ==
    /\ pc = "loop"
    /\ MoreParts
    /\ offsets' = Append(offsets, [part |-> part, start |-> start, end |-> end])
    /\ start' = NextStart
    /\ end' = end + MinPartSize
    /\ part' = part + 1
    /\ UNCHANGED <<total, pc>>

\* The last part takes what is left, up to the last byte of the file.
AppendLast ==
    /\ pc = "loop"
    /\ ~MoreParts
    /\ end' = total - 1
    /\ offsets' = Append(offsets, [part |-> part, start |-> start, end |-> total - 1])
    /\ pc' = "multipart"
    /\ UNCHANGED <<total, part, start>>

Divided ==
    /\ pc \in {"single", "multipart"}
    /\ UNCHANGED vars

Next == SingleInstruction \/ EnterLoop \/ AppendPart \/ AppendLast \/ Divided

Spec == Init /\ [][Next]_vars

-----------------------------------------------------------------------------
(* Properties *)

\* The loop's variables have their types; the next part starts inside the file or
\* right after its last byte.
TypeOK ==
    /\ total \in 0 .. MaxTotal
    /\ part \in Nat \ {0}
    /\ start \in 0 .. total
    /\ end \in Int
    /\ offsets \in Seq(Offset)
    /\ pc \in {"begin", "loop", "single", "multipart"}

Covers(o, b) == o.start <= b /\ b <= o.end

\* Whatever the size of the archive, each of its bytes lies in exactly one of
\* the ranges calculateOffsets returns, so the parts put back together in the
\* order of their numbers are the archive.
EveryByteOnce ==
    pc = "multipart" =>
        \A b \in 0 .. total - 1 :
            \E i \in DOMAIN offsets :
                /\ Covers(offsets[i], b)
                /\ \A j \in DOMAIN offsets : Covers(offsets[j], b) => j = i

InOrder(s) ==
    \A i \in DOMAIN s :
        /\ s[i].part = i
        /\ \A j \in DOMAIN s : i < j => s[i].end < s[j].start

\* The parts are numbered 1, 2, ... in the order of their ranges: S3 and
\* combineParts both concatenate parts in the order of their numbers.
NumberedInOrder == InOrder(offsets)

\* S3 refuses to complete an upload in which a part other than the last is
\* smaller than its minimum; none of calculateOffsets' parts is.
NonLastPartsFull ==
    \A i \in DOMAIN offsets :
        \/ ChunkSize(offsets[i]) >= MinPartSize
        \/ pc = "multipart" /\ i = Len(offsets)

\* The division stays within S3's limit on the parts of an upload for exactly
\* the archives of at most MaxParts * MinPartSize bytes, although no code
\* enforces the limit that the comments mention.
PartLimitExactly ==
    pc = "multipart" =>
        (Len(offsets) <= MaxParts <=> total <= MaxParts * MinPartSize)

\* What the comment on calculateOffsets says: "each offset represents a part of
\* the total size that can be downloaded or uploaded separately".  A range whose
\* end lies before its start can not be asked for.
EveryPartDownloadable ==
    \A i \in DOMAIN offsets : offsets[i].start <= offsets[i].end

\* The code does produce such a range, but only one, the last, and only when
\* the archive is one byte longer than a whole number of parts.
OnlyTailEmpty ==
    \A i \in DOMAIN offsets :
        offsets[i].end < offsets[i].start =>
            /\ pc = "multipart" /\ i = Len(offsets)
            /\ total % MinPartSize = 1 % MinPartSize
            /\ offsets[i].start = total

=============================================================================
