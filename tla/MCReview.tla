------------------------------ MODULE MCReview ------------------------------
EXTENDS Review, TLC

CONSTANTS hA, hB, f, g

TwoHeads == {hA, hB}
TwoFiles == {f, g}

EditOf(file, hunks) == [file |-> file, hunks |-> hunks]
HunkAt(at, lines) == [at |-> at, lines |-> lines]
Plain(kind) == [kind |-> kind, names |-> NoFile]

\* hA adds line 2 after a line it removes, hB adds line 3.
EditTable ==
    hA :> <<EditOf(f, <<HunkAt(1, <<Plain("context"), Plain("removed"), Plain("added")>>)>>)>> @@
    hB :> <<EditOf(f, <<HunkAt(3, <<Plain("added")>>)>>)>>

\* What the reader of diffs finds, in these diffs and for all edits of a hunk of up to four
\* lines, of two hunks of up to two, and of two files with a hunk of up to two each. Added
\* lines may look like the header of this file, of another, or of none.
SmallEdits ==
    {<<EditOf(f, <<HunkAt(1, lines)>>)>> : lines \in BoundedSeq(Lines, 4)} \union
    {<<EditOf(f, <<HunkAt(1, l1), HunkAt(4, l2)>>)>> :
        l1 \in BoundedSeq(Lines, 2), l2 \in BoundedSeq(Lines, 2)} \union
    {<<EditOf(f, <<HunkAt(1, l1)>>), EditOf(g, <<HunkAt(2, l2)>>)>> :
        l1 \in BoundedSeq(Lines, 2), l2 \in BoundedSeq(Lines, 2)}

ASSUME EvidenceAssumption ==
    \A edits \in SmallEdits \union {EditTable[h] : h \in TwoHeads} : EvidenceIsSound(edits)

\* The reader is misled indeed: of an added line that looks like the header of g and a hunk
\* after it, it finds a line of g that is not changed.
ASSUME MisledAssumption ==
    LET edits == <<EditOf(f, <<HunkAt(1, <<[kind |-> "lookalike", names |-> g]>>),
                               HunkAt(4, <<Plain("added")>>)>>)>>
    IN  LinesOf(EvidenceOf(Diff(edits))) = {[file |-> g, line |-> 4]}

\* A finding in the diff of hA, one in the diff of hB, and an answer refused.
FindingAt(line) == [file |-> f, first |-> line, last |-> line]

SomeAnswers == {[faults |-> {}, findings |-> {FindingAt(2)}],
                [faults |-> {}, findings |-> {FindingAt(3)}],
                [faults |-> {"secret", "invalid"}, findings |-> {FindingAt(2)}]}

BothTransports == {"queue", "http"}
=============================================================================
