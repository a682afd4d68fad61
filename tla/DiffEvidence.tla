---------------------------- MODULE DiffEvidence ----------------------------
(***************************************************************************)
(* What the Worker takes out of a pull request's diff, to compare findings *)
(* with: parseUnifiedDiffEvidence reads the diff line by line and collects *)
(* the ranges of lines that each file adds.                                *)
(*                                                                         *)
(* A diff is written from an edit, file by file and hunk by hunk, and read *)
(* back without knowing the edit. Only the first characters of a line say  *)
(* what it is, and so an added line whose text begins with "++ " looks     *)
(* like the header of a file: of the file it names in b/, or of none.      *)
(***************************************************************************)
EXTENDS Naturals, FiniteSets, SequencesExt

CONSTANTS Files, NoFile

ASSUME NoFileAssumption == NoFile \notin Files

\* A hunk begins at a line of the new file; "note" is what diff says of a missing
\* newline at the end of the file. A lookalike is an added line too; what follows its
\* "++ " names a file or, as far as the reader can tell, none.
PlainLines == [kind : {"added", "removed", "context", "note"}, names : {NoFile}]
Lookalikes == [kind : {"lookalike"}, names : Files \union {NoFile}]
Lines == PlainLines \union Lookalikes
Hunk == [at : Nat, lines : Seq(Lines)]
FileEdit == [file : Files, hunks : Seq(Hunk)]

\* The lines of the new file that an edit adds, lookalikes included.
Adds(line) == line.kind \in {"added", "lookalike"}

InNewFile(hunk, i) == Adds(hunk.lines[i]) \/ hunk.lines[i].kind = "context"

NewLine(hunk, i) == hunk.at + Cardinality({k \in 1..(i - 1) : InNewFile(hunk, k)})

ChangedBy(edits) ==
    UNION {UNION {{[file |-> edits[e].file, line |-> NewLine(edits[e].hunks[h], i)] :
                      i \in {k \in DOMAIN edits[e].hunks[h].lines : Adds(edits[e].hunks[h].lines[k])}} :
                     h \in DOMAIN edits[e].hunks} :
             e \in DOMAIN edits}

\* The diff of an edit.
DiffLine(kind, file, at) == [kind |-> kind, file |-> file, at |-> at]

Body(hunk) ==
    <<DiffLine("hunk", NoFile, hunk.at)>> \o
    [i \in DOMAIN hunk.lines |->
       LET line == hunk.lines[i]
       IN  DiffLine(IF line \in Lookalikes THEN "file" ELSE line.kind, line.names, 0)]

FileDiff(edit) ==
    <<DiffLine("diff", NoFile, 0), DiffLine("file", edit.file, 0)>>
        \o FlattenSeq([h \in DOMAIN edit.hunks |-> Body(edit.hunks[h])])

Diff(edits) == FlattenSeq([e \in DOMAIN edits |-> FileDiff(edits[e])])

-----------------------------------------------------------------------------
\* The reader: its file, the number of the next line of the new file (0 while it
\* is in no hunk), and the run of added lines it is in.
Unread == [file |-> NoFile, line |-> 0, first |-> 0, last |-> 0, ranges |-> {}]

Flush(s) ==
    LET run == [file |-> s.file, first |-> s.first, last |-> s.last] IN
    [s EXCEPT !.ranges = IF s.file # NoFile /\ s.first # 0 THEN @ \union {run} ELSE @,
              !.first = 0, !.last = 0]

Add(s) == [s EXCEPT !.first = IF @ = 0 THEN s.line ELSE @, !.last = s.line, !.line = @ + 1]

InHunk(s) == s.file # NoFile /\ s.line # 0

\* One line. Whatever looks like the header of a file ends the hunk, and what the hunks
\* after it add counts for the file that it names. A hunk that adds nothing may begin at
\* line 0, which is in no hunk.
Read(s, l) ==
    CASE l.kind \in {"diff", "file"} -> [Flush(s) EXCEPT !.file = l.file, !.line = 0]
      [] l.kind = "hunk" /\ s.file # NoFile -> [Flush(s) EXCEPT !.line = l.at]
      [] l.kind = "added" /\ InHunk(s) -> Add(s)
      [] l.kind = "removed" /\ InHunk(s) -> Flush(s)
      [] l.kind = "context" /\ InHunk(s) -> [Flush(s) EXCEPT !.line = @ + 1]
      [] OTHER -> s

EvidenceOf(diff) == Flush(FoldLeft(Read, Unread, diff)).ranges

\* A finding is in the evidence if one range holds it from its first line to its last.
Located(finding, evidence) ==
    \E range \in evidence : /\ range.file = finding.file
                            /\ range.first <= finding.first
                            /\ range.last >= finding.last

-----------------------------------------------------------------------------
\* What is found is ranges of lines, of which the numbers are those of added lines. Unless
\* an added line looks like the header of another file, they are added lines of the file
\* they are found for; and all of them, if no added line looks like a header at all.
Ranges == [file : Files, first : Nat, last : Nat]

LinesOf(evidence) ==
    UNION {{[file |-> range.file, line |-> n] : n \in range.first..range.last} : range \in evidence}

Numbers(lines) == {x.line : x \in lines}

LookalikesOf(edit) == UNION {ToSet(edit.hunks[h].lines) : h \in DOMAIN edit.hunks} \intersect Lookalikes

NamesNoFile(edits) == \A e \in DOMAIN edits : LookalikesOf(edits[e]) = {}

NamesNoOtherFile(edits) ==
    \A e \in DOMAIN edits : \A line \in LookalikesOf(edits[e]) : line.names \in {NoFile, edits[e].file}

EvidenceIsSound(edits) ==
    LET evidence == EvidenceOf(Diff(edits))
        found == LinesOf(evidence)
    IN  /\ evidence \subseteq Ranges
        /\ Numbers(found) \subseteq Numbers(ChangedBy(edits))
        /\ NamesNoOtherFile(edits) => found \subseteq ChangedBy(edits)
        /\ NamesNoFile(edits) => found = ChangedBy(edits)
=============================================================================
