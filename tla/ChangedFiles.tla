---------------------------- MODULE ChangedFiles ----------------------------
(***************************************************************************)
(* What a review makes of the files of a pull request: _prepare_changed_-  *)
(* files with parse_patch_hunks, and _build_semgrep_inline_review_comments.*)
(* The parser reads a patch line by line; the truth it is compared with is *)
(* the edit script the patch was made from: the lines of the old and the   *)
(* new file in order, each kept (context), deleted or added.               *)
(***************************************************************************)
EXTENDS Naturals, Sequences, FiniteSets

CONSTANTS Files,         \* number of files in the pull request
          MaxFiles,      \* REVIEW_MAX_FILES
          MaxLines,      \* bound on the length of an edit script
          MaxFindings,   \* bound on the findings Semgrep reports
          MaxInline,     \* REVIEW_MAX_INLINE_COMMENTS
          MaxRank        \* highest severity rank (4, "critical", in the code)

ASSUME ChangedFilesAssumption ==
  /\ Files \in Nat /\ MaxFiles \in Nat \ {0} /\ MaxLines \in Nat
  /\ MaxFindings \in Nat /\ MaxInline \in Nat /\ MaxRank \in Nat

File == 1..Files
LineType == {"context", "deletion", "addition"}
ParsedLine == [type : LineType, old : Nat, new : Nat]   \* 0 for None
SkipReason == {"deleted", "binary", "unsupported", "content_unavailable", "oversized", "max_files"}
Finding == [file : File, line : Nat, rank : 0..MaxRank]

VARIABLES
  phase,        \* "files", "parse", "findings" or "done"
  cursor,       \* files dealt with
  edit,         \* edit script of the file at hand
  shown,        \* the positions of edit its patch shows
  pos,          \* positions read
  hunkEnd,      \* last position of the hunk at hand
  oldLine, newLine, lines,   \* the parser's variables
  outcome,      \* file -> "changed", a skip reason, or "open"
  changedLines, \* file -> changed_new_lines
  added,        \* history: file -> the lines its patch adds, by the edit script
  split,        \* history: files whose patch has a line with a carriage return inside
  findings,     \* what Semgrep reports, in order
  inline        \* positions in findings of the inline comments, in order

parserVars == <<edit, shown, pos, hunkEnd, oldLine, newLine, lines>>
fileVars == <<cursor, outcome, changedLines, added, split>>
reviewVars == <<phase, parserVars, fileVars, findings, inline>>

ReviewTypeOK ==
  /\ phase \in {"files", "parse", "findings", "done"} /\ cursor \in 0..Files
  /\ edit \in Seq(LineType) /\ Len(edit) <= MaxLines
  /\ shown \subseteq DOMAIN edit /\ pos \in 0..Len(edit) /\ hunkEnd \in 0..Len(edit)
  /\ oldLine \in Nat /\ newLine \in Nat /\ lines \subseteq ParsedLine
  /\ outcome \in [File -> {"open", "changed"} \cup SkipReason]
  /\ changedLines \in [File -> SUBSET Nat] /\ added \in [File -> SUBSET Nat]
  /\ split \subseteq File
  /\ findings \in Seq(Finding) /\ inline \in Seq(Nat)

ReviewInit ==
  /\ phase = "files" /\ cursor = 0
  /\ edit = << >> /\ shown = {} /\ pos = 0 /\ hunkEnd = 0
  /\ oldLine = 0 /\ newLine = 0 /\ lines = {}
  /\ outcome = [f \in File |-> "open"]
  /\ changedLines = [f \in File |-> {}] /\ added = [f \in File |-> {}]
  /\ split = {} /\ findings = << >> /\ inline = << >>
-----------------------------------------------------------------------------
(* The lines of the old and the new file before position p of a script.    *)
OldBefore(p) == Cardinality({i \in 1..(p - 1) : edit[i] # "addition"})
NewBefore(p) == Cardinality({i \in 1..(p - 1) : edit[i] # "deletion"})
TrueLine(p) ==
  [type |-> edit[p],
   old |-> IF edit[p] = "addition" THEN 0 ELSE OldBefore(p) + 1,
   new |-> IF edit[p] = "deletion" THEN 0 ELSE NewBefore(p) + 1]

(* How git numbers a hunk of positions p to e: by its first line, or by    *)
(* the line before when the hunk has none of that file.                    *)
HasOld(p, e) == \E i \in p..e : edit[i] # "addition"
HasNew(p, e) == \E i \in p..e : edit[i] # "deletion"
HeaderOld(p, e) == IF HasOld(p, e) THEN OldBefore(p) + 1 ELSE OldBefore(p)
HeaderNew(p, e) == IF HasNew(p, e) THEN NewBefore(p) + 1 ELSE NewBefore(p)

(* The next file of github_files[:max_files].  Its patch shows every       *)
(* changed line and some of the others, or is missing altogether, as it is *)
(* for a large diff.                                                       *)
OpenFile(e, s) ==
  /\ phase = "files" /\ cursor < Files /\ cursor < MaxFiles
  /\ s = {} \/ \A i \in DOMAIN e : e[i] # "context" => i \in s
  /\ phase' = "parse"
  /\ edit' = e /\ shown' = s
  /\ pos' = 0 /\ hunkEnd' = 0 /\ oldLine' = 0 /\ newLine' = 0 /\ lines' = {}
  /\ UNCHANGED <<fileVars, findings, inline>>

(* The next hunk has the positions p to e: the line "@@ -a,b +c,d @@".     *)
ReadHeader(p, e) ==
  /\ phase = "parse" /\ pos = hunkEnd
  /\ p > pos /\ p <= e /\ p..e \subseteq shown /\ \A i \in shown : i > pos => i >= p
  /\ pos' = p - 1 /\ hunkEnd' = e
  /\ oldLine' = HeaderOld(p, e) /\ newLine' = HeaderNew(p, e)
  /\ UNCHANGED <<phase, edit, shown, lines, fileVars, findings, inline>>

(* Mutant of CountedNew: a deletion moves the new file's number on. *)
CountedNewAlways(line, type) == line + 1
CountedNew(line, type) == IF type = "deletion" THEN line ELSE line + 1
CountedOld(line, type) == IF type = "addition" THEN line ELSE line + 1
Numbered(type, o, n) ==
  [type |-> type, old |-> IF type = "addition" THEN 0 ELSE o,
                  new |-> IF type = "deletion" THEN 0 ELSE n]

(* A line that begins with " ", "-" or "+" ("\ No newline at end of file"  *)
(* changes nothing).                                                       *)
ReadLine ==
  LET type == edit[pos + 1] IN
  /\ phase = "parse" /\ pos < hunkEnd
  /\ pos' = pos + 1
  /\ lines' = lines \cup {Numbered(type, oldLine, newLine)}
  /\ oldLine' = CountedOld(oldLine, type) /\ newLine' = CountedNew(newLine, type)
  /\ UNCHANGED <<phase, edit, shown, hunkEnd, fileVars, findings, inline>>

(* The parser replaces every carriage return by a line feed: what follows  *)
(* one inside a line is read as a line of its own, whose type is that of   *)
(* its first character.  Bound: in one line of a file.                     *)
ReadSplitLine(rest) ==
  LET type == edit[pos + 1]
      o == CountedOld(oldLine, type)
      n == CountedNew(newLine, type)
  IN /\ phase = "parse" /\ pos < hunkEnd /\ cursor + 1 \notin split
     /\ pos' = pos + 1 /\ split' = split \cup {cursor + 1}
     /\ lines' = lines \cup {Numbered(type, oldLine, newLine), Numbered(rest, o, n)}
     /\ oldLine' = CountedOld(o, rest) /\ newLine' = CountedNew(n, rest)
     /\ UNCHANGED <<phase, edit, shown, hunkEnd, cursor, outcome, changedLines, added, findings, inline>>

ChangedNewLines == {l.new : l \in {m \in lines : m.type = "addition"}}
AddedLines == {NewBefore(i) + 1 : i \in {j \in shown : edit[j] = "addition"}}

(* The end of the patch: the file is kept, or skipped by the first check   *)
(* that applies to it.                                                     *)
CloseFile(o) ==
  /\ phase = "parse" /\ \A i \in shown : i <= pos
  /\ o \in {"changed"} \cup (SkipReason \ {"max_files"})
  /\ phase' = "files" /\ cursor' = cursor + 1
  /\ outcome' = [outcome EXCEPT ![cursor + 1] = o]
  /\ changedLines' = [changedLines EXCEPT ![cursor + 1] = IF o = "changed" THEN ChangedNewLines ELSE {}]
  /\ added' = [added EXCEPT ![cursor + 1] = IF o = "changed" THEN AddedLines ELSE {}]
  /\ edit' = << >> /\ shown' = {}
  /\ pos' = 0 /\ hunkEnd' = 0 /\ oldLine' = 0 /\ newLine' = 0 /\ lines' = {}
  /\ UNCHANGED <<split, findings, inline>>

(* Mutant of Rest: the file after the cap is left out. *)
RestAfterOne == (MaxFiles + 2)..Files
Rest == (MaxFiles + 1)..Files
CapFiles ==   \* github_files[max_files:]
  /\ phase = "files" /\ cursor \in {Files, MaxFiles}
  /\ outcome' = [f \in File |-> IF f \in Rest THEN "max_files" ELSE outcome[f]]
  /\ cursor' = Files /\ phase' = "findings"
  /\ UNCHANGED <<parserVars, changedLines, added, split, findings, inline>>
-----------------------------------------------------------------------------
(* A finding without a line, or not on an added line, has no candidate.    *)
Eligible(x) == x.line > 0 /\ x.line \in changedLines[x.file]

(* Mutant of Before: ascending rank. *)
BeforeAscending(x, y, i, j) ==
  \/ x.rank < y.rank
  \/ x.rank = y.rank /\ x.file < y.file
  \/ x.rank = y.rank /\ x.file = y.file /\ x.line < y.line
  \/ x.rank = y.rank /\ x.file = y.file /\ x.line = y.line /\ i < j
(* candidates.sort, which is stable: by rank, path and line.               *)
Before(x, y, i, j) ==
  \/ x.rank > y.rank
  \/ x.rank = y.rank /\ x.file < y.file
  \/ x.rank = y.rank /\ x.file = y.file /\ x.line < y.line
  \/ x.rank = y.rank /\ x.file = y.file /\ x.line = y.line /\ i < j

(* Semgrep reports fs, and the first MaxInline candidates are selected.    *)
Candidates(fs) == {i \in DOMAIN fs : Eligible(fs[i])}
Place(fs, i) == Cardinality({j \in Candidates(fs) : j = i \/ Before(fs[j], fs[i], j, i)})
SelectInline(fs) ==
  /\ phase = "findings" /\ phase' = "done"
  /\ \A i \in DOMAIN fs : outcome[fs[i].file] = "changed"
  /\ findings' = fs
  /\ LET n == Cardinality(Candidates(fs)) IN
     inline' = [k \in 1..(IF n < MaxInline THEN n ELSE MaxInline) |->
                  CHOOSE i \in Candidates(fs) : Place(fs, i) = k]
  /\ UNCHANGED <<parserVars, fileVars>>

SeqUpTo(S, n) == UNION {[1..k -> S] : k \in 0..n}
ReviewNext ==
  \/ \E e \in SeqUpTo(LineType, MaxLines) : \E s \in SUBSET DOMAIN e : OpenFile(e, s)
  \/ \E p \in 1..MaxLines : \E e \in p..MaxLines : ReadHeader(p, e)
  \/ ReadLine
  \/ \E rest \in LineType : ReadSplitLine(rest)
  \/ \E o \in {"changed"} \cup SkipReason : CloseFile(o)
  \/ CapFiles
  \/ \E fs \in SeqUpTo([file : File, line : 0..MaxLines, rank : 0..MaxRank], MaxFindings) : SelectInline(fs)
-----------------------------------------------------------------------------
(* Every line the parser has read has the numbers it has in the old and in *)
(* the new file, whatever the hunks: an inline comment put on a wrong line *)
(* is refused by GitHub or misplaced.  changed_new_lines are the lines the *)
(* patch adds (pipeline.py:1106, 1288).  A patch with a carriage return    *)
(* inside a line is excepted: the parser makes two lines of it.            *)
LinesAreNumberedRight ==
  /\ phase = "parse" /\ cursor + 1 \notin split =>
       lines = {TrueLine(i) : i \in {j \in shown : j <= pos}}
  /\ \A f \in File \ split : changedLines[f] = added[f]

(* Each file is either reviewed or skipped with a reason, and no more than *)
(* MaxFiles are reviewed (pipeline.py:1105, 1156).                         *)
EveryFileIsAccountedFor ==
  phase \in {"findings", "done"} =>
    /\ \A f \in File : outcome[f] # "open"
    /\ Cardinality({f \in File : outcome[f] = "changed"}) <= MaxFiles

(* The inline comments are on added lines of reviewed files, worst first,  *)
(* as many as the cap allows, and no finding on an added line that was     *)
(* left out is worse than one that was not (pipeline.py:1999).             *)
InlineCommentsAreTheWorst ==
  phase = "done" /\ split = {} =>
    LET onAdded == {i \in DOMAIN findings : findings[i].line \in added[findings[i].file]}
        kept == {inline[k] : k \in DOMAIN inline}
    IN /\ kept \subseteq onAdded /\ Cardinality(kept) = Len(inline)
       /\ Len(inline) <= MaxInline
       /\ kept = onAdded \/ Len(inline) = MaxInline
       /\ \A i \in kept, j \in onAdded \ kept : findings[i].rank >= findings[j].rank
       /\ \A k, l \in DOMAIN inline : k < l => findings[inline[k]].rank >= findings[inline[l]].rank
=============================================================================
