------------------------ MODULE WorkerAnalysis_proofs ------------------------
(***************************************************************************)
(* Theorems about WorkerAnalysis: the parser of patches numbers every line *)
(* as the edit script does, for scripts of any length cut into any hunks;  *)
(* every file of a pull request is reviewed or skipped; the inline         *)
(* comments are the worst findings on added lines; and the plan of a       *)
(* codebase scan keeps its budgets.                                        *)
(***************************************************************************)
EXTENDS WorkerAnalysis, FiniteSetTheorems, TLAPS

(* The part of the types the proofs below need.                            *)
ParserType ==
  /\ phase \in {"files", "parse", "findings", "done"} /\ cursor \in 0..Files
  /\ edit \in Seq(LineType)
  /\ shown \subseteq DOMAIN edit /\ pos \in 0..Len(edit) /\ hunkEnd \in 0..Len(edit)
  /\ oldLine \in Nat /\ newLine \in Nat
  /\ split \subseteq File
  /\ DOMAIN changedLines = File /\ DOMAIN added = File

(* Within a hunk the parser's variables are the numbers of the next line   *)
(* of each file, if the rest of the hunk has one.                          *)
InStep ==
  /\ phase = "parse" => cursor < Files
  /\ pos <= hunkEnd /\ (pos + 1)..hunkEnd \subseteq shown
  /\ phase = "parse" /\ cursor + 1 \notin split =>
       /\ HasOld(pos + 1, hunkEnd) => oldLine = OldBefore(pos + 1) + 1
       /\ HasNew(pos + 1, hunkEnd) => newLine = NewBefore(pos + 1) + 1

ParserInv == ParserType /\ InStep /\ LinesAreNumberedRight
-----------------------------------------------------------------------------
LEMMA BeforeIsNat ==
  ASSUME NEW p \in Nat
  PROVE  OldBefore(p) \in Nat /\ NewBefore(p) \in Nat
<1> DEFINE O == {i \in 1..(p - 1) : edit[i] # "addition"}
           N == {i \in 1..(p - 1) : edit[i] # "deletion"}
<1>1. IsFiniteSet(1..(p - 1))
  BY FS_Interval
<1>2. O \in SUBSET (1..(p - 1)) /\ N \in SUBSET (1..(p - 1))
  OBVIOUS
<1>3. IsFiniteSet(O) /\ IsFiniteSet(N)
  BY <1>1, <1>2, FS_Subset
<1> QED
  BY <1>3, FS_CardinalityType DEF OldBefore, NewBefore

(* What a line of the script adds to the lines before it.                  *)
LEMMA NextLine ==
  ASSUME NEW p \in Nat \ {0}
  PROVE  /\ OldBefore(p + 1) = CountedOld(OldBefore(p), edit[p])
         /\ NewBefore(p + 1) = CountedNew(NewBefore(p), edit[p])
<1> DEFINE O(k) == {i \in 1..(k - 1) : edit[i] # "addition"}
           N(k) == {i \in 1..(k - 1) : edit[i] # "deletion"}
<1>1. IsFiniteSet(1..(p - 1))
  BY FS_Interval
<1>2. O(p) \in SUBSET (1..(p - 1)) /\ N(p) \in SUBSET (1..(p - 1))
  OBVIOUS
<1>3. IsFiniteSet(O(p)) /\ IsFiniteSet(N(p)) /\ p \notin O(p) /\ p \notin N(p)
  BY <1>1, <1>2, FS_Subset
<1>4. Cardinality(O(p + 1)) = CountedOld(Cardinality(O(p)), edit[p])
  <2>1. CASE edit[p] = "addition"
    <3>1. O(p + 1) = O(p)
      BY <2>1
    <3> QED BY <3>1, <2>1 DEF CountedOld
  <2>2. CASE edit[p] # "addition"
    <3>1. O(p + 1) = O(p) \cup {p}
      BY <2>2
    <3> QED BY <3>1, <2>2, <1>3, FS_AddElement DEF CountedOld
  <2> QED BY <2>1, <2>2
<1>5. Cardinality(N(p + 1)) = CountedNew(Cardinality(N(p)), edit[p])
  <2>1. CASE edit[p] = "deletion"
    <3>1. N(p + 1) = N(p)
      BY <2>1
    <3> QED BY <3>1, <2>1 DEF CountedNew
  <2>2. CASE edit[p] # "deletion"
    <3>1. N(p + 1) = N(p) \cup {p}
      BY <2>2
    <3> QED BY <3>1, <2>2, <1>3, FS_AddElement DEF CountedNew
  <2> QED BY <2>1, <2>2
<1> QED
  BY <1>4, <1>5 DEF OldBefore, NewBefore

(* The numbers before a position depend on the edit script alone.          *)
LEMMA SameScript ==
  ASSUME edit' = edit, NEW p
  PROVE  /\ OldBefore(p)' = OldBefore(p) /\ NewBefore(p)' = NewBefore(p)
         /\ TrueLine(p)' = TrueLine(p)
BY DEF OldBefore, NewBefore, TrueLine

(* The next line read gets the numbers the script gives it.                *)
LEMMA ReadsTrueLine ==
  ASSUME ParserInv, phase = "parse", pos < hunkEnd, cursor + 1 \notin split
  PROVE  /\ pos + 1 \in shown /\ edit[pos + 1] \in LineType
         /\ Numbered(edit[pos + 1], oldLine, newLine) = TrueLine(pos + 1)
<1>1. pos + 1 \in (pos + 1)..hunkEnd
  BY DEF ParserInv, ParserType
<1>2. pos + 1 \in shown /\ edit[pos + 1] \in LineType
  BY <1>1 DEF ParserInv, InStep, ParserType
<1>3. edit[pos + 1] # "addition" => oldLine = OldBefore(pos + 1) + 1
  BY <1>1 DEF ParserInv, InStep, HasOld
<1>4. edit[pos + 1] # "deletion" => newLine = NewBefore(pos + 1) + 1
  BY <1>1 DEF ParserInv, InStep, HasNew
<1> QED
  BY <1>2, <1>3, <1>4 DEF Numbered, TrueLine

(* Reading a line keeps the numbering.                                     *)
LEMMA ReadLineKeeps ==
  ASSUME ParserInv, ReadLine
  PROVE  ParserInv'
<1> USE DEF ReadLine, fileVars
<1>1. edit' = edit /\ shown' = shown /\ hunkEnd' = hunkEnd /\ pos' = pos + 1
  OBVIOUS
<1>2. ParserType'
  <2>1. pos + 1 \in (pos + 1)..hunkEnd
    BY DEF ParserInv, ParserType
  <2>2. oldLine' \in Nat /\ newLine' \in Nat /\ pos' \in 0..Len(edit)
    BY <2>1 DEF ParserInv, ParserType, CountedOld, CountedNew
  <2> QED
    BY <2>2 DEF ParserInv, ParserType
<1>3. CASE cursor + 1 \in split
  BY <1>2, <1>3, <1>1 DEF ParserInv, ParserType, InStep, LinesAreNumberedRight
<1>4. CASE cursor + 1 \notin split
  <2>1. /\ pos + 1 \in shown /\ edit[pos + 1] \in LineType
        /\ Numbered(edit[pos + 1], oldLine, newLine) = TrueLine(pos + 1)
    BY <1>4, ReadsTrueLine
  <2>2. PICK k \in Nat \ {0} : k = pos + 1
    BY DEF ParserInv, ParserType
  <2>3. HasOld(k + 1, hunkEnd) => oldLine' = OldBefore(k + 1) + 1
    <3>1. HasOld(k + 1, hunkEnd) => HasOld(k, hunkEnd)
      BY <2>2 DEF HasOld, ParserInv, ParserType
    <3>2. OldBefore(k + 1) = CountedOld(OldBefore(k), edit[k])
      BY NextLine
    <3>3. OldBefore(k) \in Nat
      BY BeforeIsNat
    <3> QED
      BY <2>2, <3>1, <3>2, <3>3, <1>4 DEF ParserInv, InStep, CountedOld
  <2>4. HasNew(k + 1, hunkEnd) => newLine' = NewBefore(k + 1) + 1
    <3>1. HasNew(k + 1, hunkEnd) => HasNew(k, hunkEnd)
      BY <2>2 DEF HasNew, ParserInv, ParserType
    <3>2. NewBefore(k + 1) = CountedNew(NewBefore(k), edit[k])
      BY NextLine
    <3>3. NewBefore(k) \in Nat
      BY BeforeIsNat
    <3> QED
      BY <2>2, <3>1, <3>2, <3>3, <1>4 DEF ParserInv, InStep, CountedNew
  <2>5. InStep'
    <3>1. pos' <= hunkEnd' /\ (pos' + 1)..hunkEnd' \subseteq shown'
      BY <1>1 DEF ParserInv, InStep, ParserType
    <3>2. (phase' = "parse" => cursor' < Files) /\ pos' + 1 = k + 1
      BY <1>1, <2>2 DEF ParserInv, InStep
    <3>3. /\ OldBefore(k + 1)' = OldBefore(k + 1) /\ NewBefore(k + 1)' = NewBefore(k + 1)
      BY <1>1, SameScript
    <3>4. /\ HasOld(k + 1, hunkEnd)' = HasOld(k + 1, hunkEnd)
          /\ HasNew(k + 1, hunkEnd)' = HasNew(k + 1, hunkEnd)
      BY <1>1 DEF HasOld, HasNew
    <3> QED
      BY <3>1, <3>2, <3>3, <3>4, <2>3, <2>4 DEF InStep
  <2>6. lines' = {TrueLine(i) : i \in {j \in shown : j <= pos'}}
    <3>1. {j \in shown : j <= pos + 1} = {j \in shown : j <= pos} \cup {pos + 1}
      BY <2>1 DEF ParserInv, ParserType
    <3>2. lines = {TrueLine(i) : i \in {j \in shown : j <= pos}}
      BY <1>4 DEF ParserInv, LinesAreNumberedRight
    <3> QED
      BY <3>1, <3>2, <2>1, <1>1
  <2>7. \A i : TrueLine(i)' = TrueLine(i)
    BY <1>1, SameScript
  <2>8. LinesAreNumberedRight'
    BY <2>6, <2>7, <1>1 DEF ParserInv, LinesAreNumberedRight
  <2> QED
    BY <1>2, <2>5, <2>8 DEF ParserInv
<1> QED
  BY <1>3, <1>4

(* Every step of the review keeps the numbering.                           *)
LEMMA ReviewKeeps ==
  ASSUME ParserInv, ReviewNext
  PROVE  ParserInv'
<1>1. ASSUME NEW e \in SeqUpTo(LineType, MaxLines), NEW s \in SUBSET DOMAIN e, OpenFile(e, s)
      PROVE  ParserInv'
  <2>1. e \in Seq(LineType) /\ DOMAIN e = 1..Len(e) /\ Len(e) \in Nat
    BY <1>1, ChangedFilesAssumption DEF SeqUpTo
  <2>2. ParserType'
    BY <1>1, <2>1 DEF ParserInv, ParserType, OpenFile, fileVars
  <2>3. InStep'
    BY <1>1 DEF ParserInv, ParserType, InStep, OpenFile, fileVars, HasOld, HasNew
  <2>4. {j \in shown' : j <= pos'} = {}
    BY <1>1, <2>1 DEF OpenFile
  <2> QED
    BY <1>1, <2>2, <2>3, <2>4 DEF ParserInv, LinesAreNumberedRight, OpenFile, fileVars
<1>2. ASSUME NEW p \in 1..MaxLines, NEW e \in p..MaxLines, ReadHeader(p, e)
      PROVE  ParserInv'
  <2>1. p \in Nat \ {0} /\ e \in Nat /\ p <= e
    BY ChangedFilesAssumption
  <2>2. /\ edit' = edit /\ shown' = shown /\ pos' = p - 1 /\ hunkEnd' = e /\ split' = split
        /\ pos < p /\ p \in shown /\ e \in shown
        /\ cursor' = cursor /\ lines' = lines
    BY <1>2, <2>1 DEF ReadHeader, fileVars
  <2>3. OldBefore(p) \in Nat /\ NewBefore(p) \in Nat
    BY <2>1, BeforeIsNat
  <2>4. ParserType'
    <3>1. oldLine' \in Nat /\ newLine' \in Nat
      BY <1>2, <2>3 DEF ReadHeader, HeaderOld, HeaderNew
    <3> QED
      BY <1>2, <2>1, <2>2, <3>1 DEF ParserInv, ParserType, ReadHeader, fileVars
  <2>5. InStep'
    <3>1. (HasOld(p, e) => oldLine' = OldBefore(p) + 1) /\ (HasNew(p, e) => newLine' = NewBefore(p) + 1)
      BY <1>2 DEF ReadHeader, HeaderOld, HeaderNew
    <3>2. /\ OldBefore(p)' = OldBefore(p) /\ NewBefore(p)' = NewBefore(p)
          /\ HasOld(p, e)' = HasOld(p, e) /\ HasNew(p, e)' = HasNew(p, e)
      BY <2>2, SameScript DEF HasOld, HasNew
    <3>3. pos' + 1 = p /\ pos' <= hunkEnd' /\ p..e \subseteq shown'
      BY <1>2, <2>1, <2>2 DEF ReadHeader
    <3> QED
      BY <1>2, <2>2, <3>1, <3>2, <3>3 DEF ParserInv, InStep, ReadHeader
  <2>6. {j \in shown' : j <= pos'} = {j \in shown : j <= pos}
    BY <1>2, <2>1, <2>2 DEF ReadHeader, ParserInv, ParserType
  <2>7. \A i : TrueLine(i)' = TrueLine(i)
    BY <2>2, SameScript
  <2> QED
    BY <1>2, <2>2, <2>4, <2>5, <2>6, <2>7 DEF ParserInv, LinesAreNumberedRight, ReadHeader, fileVars
<1>3. CASE ReadLine
  BY <1>3, ReadLineKeeps
<1>4. ASSUME NEW rest \in LineType, ReadSplitLine(rest)
      PROVE  ParserInv'
  <2>1. pos + 1 \in (pos + 1)..hunkEnd /\ cursor + 1 \in File
    BY <1>4, ChangedFilesAssumption DEF ReadSplitLine, ParserInv, ParserType, InStep, File
  <2>2. oldLine' \in Nat /\ newLine' \in Nat
    BY <1>4 DEF ReadSplitLine, ParserInv, ParserType, CountedOld, CountedNew
  <2>3. cursor' + 1 \in split'
    BY <1>4 DEF ReadSplitLine
  <2> QED
    BY <1>4, <2>1, <2>2, <2>3 DEF ParserInv, ParserType, InStep, LinesAreNumberedRight, ReadSplitLine
<1>5. ASSUME NEW o \in {"changed"} \cup SkipReason, CloseFile(o)
      PROVE  ParserInv'
  <2>1. ParserType' /\ InStep'
    BY <1>5, ChangedFilesAssumption DEF ParserInv, ParserType, InStep, CloseFile, HasOld, HasNew, File
  <2>2. cursor + 1 \notin split => ChangedNewLines = AddedLines
    <3>1. {j \in shown : j <= pos} = shown
      BY <1>5 DEF CloseFile
    <3>2. cursor + 1 \notin split => lines = {TrueLine(i) : i \in shown}
      BY <1>5, <3>1 DEF CloseFile, ParserInv, LinesAreNumberedRight
    <3>3. \A i : /\ TrueLine(i).type = edit[i]
                 /\ edit[i] = "addition" => TrueLine(i).new = NewBefore(i) + 1
      BY DEF TrueLine
    <3>4. ASSUME cursor + 1 \notin split, NEW n
          PROVE  n \in ChangedNewLines <=> n \in AddedLines
      <4>1. ASSUME n \in ChangedNewLines PROVE n \in AddedLines
        <5>1. PICK m \in lines : m.type = "addition" /\ m.new = n
          BY <4>1 DEF ChangedNewLines
        <5>2. PICK i \in shown : m = TrueLine(i)
          BY <3>2, <3>4, <5>1
        <5> QED
          BY <3>3, <5>1, <5>2 DEF AddedLines
      <4>2. ASSUME n \in AddedLines PROVE n \in ChangedNewLines
        <5>1. PICK i \in shown : edit[i] = "addition" /\ n = NewBefore(i) + 1
          BY <4>2 DEF AddedLines
        <5>2. TrueLine(i) \in lines
          BY <3>2, <3>4
        <5> QED
          BY <3>3, <5>1, <5>2 DEF ChangedNewLines
      <4> QED
        BY <4>1, <4>2
    <3> QED
      BY <3>4
  <2> QED
    BY <1>5, <2>1, <2>2 DEF ParserInv, ParserType, LinesAreNumberedRight, CloseFile
<1>6. CASE CapFiles
  BY <1>6, ChangedFilesAssumption DEF ParserInv, ParserType, InStep, LinesAreNumberedRight, CapFiles, parserVars
<1>7. ASSUME NEW fs, SelectInline(fs)
      PROVE  ParserInv'
  BY <1>7 DEF ParserInv, ParserType, InStep, LinesAreNumberedRight, SelectInline, parserVars, fileVars
<1> QED
  BY <1>1, <1>2, <1>3, <1>4, <1>5, <1>6, <1>7 DEF ReviewNext

(* The numbering is an invariant together with where the parser stands.    *)
THEOREM ParserInvariant == Spec => []ParserInv
<1>1. Init => ParserInv
  BY ChangedFilesAssumption DEF Init, ReviewInit, ParserInv, ParserType, InStep, LinesAreNumberedRight,
     HasOld, HasNew
<1>2. ParserInv /\ [Next]_vars => ParserInv'
  <2> SUFFICES ASSUME ParserInv, [Next]_vars PROVE ParserInv'
    OBVIOUS
  <2>1. CASE ReviewNext
    BY <2>1, ReviewKeeps
  <2>2. CASE UNCHANGED reviewVars
    <3>1. \A i : /\ TrueLine(i)' = TrueLine(i)
                 /\ OldBefore(i)' = OldBefore(i) /\ NewBefore(i)' = NewBefore(i)
      BY <2>2, SameScript DEF reviewVars, parserVars
    <3> QED
      BY <2>2, <3>1 DEF reviewVars, parserVars, fileVars, ParserInv, ParserType, InStep,
         LinesAreNumberedRight, HasOld, HasNew
  <2> QED
    BY <2>1, <2>2 DEF Next, vars
<1> QED
  BY <1>1, <1>2, PTL DEF Spec

(* For scripts of any length cut into any hunks, the parser gives every    *)
(* line the numbers it has in the old and in the new file, and             *)
(* changed_new_lines are the lines added (parse_patch_hunks,               *)
(* changed_new_lines).                                                     *)
THEOREM LinesNumbered == Spec => []LinesAreNumberedRight
<1>1. ParserInv => LinesAreNumberedRight
  BY DEF ParserInv
<1> QED
  BY <1>1, ParserInvariant, PTL
-----------------------------------------------------------------------------
(* The files dealt with are the first ones, and those past MaxFiles are    *)
(* never reviewed.                                                         *)
FilesInv ==
  /\ phase \in {"files", "parse", "findings", "done"} /\ cursor \in 0..Files
  /\ DOMAIN outcome = File
  /\ phase \in {"files", "parse"} =>
       /\ cursor <= MaxFiles
       /\ \A f \in File : outcome[f] = "open" <=> f > cursor
  /\ phase = "parse" => cursor < Files /\ cursor < MaxFiles
  /\ phase \in {"findings", "done"} =>
       \A f \in File : outcome[f] # "open" /\ (outcome[f] = "changed" => f <= MaxFiles)

(* What FilesInv says of a finished listing bounds the files reviewed.     *)
LEMMA FewAreReviewed ==
  ASSUME FilesInv
  PROVE  EveryFileIsAccountedFor
<1> DEFINE Reviewed == {f \in File : outcome[f] = "changed"}
<1>1. SUFFICES ASSUME phase \in {"findings", "done"}
      PROVE  (\A f \in File : outcome[f] # "open") /\ Cardinality(Reviewed) <= MaxFiles
  BY DEF EveryFileIsAccountedFor
<1>2. Reviewed \in SUBSET (1..MaxFiles)
  BY <1>1, ChangedFilesAssumption DEF FilesInv, File
<1>3. IsFiniteSet(1..MaxFiles) /\ Cardinality(1..MaxFiles) = MaxFiles
  BY FS_Interval, ChangedFilesAssumption
<1>4. Cardinality(Reviewed) <= Cardinality(1..MaxFiles)
  BY <1>2, <1>3, FS_Subset
<1> QED
  BY <1>1, <1>3, <1>4 DEF FilesInv

(* Every step of the review keeps FilesInv.                                *)
LEMMA FilesKept ==
  ASSUME FilesInv, ReviewNext
  PROVE  FilesInv'
<1> USE ChangedFilesAssumption DEF FilesInv, File
<1>1. ASSUME NEW e, NEW s, OpenFile(e, s)
      PROVE  FilesInv'
  BY <1>1 DEF OpenFile, fileVars
<1>2. ASSUME NEW p, NEW e, ReadHeader(p, e)
      PROVE  FilesInv'
  BY <1>2 DEF ReadHeader, fileVars
<1>3. CASE ReadLine
  BY <1>3 DEF ReadLine, fileVars
<1>4. ASSUME NEW rest, ReadSplitLine(rest)
      PROVE  FilesInv'
  BY <1>4 DEF ReadSplitLine
<1>5. ASSUME NEW o, CloseFile(o)
      PROVE  FilesInv'
  BY <1>5 DEF CloseFile, SkipReason
<1>6. CASE CapFiles
  BY <1>6 DEF CapFiles, Rest
<1>7. ASSUME NEW fs, SelectInline(fs)
      PROVE  FilesInv'
  BY <1>7 DEF SelectInline, fileVars
<1> QED
  BY <1>1, <1>2, <1>3, <1>4, <1>5, <1>6, <1>7 DEF ReviewNext

(* For any number of files and any cap, each file of a pull request is     *)
(* reviewed or skipped for a reason, and at most MaxFiles are reviewed     *)
(* (_prepare_changed_files).                                               *)
THEOREM FilesAccountedFor == Spec => []EveryFileIsAccountedFor
<1>1. Init => FilesInv
  BY ChangedFilesAssumption DEF Init, ReviewInit, FilesInv, File
<1>2. FilesInv /\ [Next]_vars => FilesInv'
  BY FilesKept DEF Next, vars, reviewVars, fileVars, FilesInv
<1> QED
  BY <1>1, <1>2, FewAreReviewed, PTL DEF Spec
-----------------------------------------------------------------------------
(* Before is a strict total order of the candidates.                       *)
LEMMA BeforeOrders ==
  ASSUME NEW x \in Finding, NEW y \in Finding, NEW i \in Nat, NEW j \in Nat
  PROVE  /\ ~(Before(x, y, i, j) /\ Before(y, x, j, i)) /\ ~Before(x, x, i, i)
         /\ i # j => Before(x, y, i, j) \/ Before(y, x, j, i)
         /\ Before(x, y, i, j) => x.rank >= y.rank
         /\ x.rank \in Nat /\ y.rank \in Nat
         /\ \A z \in Finding, k \in Nat :
              Before(x, y, i, j) /\ Before(y, z, j, k) => Before(x, z, i, k)
<1>1. \A z \in Finding : z.rank \in Nat /\ z.file \in Nat /\ z.line \in Nat
  BY ChangedFilesAssumption DEF Finding, File
<1> QED
  BY <1>1 DEF Before

(* A candidate's place is the number of candidates up to it: every number  *)
(* from one to the number of candidates is the place of exactly one, and   *)
(* an earlier place has no lower rank.                                     *)
LEMMA PlacesSort ==
  ASSUME NEW fs \in Seq(Finding)
  PROVE  /\ Candidates(fs) \subseteq DOMAIN fs
         /\ IsFiniteSet(Candidates(fs)) /\ Cardinality(Candidates(fs)) \in Nat
         /\ \A i \in Candidates(fs) : Place(fs, i) \in 1..Cardinality(Candidates(fs))
         /\ \A i, j \in Candidates(fs) :
              /\ Place(fs, i) = Place(fs, j) => i = j
              /\ Place(fs, i) < Place(fs, j) => fs[i].rank >= fs[j].rank
         /\ \A k \in 1..Cardinality(Candidates(fs)) : \E i \in Candidates(fs) : Place(fs, i) = k
<1> DEFINE C == Candidates(fs)
           UpTo(i) == {j \in C : j = i \/ Before(fs[j], fs[i], j, i)}
<1>1. DOMAIN fs = 1..Len(fs) /\ Len(fs) \in Nat /\ C \in SUBSET (1..Len(fs))
  BY DEF Candidates
<1>2. IsFiniteSet(C) /\ Cardinality(C) \in Nat
  <2>1. IsFiniteSet(1..Len(fs))
    BY <1>1, FS_Interval
  <2> HIDE DEF C
  <2> QED BY <1>1, <2>1, FS_Subset, FS_CardinalityType
<1>3. \A i \in C : i \in Nat /\ fs[i] \in Finding
  BY <1>1
<1> HIDE DEF C
<1>4. ASSUME NEW i \in C
      PROVE  /\ UpTo(i) \in SUBSET C /\ i \in UpTo(i) /\ IsFiniteSet(UpTo(i))
             /\ Cardinality(UpTo(i)) \in 1..Cardinality(C)
  <2>1. UpTo(i) \in SUBSET C /\ i \in UpTo(i)
    OBVIOUS
  <2>2. IsFiniteSet(UpTo(i)) /\ Cardinality(UpTo(i)) <= Cardinality(C)
    <3> HIDE DEF UpTo
    <3> QED BY <1>2, <2>1, FS_Subset
  <2>3. Cardinality(UpTo(i)) \in Nat /\ Cardinality(UpTo(i)) # 0
    <3> HIDE DEF UpTo
    <3> QED BY <2>1, <2>2, FS_CardinalityType, FS_EmptySet
  <2> QED
    BY <1>2, <2>1, <2>2, <2>3
<1>5. ASSUME NEW i \in C, NEW j \in C, Before(fs[i], fs[j], i, j)
      PROVE  Cardinality(UpTo(i)) < Cardinality(UpTo(j))
  <2>1. UpTo(i) \in SUBSET UpTo(j)
    <3>1. ASSUME NEW k \in C, Before(fs[k], fs[i], k, i)
          PROVE  Before(fs[k], fs[j], k, j)
      BY <1>3, <1>5, <3>1, BeforeOrders
    <3> QED
      BY <1>5, <3>1
  <2>2. j \notin UpTo(i)
    <3>1. j # i /\ ~Before(fs[j], fs[i], j, i)
      BY <1>3, <1>5, BeforeOrders
    <3> QED BY <3>1
  <2>3. j \in UpTo(j) /\ IsFiniteSet(UpTo(j))
    BY <1>4
  <2>4. Cardinality(UpTo(i)) \in Nat /\ Cardinality(UpTo(j)) \in Nat
    <3> HIDE DEF UpTo
    <3>1. Cardinality(UpTo(i)) \in 1..Cardinality(C) /\ Cardinality(UpTo(j)) \in 1..Cardinality(C)
      BY <1>4
    <3> QED BY <1>2, <3>1
  <2> HIDE DEF UpTo
  <2>5. Cardinality(UpTo(i)) <= Cardinality(UpTo(j)) /\ Cardinality(UpTo(i)) # Cardinality(UpTo(j))
    BY <2>1, <2>2, <2>3, FS_Subset
  <2> QED
    BY <2>4, <2>5
<1>6. \A i \in C : Place(fs, i) = Cardinality(UpTo(i))
  BY DEF Place, C
<1> HIDE DEF UpTo
<1>7. \A i \in C : Place(fs, i) \in 1..Cardinality(C)
  BY <1>4, <1>6
<1>8. ASSUME NEW i \in C, NEW j \in C
      PROVE  /\ Place(fs, i) = Place(fs, j) => i = j
             /\ Place(fs, i) < Place(fs, j) => fs[i].rank >= fs[j].rank
  <2>1. i # j => Before(fs[i], fs[j], i, j) \/ Before(fs[j], fs[i], j, i)
    BY <1>3, BeforeOrders
  <2>2. Before(fs[i], fs[j], i, j) => Place(fs, i) < Place(fs, j) /\ fs[i].rank >= fs[j].rank
    BY <1>3, <1>5, <1>6, BeforeOrders
  <2>3. Before(fs[j], fs[i], j, i) => Place(fs, j) < Place(fs, i)
    BY <1>5, <1>6
  <2>4. Place(fs, i) \in Nat /\ Place(fs, j) \in Nat
    BY <1>2, <1>7
  <2> QED
    BY <2>1, <2>2, <2>3, <2>4
<1>9. ASSUME NEW k \in 1..Cardinality(C)
      PROVE  \E i \in C : Place(fs, i) = k
  <2> DEFINE places == [i \in C |-> Place(fs, i)]
  <2>1. places \in Injection(C, 1..Cardinality(C))
    BY <1>7, <1>8 DEF Injection, IsInjective
  <2>2. IsFiniteSet(1..Cardinality(C)) /\ Cardinality(1..Cardinality(C)) = Cardinality(C)
    BY <1>2, FS_Interval
  <2> HIDE DEF places
  <2>3. places \in Surjection(C, 1..Cardinality(C))
    BY <1>2, <2>1, <2>2, FS_Injection
  <2>4. \E i \in C : places[i] = k
    BY <2>3 DEF Surjection
  <2> QED
    BY <2>4 DEF places
<1> QED
  BY <1>1, <1>2, <1>7, <1>8, <1>9 DEF C

(* sel has the first MaxInline candidates in that order.                   *)
FirstPlaces(fs, sel) ==
  sel = [k \in 1..(IF Cardinality(Candidates(fs)) < MaxInline
                   THEN Cardinality(Candidates(fs)) ELSE MaxInline) |->
           CHOOSE i \in Candidates(fs) : Place(fs, i) = k]

(* sel has as many of the positions eligible as the cap allows, the worst  *)
(* ones and in that order.                                                 *)
WorstOf(fs, sel, eligible) ==
  LET kept == {sel[k] : k \in DOMAIN sel}
  IN /\ kept \subseteq eligible /\ Cardinality(kept) = Len(sel)
     /\ Len(sel) <= MaxInline
     /\ kept = eligible \/ Len(sel) = MaxInline
     /\ \A i \in kept, j \in eligible \ kept : fs[i].rank >= fs[j].rank
     /\ \A k, l \in DOMAIN sel : k < l => fs[sel[k]].rank >= fs[sel[l]].rank

LEMMA FirstAreWorst ==
  ASSUME NEW fs \in Seq(Finding), NEW sel, FirstPlaces(fs, sel)
  PROVE  sel \in Seq(Nat) /\ WorstOf(fs, sel, Candidates(fs))
<1> USE ChangedFilesAssumption
<1> DEFINE C == Candidates(fs)
           n == Cardinality(C)
           m == IF n < MaxInline THEN n ELSE MaxInline
           kept == {sel[k] : k \in DOMAIN sel}
<1>1. /\ C \subseteq Nat /\ IsFiniteSet(C) /\ n \in Nat
      /\ \A i \in C : Place(fs, i) \in 1..n
      /\ \A i, j \in C : /\ Place(fs, i) = Place(fs, j) => i = j
                         /\ Place(fs, i) < Place(fs, j) => fs[i].rank >= fs[j].rank
      /\ \A k \in 1..n : \E i \in C : Place(fs, i) = k
  BY PlacesSort
<1>2. sel = [k \in 1..m |-> CHOOSE i \in C : Place(fs, i) = k]
  BY DEF FirstPlaces
<1> HIDE DEF C, n
<1>3. m \in Nat /\ m <= n /\ m <= MaxInline /\ (m = n \/ m = MaxInline)
  BY <1>1
<1> HIDE DEF m
<1>4. DOMAIN sel = 1..m /\ \A k \in 1..m : sel[k] \in C /\ Place(fs, sel[k]) = k
  <2>1. DOMAIN sel = 1..m
    BY <1>2
  <2>2. ASSUME NEW k \in 1..m PROVE sel[k] \in C /\ Place(fs, sel[k]) = k
    <3>1. sel[k] = CHOOSE i \in C : Place(fs, i) = k
      BY <1>2
    <3>2. k \in 1..n
      BY <1>1, <1>3
    <3> QED
      BY <1>1, <3>1, <3>2
  <2> QED
    BY <2>1, <2>2
<1>5. sel \in [1..m -> C]
  BY <1>2, <1>4
<1>6. sel \in Seq(Nat) /\ Len(sel) = m
  <2>1. sel \in [1..m -> Nat]
    BY <1>1, <1>5
  <2>2. \A k \in Nat : \A s \in [1..k -> Nat] : s \in Seq(Nat) /\ Len(s) = k
    OBVIOUS
  <2>3. m \in Nat
    BY <1>3
  <2> QED BY <2>1, <2>2, <2>3
<1>7. kept \subseteq C
  BY <1>4
<1>8. Cardinality(kept) = m
  <2>1. \A k, l \in 1..m : sel[k] = sel[l] => k = l
    BY <1>4
  <2>2. sel \in [1..m -> kept]
    BY <1>4, <1>5
  <2>3. sel \in Injection(1..m, kept)
    BY <2>1, <2>2, <1>4 DEF Injection, IsInjective
  <2>4. sel \in Surjection(1..m, kept)
    BY <2>2, <1>4 DEF Surjection
  <2>5. IsFiniteSet(1..m) /\ Cardinality(1..m) = m
    BY <1>3, FS_Interval
  <2> HIDE DEF kept
  <2> QED
    BY <2>3, <2>4, <2>5, FS_Surjection
<1>9. ASSUME NEW i \in C
      PROVE  i \in kept <=> Place(fs, i) <= m
  <2>1. ASSUME i \in kept PROVE Place(fs, i) \in 1..m
    <3>1. PICK k \in 1..m : i = sel[k]
      BY <1>4, <2>1
    <3> QED BY <1>4, <3>1
  <2>2. ASSUME Place(fs, i) <= m PROVE i \in kept
    <3>1. Place(fs, i) \in 1..m
      BY <1>1, <1>3, <2>2
    <3>2. sel[Place(fs, i)] = i
      BY <1>1, <1>4, <3>1
    <3> QED
      BY <1>4, <3>1, <3>2
  <2> QED
    BY <2>1, <2>2, <1>3
<1>10. kept = C \/ m = MaxInline
  <2>1. m = n => C \subseteq kept
    BY <1>1, <1>9
  <2> QED
    BY <1>3, <1>7, <2>1
<1>11. ASSUME NEW i \in kept, NEW j \in C \ kept
       PROVE  fs[i].rank >= fs[j].rank
  <2>1. i \in C /\ Place(fs, i) <= m /\ ~(Place(fs, j) <= m)
    BY <1>7, <1>9
  <2>2. Place(fs, i) < Place(fs, j)
    BY <2>1, <1>1, <1>3
  <2> QED
    BY <1>1, <2>1, <2>2
<1>12. ASSUME NEW k \in 1..m, NEW l \in 1..m, k < l
       PROVE  fs[sel[k]].rank >= fs[sel[l]].rank
  BY <1>1, <1>4, <1>12
<1> QED
  BY <1>3, <1>4, <1>6, <1>7, <1>8, <1>10, <1>11, <1>12 DEF C, WorstOf

(* The types, and what the comments rest on: changed_new_lines are the     *)
(* lines added, and those are numbered from one.                           *)
ReviewInv ==
  /\ ParserInv /\ ReviewTypeOK
  /\ \A f \in File : added[f] \subseteq Nat \ {0}
  /\ InlineCommentsAreTheWorst

(* The comments chosen at the end are the worst of those on added lines.   *)
LEMMA SelectKeeps ==
  ASSUME ReviewInv, NEW fs \in Seq(Finding), SelectInline(fs)
  PROVE  ReviewTypeOK' /\ InlineCommentsAreTheWorst'
<1>1. inline' \in Seq(Nat) /\ WorstOf(fs, inline', Candidates(fs))
  <2>1. FirstPlaces(fs, inline')
    BY DEF SelectInline, FirstPlaces
  <2>2. \A sel : FirstPlaces(fs, sel) => sel \in Seq(Nat) /\ WorstOf(fs, sel, Candidates(fs))
    BY FirstAreWorst
  <2> QED
    BY <2>1, <2>2
<1>2. findings' = fs /\ phase' = "done" /\ added' = added /\ split' = split /\ changedLines' = changedLines
  BY DEF SelectInline, fileVars
<1>3. ReviewTypeOK'
  BY <1>1, <1>2 DEF SelectInline, ReviewInv, ReviewTypeOK, parserVars, fileVars
<1>4. ASSUME split = {}
      PROVE  Candidates(fs) = {i \in DOMAIN fs : fs[i].line \in added[fs[i].file]}
  <2>1. \A f \in File : changedLines[f] = added[f] /\ added[f] \subseteq Nat \ {0}
    BY <1>4 DEF ReviewInv, ParserInv, LinesAreNumberedRight
  <2>2. \A i \in DOMAIN fs : fs[i].file \in File
    <3>1. \A i \in DOMAIN fs : fs[i] \in Finding
      OBVIOUS
    <3> QED
      BY <3>1 DEF Finding
  <2>3. \A i \in DOMAIN fs : Eligible(fs[i]) <=> fs[i].line \in added[fs[i].file]
    <3>1. \A l : l \in Nat \ {0} => l > 0
      OBVIOUS
    <3> QED
      BY <2>1, <2>2, <3>1 DEF Eligible
  <2> QED
    BY <2>3 DEF Candidates
<1>5. InlineCommentsAreTheWorst'
  <2> DEFINE onAdded == {i \in DOMAIN fs : fs[i].line \in added[fs[i].file]}
  <2>1. split = {} => WorstOf(fs, inline', onAdded)
    BY <1>1, <1>4
  <2> QED
    BY <2>1, <1>2 DEF InlineCommentsAreTheWorst, WorstOf
<1> QED
  BY <1>3, <1>5

(* Every step of the review keeps ReviewInv.                               *)
LEMMA ReviewInvKept ==
  ASSUME ReviewInv, ReviewNext
  PROVE  ReviewInv'
<1> USE ChangedFilesAssumption
<1>0. ParserInv'
  BY ReviewKeeps DEF ReviewInv
<1>1. ASSUME NEW e \in SeqUpTo(LineType, MaxLines), NEW s \in SUBSET DOMAIN e, OpenFile(e, s)
      PROVE  ReviewInv'
  <2>1. e \in Seq(LineType) /\ Len(e) <= MaxLines
    BY DEF SeqUpTo
  <2>2. ReviewTypeOK'
    BY <1>1, <2>1 DEF OpenFile, fileVars, ReviewInv, ReviewTypeOK
  <2> QED
    BY <1>0, <1>1, <2>2 DEF OpenFile, fileVars, ReviewInv, InlineCommentsAreTheWorst
<1>2. ASSUME NEW p \in 1..MaxLines, NEW e \in p..MaxLines, ReadHeader(p, e)
      PROVE  ReviewInv'
  <2>1. ReviewTypeOK'
    BY <1>0, <1>2 DEF ReadHeader, fileVars, ReviewInv, ReviewTypeOK, ParserInv, ParserType
  <2> QED
    BY <1>0, <1>2, <2>1 DEF ReadHeader, fileVars, ReviewInv, InlineCommentsAreTheWorst
<1>3. ASSUME phase = "parse", pos < hunkEnd
      PROVE  /\ edit[pos + 1] \in LineType
             /\ \A t \in LineType, o, n \in Nat : Numbered(t, o, n) \in ParsedLine
             /\ \A l \in Nat, t \in LineType : CountedOld(l, t) \in Nat /\ CountedNew(l, t) \in Nat
  <2>1. edit[pos + 1] \in LineType
    <3>1. pos + 1 \in (pos + 1)..hunkEnd
      BY <1>3 DEF ReviewInv, ParserInv, ParserType
    <3> QED
      BY <3>1 DEF ReviewInv, ParserInv, ParserType, InStep
  <2> QED
    BY <2>1 DEF Numbered, ParsedLine, CountedOld, CountedNew
<1>4. CASE ReadLine
  <2>1. Numbered(edit[pos + 1], oldLine, newLine) \in ParsedLine
    BY <1>3, <1>4 DEF ReadLine, ReviewInv, ReviewTypeOK
  <2>2. lines' \subseteq ParsedLine
    BY <1>4, <2>1 DEF ReadLine, ReviewInv, ReviewTypeOK
  <2>3. ReviewTypeOK'
    BY <1>0, <1>4, <2>2 DEF ReadLine, fileVars, ReviewInv, ReviewTypeOK, ParserInv, ParserType
  <2> QED
    BY <1>0, <1>4, <2>3 DEF ReadLine, fileVars, ReviewInv, InlineCommentsAreTheWorst
<1>5. ASSUME NEW rest \in LineType, ReadSplitLine(rest)
      PROVE  ReviewInv'
  <2> DEFINE o == CountedOld(oldLine, edit[pos + 1])
             n == CountedNew(newLine, edit[pos + 1])
  <2>1. /\ Numbered(edit[pos + 1], oldLine, newLine) \in ParsedLine
        /\ Numbered(rest, o, n) \in ParsedLine
    BY <1>3, <1>5 DEF ReadSplitLine, ReviewInv, ReviewTypeOK
  <2>2. lines' = lines \cup {Numbered(edit[pos + 1], oldLine, newLine), Numbered(rest, o, n)}
    BY <1>5 DEF ReadSplitLine
  <2>3. lines' \subseteq ParsedLine
    BY <2>1, <2>2 DEF ReviewInv, ReviewTypeOK
  <2>4. ReviewTypeOK'
    BY <1>0, <1>5, <2>3 DEF ReadSplitLine, ReviewInv, ReviewTypeOK, ParserInv, ParserType
  <2> QED
    BY <1>0, <1>5, <2>4 DEF ReadSplitLine, ReviewInv, InlineCommentsAreTheWorst
<1>6. ASSUME NEW o \in {"changed"} \cup SkipReason, CloseFile(o)
      PROVE  ReviewInv'
  <2>1. ChangedNewLines \subseteq Nat
    BY DEF ChangedNewLines, ReviewInv, ReviewTypeOK, ParsedLine
  <2>2. AddedLines \subseteq Nat \ {0}
    <3>1. \A i \in shown : i \in Nat
      BY DEF ReviewInv, ReviewTypeOK
    <3>2. \A i \in shown : NewBefore(i) + 1 \in Nat \ {0}
      <4> SUFFICES ASSUME NEW i \in shown PROVE NewBefore(i) + 1 \in Nat \ {0}
        OBVIOUS
      <4>1. NewBefore(i) \in Nat
        BY <3>1, BeforeIsNat
      <4> QED BY <4>1
    <3> QED
      BY <3>2 DEF AddedLines
  <2>3. /\ changedLines' \in [File -> SUBSET Nat] /\ added' \in [File -> SUBSET Nat]
        /\ outcome' \in [File -> {"open", "changed"} \cup SkipReason]
        /\ \A f \in File : added'[f] \subseteq Nat \ {0}
    BY <1>6, <2>1, <2>2 DEF CloseFile, ReviewInv, ReviewTypeOK
  <2>4. ReviewTypeOK'
    BY <1>0, <1>6, <2>3 DEF CloseFile, ReviewInv, ReviewTypeOK, ParserInv, ParserType
  <2> QED
    BY <1>0, <1>6, <2>3, <2>4 DEF CloseFile, ReviewInv, InlineCommentsAreTheWorst
<1>7. CASE CapFiles
  <2>1. outcome' \in [File -> {"open", "changed"} \cup SkipReason]
    BY <1>7 DEF CapFiles, SkipReason, ReviewInv, ReviewTypeOK
  <2>2. ReviewTypeOK'
    BY <1>7, <2>1 DEF CapFiles, parserVars, ReviewInv, ReviewTypeOK
  <2> QED
    BY <1>0, <1>7, <2>2 DEF CapFiles, ReviewInv, InlineCommentsAreTheWorst
<1>8. ASSUME NEW fs \in SeqUpTo([file : File, line : 0..MaxLines, rank : 0..MaxRank], MaxFindings),
             SelectInline(fs)
      PROVE  ReviewInv'
  <2>1. fs \in Seq(Finding)
    <3> DEFINE Reported == [file : File, line : 0..MaxLines, rank : 0..MaxRank]
    <3>1. Reported \subseteq Finding
      BY DEF Finding
    <3> HIDE DEF Reported
    <3>2. PICK k \in 0..MaxFindings : fs \in [1..k -> Reported]
      BY <1>8 DEF SeqUpTo, Reported
    <3>3. fs \in [1..k -> Finding]
      BY <3>1, <3>2
    <3>4. \A S, s : s \in [1..k -> S] => s \in Seq(S)
      OBVIOUS
    <3> QED
      BY <3>3, <3>4
  <2>2. added' = added
    BY <1>8 DEF SelectInline, fileVars
  <2> QED
    BY <1>0, <1>8, <2>1, <2>2, SelectKeeps DEF ReviewInv
<1> QED
  BY <1>1, <1>2, <1>4, <1>5, <1>6, <1>7, <1>8 DEF ReviewNext

(* The types of a review and its comments are an invariant.                *)
THEOREM ReviewInvariant == Spec => []ReviewInv
<1>1. Init => ReviewInv
  <2> SUFFICES ASSUME Init PROVE ReviewInv
    OBVIOUS
  <2>1. ParserInv
    BY ChangedFilesAssumption DEF Init, ReviewInit, ParserInv, ParserType, InStep, LinesAreNumberedRight,
       HasOld, HasNew
  <2>2. ReviewTypeOK
    BY ChangedFilesAssumption DEF Init, ReviewInit, ReviewTypeOK
  <2> QED
    BY <2>1, <2>2 DEF Init, ReviewInit, ReviewInv, InlineCommentsAreTheWorst
<1>2. ReviewInv /\ [Next]_vars => ReviewInv'
  <2> SUFFICES ASSUME ReviewInv, [Next]_vars PROVE ReviewInv'
    OBVIOUS
  <2>1. CASE ReviewNext
    BY <2>1, ReviewInvKept
  <2>2. CASE UNCHANGED reviewVars
    <3>1. ParserInv'
      <4>1. \A i : /\ TrueLine(i)' = TrueLine(i)
                   /\ OldBefore(i)' = OldBefore(i) /\ NewBefore(i)' = NewBefore(i)
        BY <2>2, SameScript DEF reviewVars, parserVars
      <4> QED
        BY <2>2, <4>1 DEF reviewVars, parserVars, fileVars, ReviewInv, ParserInv, ParserType, InStep,
           LinesAreNumberedRight, HasOld, HasNew
    <3> QED
      BY <2>2, <3>1 DEF reviewVars, parserVars, fileVars, ReviewInv, ReviewTypeOK, InlineCommentsAreTheWorst
  <2> QED
    BY <2>1, <2>2 DEF Next, vars
<1> QED
  BY <1>1, <1>2, PTL DEF Spec

(* For any number of findings and any cap, the inline comments are on      *)
(* added lines, worst first, and none left out is worse than one made      *)
(* (_build_semgrep_inline_review_comments).                                *)
THEOREM CommentsAreTheWorst == Spec => []InlineCommentsAreTheWorst
<1>1. ReviewInv => InlineCommentsAreTheWorst
  BY DEF ReviewInv
<1> QED
  BY <1>1, ReviewInvariant, PTL
-----------------------------------------------------------------------------
(* f gives the bytes of the selected blobs up to each position.            *)
IsTotal(f, v, b) ==
  f = [n \in 0..Len(v) |->
         IF n = 0 THEN 0 ELSE f[n - 1] + IF v[n] = "selected" THEN b[n] ELSE 0]

(* The verdicts and the budgets they were made under; the sum of the sizes *)
(* is known by a function that gives it for every position.                *)
BudgetsInv ==
  /\ PlanTypeOK
  /\ \E f \in [0..Len(verdict) -> Nat] : IsTotal(f, verdict, bytes) /\ f[Len(verdict)] = totalBytes
  /\ totalBytes <= MaxTotalBytes
  /\ Cardinality(Selected) <= MaxScanFiles
  /\ \A b \in DOMAIN verdict :
       /\ verdict[b] = "selected" => bytes[b] <= MaxFileBytes
       /\ verdict[b] = "oversized" => bytes[b] > MaxFileBytes
       /\ verdict[b] = "max_total_bytes" => totalBytes + bytes[b] > MaxTotalBytes
       /\ verdict[b] = "max_files" => Cardinality(Selected) = MaxScanFiles

(* A set of numbers that is not empty has a least one.                     *)
LEMMA LeastNumber ==
  ASSUME NEW T \in SUBSET Nat, T # {}
  PROVE  \E m \in T : \A k \in T : m <= k
<1> DEFINE R == OpToRel(<, Nat)
<1>1. IsWellFoundedOn(R, Nat)
  BY NatLessThanWellFounded
<1>2. PICK m \in T : \A k \in T : <<k, m>> \notin R
  <2> HIDE DEF R
  <2> QED BY <1>1, WFMin
<1>3. \A k \in T : ~(k < m)
  BY <1>2 DEF OpToRel
<1> QED
  BY <1>3

(* There is one such function.                                             *)
LEMMA OneTotal ==
  ASSUME NEW v, Len(v) \in Nat, NEW b, NEW f, NEW g, IsTotal(f, v, b), IsTotal(g, v, b)
  PROVE  f = g
<1> DEFINE T == {n \in 0..Len(v) : f[n] # g[n]}
           Value(h, n) == IF n = 0 THEN 0 ELSE h[n - 1] + IF v[n] = "selected" THEN b[n] ELSE 0
<1>1. f = [n \in 0..Len(v) |-> Value(f, n)] /\ g = [n \in 0..Len(v) |-> Value(g, n)]
  BY DEF IsTotal
<1>2. \A n \in 0..Len(v) : f[n] = Value(f, n) /\ g[n] = Value(g, n)
  <2> HIDE DEF Value
  <2> QED BY <1>1
<1>3. T = {}
  <2>1. SUFFICES ASSUME T # {} PROVE FALSE
    OBVIOUS
  <2>a. T \in SUBSET Nat
    OBVIOUS
  <2>2. PICK m \in T : \A k \in T : m <= k
    <3> HIDE DEF T
    <3> QED BY <2>1, <2>a, LeastNumber
  <2>3. f[m] = Value(f, m) /\ g[m] = Value(g, m) /\ f[m] # g[m]
    BY <1>2, <2>2
  <2>4. CASE m = 0
    BY <2>3, <2>4
  <2>5. CASE m # 0
    <3>1. m - 1 \in 0..Len(v) /\ m - 1 \notin T
      BY <2>2, <2>5
    <3>2. f[m - 1] = g[m - 1]
      BY <3>1
    <3> QED
      BY <2>3, <3>2
  <2> QED
    BY <2>4, <2>5
<1>4. \A n \in 0..Len(v) : f[n] = g[n]
  BY <1>3
<1>5. /\ f = [n \in 0..Len(v) |-> f[n]] /\ g = [n \in 0..Len(v) |-> g[n]]
  <2> HIDE DEF Value
  <2> QED BY <1>1
<1> QED
  BY <1>4, <1>5

(* The sum the property takes is the last value of that function.          *)
LEMMA TotalIsSelectedBytes ==
  ASSUME Len(verdict) \in Nat, NEW f, IsTotal(f, verdict, bytes)
  PROVE  SelectedBytes = f[Len(verdict)]
<1> DEFINE sum == CHOOSE g : IsTotal(g, verdict, bytes)
<1>1. IsTotal(sum, verdict, bytes)
  <2> HIDE DEF IsTotal
  <2> QED OBVIOUS
<1>2. SelectedBytes = sum[Len(verdict)]
  BY Zenon DEF SelectedBytes, IsTotal
<1>3. sum = f
  <2> HIDE DEF sum
  <2> QED BY <1>1, OneTotal
<1> QED
  BY <1>2, <1>3

(* The invariant says all the property says.                               *)
LEMMA BudgetsAreKept ==
  ASSUME BudgetsInv
  PROVE  PlanKeepsBudgets
<1>1. Len(verdict) \in Nat
  BY ScanPlanAssumption DEF BudgetsInv, PlanTypeOK
<1>2. totalBytes = SelectedBytes
  <2>1. PICK f \in [0..Len(verdict) -> Nat] :
          IsTotal(f, verdict, bytes) /\ f[Len(verdict)] = totalBytes
    BY DEF BudgetsInv
  <2> QED
    BY <2>1, <1>1, TotalIsSelectedBytes
<1> QED
  BY <1>2 DEF BudgetsInv, PlanKeepsBudgets

(* One more verdict lengthens the two sequences by one.                    *)
LEMMA OneMore ==
  ASSUME PlanTypeOK, Len(verdict) + 1 <= Blobs,
         NEW result \in {"selected"} \cup PlanSkip, NEW size \in Nat,
         verdict' = Append(verdict, result), bytes' = Append(bytes, size)
  PROVE  /\ Len(verdict) \in Nat /\ DOMAIN verdict = 1..Len(verdict)
         /\ Len(verdict') = Len(verdict) + 1 /\ DOMAIN verdict' = 1..(Len(verdict) + 1)
         /\ verdict'[Len(verdict) + 1] = result /\ bytes'[Len(verdict) + 1] = size
         /\ \A b \in 1..Len(verdict) : verdict'[b] = verdict[b] /\ bytes'[b] = bytes[b]
         /\ verdict' \in UNION {[1..n -> {"selected"} \cup PlanSkip] : n \in 0..Blobs}
         /\ bytes' \in [DOMAIN verdict' -> Nat]
<1> USE ScanPlanAssumption
<1>1. PICK n \in 0..Blobs : verdict \in [1..n -> {"selected"} \cup PlanSkip]
  BY DEF PlanTypeOK
<1>2. verdict \in Seq({"selected"} \cup PlanSkip) /\ Len(verdict) = n /\ n + 1 \in 0..Blobs
  BY <1>1
<1>3. bytes \in [1..n -> Nat]
  BY <1>1 DEF PlanTypeOK
<1>4. bytes \in Seq(Nat) /\ Len(bytes) = n
  BY <1>3
<1>5. /\ verdict' \in Seq({"selected"} \cup PlanSkip) /\ Len(verdict') = n + 1
      /\ verdict'[n + 1] = result /\ \A b \in 1..n : verdict'[b] = verdict[b]
  BY <1>2
<1>6. /\ bytes' \in Seq(Nat) /\ Len(bytes') = n + 1
      /\ bytes'[n + 1] = size /\ \A b \in 1..n : bytes'[b] = bytes[b]
  BY <1>4
<1>7. verdict' \in [1..(n + 1) -> {"selected"} \cup PlanSkip] /\ bytes' \in [1..(n + 1) -> Nat]
  <2> DEFINE S == {"selected"} \cup PlanSkip
  <2>1. \A T, s : s \in Seq(T) => s \in [1..Len(s) -> T]
    OBVIOUS
  <2>2. verdict' \in Seq(S) /\ bytes' \in Seq(Nat)
    BY <1>5, <1>6
  <2>3. verdict' \in [1..Len(verdict') -> S] /\ bytes' \in [1..Len(bytes') -> Nat]
    <3> HIDE DEF S
    <3> QED BY <2>1, <2>2
  <2> QED
    BY <2>3, <1>5, <1>6
<1>8. verdict' \in UNION {[1..k -> {"selected"} \cup PlanSkip] : k \in 0..Blobs}
  BY <1>2, <1>7
<1> QED
  BY <1>1, <1>2, <1>5, <1>6, <1>7, <1>8

(* A decision keeps the budgets.                                           *)
LEMMA DecideKeeps ==
  ASSUME BudgetsInv, NEW kind, NEW size \in Nat, NEW known \in BOOLEAN, Decide(kind, size, known)
  PROVE  BudgetsInv'
<1> USE ScanPlanAssumption
<1> DEFINE before == BeforeFetch(kind, size, known)
           result == IF before = "fetch" THEN AfterFetch(size) ELSE before
           len == Len(verdict)
<1>1. /\ verdict' = Append(verdict, result) /\ bytes' = Append(bytes, size) /\ len + 1 <= Blobs
      /\ totalBytes' = IF result = "selected" THEN totalBytes + size ELSE totalBytes
      /\ plan' = plan
  BY DEF Decide, NextBlob
<1>2. /\ result \in {"selected"} \cup PlanSkip
      /\ result = "selected" => /\ size <= MaxFileBytes /\ totalBytes + size <= MaxTotalBytes
                                /\ ~(Cardinality(Selected) >= MaxScanFiles)
      /\ result = "oversized" => size > MaxFileBytes
      /\ result = "max_total_bytes" => ~(totalBytes + size <= MaxTotalBytes)
      /\ result = "max_files" => Cardinality(Selected) >= MaxScanFiles
  BY DEF BeforeFetch, AfterFetch, Fits, PlanSkip
<1> HIDE DEF before, result
<1>3. PlanTypeOK /\ totalBytes \in Nat
  BY DEF BudgetsInv, PlanTypeOK
<1>4. /\ len \in Nat /\ DOMAIN verdict = 1..len
      /\ Len(verdict') = len + 1 /\ DOMAIN verdict' = 1..(len + 1)
      /\ verdict'[len + 1] = result /\ bytes'[len + 1] = size
      /\ \A b \in 1..len : verdict'[b] = verdict[b] /\ bytes'[b] = bytes[b]
      /\ verdict' \in UNION {[1..n -> {"selected"} \cup PlanSkip] : n \in 0..Blobs}
      /\ bytes' \in [DOMAIN verdict' -> Nat]
  BY SMTT(60), <1>1, <1>2, <1>3, OneMore
<1>5. totalBytes' \in Nat /\ totalBytes' >= totalBytes /\ totalBytes' <= MaxTotalBytes
  BY <1>1, <1>2, <1>3 DEF BudgetsInv
<1>6. PlanTypeOK'
  BY <1>1, <1>3, <1>4, <1>5 DEF PlanTypeOK
<1>7. IsFiniteSet(Selected) /\ Cardinality(Selected) \in Nat
  <2>1. IsFiniteSet(1..len) /\ Selected \in SUBSET (1..len)
    BY <1>4, FS_Interval DEF Selected
  <2> QED
    BY <2>1, FS_Subset, FS_CardinalityType
<1>8. /\ result = "selected" => Cardinality(Selected') = Cardinality(Selected) + 1
      /\ result # "selected" => Selected' = Selected
  <2>1. result = "selected" => Selected' = Selected \cup {len + 1}
    BY <1>4 DEF Selected
  <2>2. result # "selected" => Selected' = Selected
    BY <1>4 DEF Selected
  <2>3. len + 1 \notin Selected
    BY <1>4 DEF Selected
  <2> QED
    BY <1>7, <2>1, <2>2, <2>3, FS_AddElement
<1>9. \E g \in [0..Len(verdict') -> Nat] :
        IsTotal(g, verdict', bytes') /\ g[Len(verdict')] = totalBytes'
  <2>1. PICK f \in [0..len -> Nat] : IsTotal(f, verdict, bytes) /\ f[len] = totalBytes
    BY DEF BudgetsInv
  <2>2. \A n \in 0..len :
          f[n] = IF n = 0 THEN 0 ELSE f[n - 1] + IF verdict[n] = "selected" THEN bytes[n] ELSE 0
    <3> DEFINE Value(n) == IF n = 0 THEN 0 ELSE f[n - 1] + IF verdict[n] = "selected" THEN bytes[n] ELSE 0
    <3>1. f = [n \in 0..len |-> Value(n)]
      BY <2>1 DEF IsTotal
    <3> HIDE DEF Value
    <3>2. \A n \in 0..len : f[n] = Value(n)
      BY <3>1
    <3> QED
      BY <3>2 DEF Value
  <2> DEFINE g == [n \in 0..(len + 1) |-> IF n = len + 1 THEN totalBytes' ELSE f[n]]
             Next1(n) == IF n = 0 THEN 0 ELSE g[n - 1] + IF verdict'[n] = "selected" THEN bytes'[n] ELSE 0
  <2>3. /\ g \in [0..(len + 1) -> Nat] /\ g[len + 1] = totalBytes'
        /\ \A n \in 0..len : g[n] = f[n]
    BY <2>1, <1>4, <1>5
  <2>4. ASSUME NEW n \in 0..(len + 1) PROVE g[n] = Next1(n)
    <3> HIDE DEF g
    <3>1. CASE n = 0
      BY <3>1, <2>2, <2>3, <1>4
    <3>2. CASE n \in 1..len
      <4>1. n \in 0..len /\ n - 1 \in 0..len /\ n # 0
        BY <3>2, <1>4
      <4> QED
        BY <4>1, <3>2, <2>2, <2>3, <1>4
    <3>3. CASE n = len + 1
      <4>1. n - 1 = len /\ n # 0 /\ g[n - 1] = totalBytes
        BY <3>3, <2>1, <2>3, <1>4
      <4> QED
        BY <4>1, <3>3, <2>3, <1>1, <1>3, <1>4
    <3> QED
      BY <3>1, <3>2, <3>3, <1>4
  <2>5. IsTotal(g, verdict', bytes')
    <3>1. g = [n \in 0..(len + 1) |-> g[n]]
      OBVIOUS
    <3>2. g = [n \in 0..(len + 1) |-> Next1(n)]
      <4> HIDE DEF g, Next1
      <4> QED BY <2>4, <3>1
    <3> HIDE DEF g
    <3> QED
      BY <3>2, <1>4 DEF IsTotal
  <2> HIDE DEF g
  <2> QED
    BY <2>3, <2>5, <1>4
<1>10. /\ Cardinality(Selected') \in Nat /\ Cardinality(Selected') <= MaxScanFiles
       /\ Cardinality(Selected) = MaxScanFiles => Cardinality(Selected') = MaxScanFiles
  BY <1>2, <1>7, <1>8 DEF BudgetsInv
<1>11. ASSUME NEW b \in 1..(len + 1)
       PROVE  /\ verdict'[b] = "selected" => bytes'[b] <= MaxFileBytes
              /\ verdict'[b] = "oversized" => bytes'[b] > MaxFileBytes
              /\ verdict'[b] = "max_total_bytes" => totalBytes' + bytes'[b] > MaxTotalBytes
              /\ verdict'[b] = "max_files" => Cardinality(Selected') = MaxScanFiles
  <2>1. CASE b = len + 1
    BY <2>1, <1>1, <1>2, <1>3, <1>4, <1>5, <1>7, <1>8, <1>10 DEF BudgetsInv
  <2>2. CASE b \in 1..len
    <3>1. verdict'[b] = verdict[b] /\ bytes'[b] = bytes[b] /\ bytes[b] \in Nat
      BY <2>2, <1>3, <1>4 DEF PlanTypeOK
    <3> QED
      BY <3>1, <2>2, <1>3, <1>4, <1>5, <1>10, SMTT(60) DEF BudgetsInv
  <2> QED
    BY <2>1, <2>2, <1>4
<1> QED
  BY <1>4, <1>5, <1>6, <1>9, <1>10, <1>11 DEF BudgetsInv

(* Every step of the planner keeps them.                                   *)
LEMMA PlanKeeps ==
  ASSUME BudgetsInv, PlanNext
  PROVE  BudgetsInv'
<1>1. ASSUME NEW kind \in PathKind, NEW size \in 0..(MaxTotalBytes + 1), NEW known \in BOOLEAN,
             Decide(kind, size, known)
      PROVE  BudgetsInv'
  <2>1. size \in Nat
    BY ScanPlanAssumption
  <2> QED
    BY <1>1, <2>1, DecideKeeps
<1>2. ASSUME plan' \in {"made", "failed"}, UNCHANGED <<verdict, bytes, totalBytes>>
      PROVE  BudgetsInv'
  BY <1>2 DEF BudgetsInv, PlanTypeOK, Selected, IsTotal
<1> QED
  BY <1>1, <1>2 DEF PlanNext, AbandonPlan, FinishPlan

(* The verdicts of a plan and its budgets are an invariant.                *)
THEOREM BudgetsInvariant == Spec => []BudgetsInv
<1>1. Init => BudgetsInv
  <2> SUFFICES ASSUME PlanInit PROVE BudgetsInv
    BY DEF Init
  <2> USE ScanPlanAssumption DEF PlanInit
  <2>1. Len(verdict) = 0 /\ DOMAIN verdict = {} /\ 1..0 = {} /\ 0 \in 0..Blobs
    OBVIOUS
  <2>2. PlanTypeOK
    <3>1. verdict \in [1..0 -> {"selected"} \cup PlanSkip] /\ bytes \in [DOMAIN verdict -> Nat]
      OBVIOUS
    <3> QED BY <3>1, <2>1 DEF PlanTypeOK
  <2>3. Selected = {} /\ Cardinality(Selected) = 0
    BY <2>1, FS_EmptySet DEF Selected
  <2>4. IsTotal([n \in 0..0 |-> 0], verdict, bytes) /\ [n \in 0..0 |-> 0] \in [0..0 -> Nat]
    BY <2>1 DEF IsTotal
  <2> QED
    BY <2>1, <2>2, <2>3, <2>4 DEF BudgetsInv
<1>2. BudgetsInv /\ [Next]_vars => BudgetsInv'
  <2> SUFFICES ASSUME BudgetsInv, [Next]_vars PROVE BudgetsInv'
    OBVIOUS
  <2>1. CASE PlanNext
    BY <2>1, PlanKeeps
  <2>2. CASE UNCHANGED planVars
    BY <2>2 DEF BudgetsInv, PlanTypeOK, Selected, IsTotal, planVars
  <2> QED
    BY <2>1, <2>2 DEF Next, vars
<1> QED
  BY <1>1, <1>2, PTL DEF Spec

(* For any tree and any budgets, the plan of a codebase scan keeps within  *)
(* its budgets, counts the bytes it selected, and skips for a budget only  *)
(* what has no room in it (CodebaseScanWorkspacePlanner.plan).             *)
THEOREM BudgetsKept == Spec => []PlanKeepsBudgets
<1>1. BudgetsInv => PlanKeepsBudgets
  BY BudgetsAreKept
<1> QED
  BY <1>1, BudgetsInvariant, PTL
-----------------------------------------------------------------------------
(* The two analyses keep their types.                                      *)
THEOREM AnalysisTypes == Spec => []TypeOK
<1>1. Spec => [](job \in {"review", "codebase_scan"})
  <2>1. Init => job \in {"review", "codebase_scan"}
    BY DEF Init
  <2>2. job \in {"review", "codebase_scan"} /\ [Next]_vars => (job \in {"review", "codebase_scan"})'
    BY DEF Next, vars
  <2> QED
    BY <2>1, <2>2, PTL DEF Spec
<1>2. job \in {"review", "codebase_scan"} /\ ReviewInv /\ BudgetsInv => TypeOK
  BY DEF TypeOK, ReviewInv, BudgetsInv
<1> QED
  BY <1>1, <1>2, ReviewInvariant, BudgetsInvariant, PTL
=============================================================================
