---------------------- MODULE CommentPublishing_proofs ----------------------
(***************************************************************************)
(* Theorems about CommentPublishing for any runs, any number of workers,   *)
(* any inline comments and page size, and every bound.                     *)
(***************************************************************************)
EXTENDS CommentPublishing, FiniteSetTheorems, TLAPS

(* What an attempt has in hand: its run, the comment its last list found,  *)
(* which has the marker looked for, and review comments that are there.    *)
WorkerOK(w) ==
  /\ wPc[w] # "idle" => wRun[w] \in Run
  /\ wFound[w] <= Len(comments)
  /\ wPc[w] = "progressWrite" /\ wFound[w] # 0 => comments[wFound[w]].marker = "scanning"
  /\ wPc[w] = "summaryWrite" /\ wFound[w] # 0 => comments[wFound[w]].marker = "summary"
  /\ wPc[w] = "summaryRecord" => wFound[w] # 0 /\ comments[wFound[w]].marker = "summary"
  /\ wPc[w] \in {"progressList", "progressWrite"} => wStatus[w] # "none"
  /\ wIds[w] \subseteq DOMAIN inline

TypeInv ==
  /\ TypeOK
  /\ Cardinality(Busy) <= width
  /\ \A w \in Worker : WorkerOK(w)

(* What every step leaves of what is on GitHub: the markers of the issue   *)
(* comments and the review comments.                                       *)
Grows ==
  /\ comments' \in Seq(Comment) /\ Len(comments) <= Len(comments') /\ Len(comments') <= MaxComments
  /\ \A i \in DOMAIN comments : i \in DOMAIN comments' /\ comments'[i].marker = comments[i].marker
  /\ inline' \in Seq(Content) /\ Len(inline) <= Len(inline') /\ Len(inline') <= MaxInline
  /\ \A i \in DOMAIN inline : i \in DOMAIN inline' /\ inline'[i] = inline[i]

OthersStay(w) ==
  \A v \in Worker \ {w} :
    /\ wPc'[v] = wPc[v] /\ wRun'[v] = wRun[v] /\ wStatus'[v] = wStatus[v]
    /\ wFound'[v] = wFound[v] /\ wIds'[v] = wIds[v]
WorkerStep(w) ==
  \/ \E r \in Run : StartAttempt(w, r)
  \/ ProgressList(w) \/ ProgressWrite(w) \/ ProgressNotPublished(w)
  \/ Analyse(w) \/ InlineList(w) \/ InlinePost(w) \/ InlineRead(w)
  \/ RecordInlineComments(w) \/ SummaryList(w) \/ SummaryWrite(w)
  \/ RecordSummaryComment(w) \/ CallFails(w) \/ Crash(w)
-----------------------------------------------------------------------------
(* The least-number principle, for the first match on a page.              *)
LEMMA Least ==
  ASSUME NEW S \in SUBSET Nat, S # {}
  PROVE  LET n == CHOOSE i \in S : \A j \in S : i <= j
         IN  n \in S /\ \A j \in S : n <= j
<1> DEFINE R == OpToRel(<, Nat)
<1>1. \E x \in S : \A y \in S : ~(<<y, x>> \in R)
  <2>1. IsWellFoundedOn(R, Nat)
    BY NatLessThanWellFounded
  <2> HIDE DEF R
  <2> QED BY <2>1, WFMin
<1>2. \A x, y \in Nat : <<y, x>> \in R <=> y < x
  BY DEF OpToRel
<1>3. \E x \in S : \A y \in S : ~(y < x)
  BY <1>1, <1>2, Zenon
<1> HIDE DEF R
<1>4. \E x \in S : \A y \in S : x <= y
  BY <1>3
<1> QED
  BY <1>4, Zenon

LEMMA Appended ==
  ASSUME comments \in Seq(Comment), NEW c \in Comment
  PROVE  LET u == Append(comments, c) IN
         /\ u \in Seq(Comment) /\ Len(u) = Len(comments) + 1
         /\ DOMAIN u = DOMAIN comments \cup {Len(comments) + 1}
         /\ \A i \in DOMAIN comments : u[i] = comments[i]
         /\ u[Len(comments) + 1] = c
OBVIOUS

LEMMA WrittenComment ==
  ASSUME comments \in Seq(Comment), NEW c \in Comment, NEW f \in 0..Len(comments)
  PROVE  LET u == Written(f, c)
             n == IF f = 0 THEN Len(comments) + 1 ELSE f IN
         /\ u \in Seq(Comment) /\ Len(u) = (IF f = 0 THEN Len(comments) + 1 ELSE Len(comments))
         /\ DOMAIN u = DOMAIN comments \cup {n}
         /\ u[n] = c /\ \A i \in DOMAIN comments : i # n => u[i] = comments[i]
<1>1. CASE f = 0
  BY <1>1, Appended DEF Written
<1>2. CASE f # 0
  <2> DEFINE u == [comments EXCEPT ![f] = c]
  <2>1. DOMAIN comments = 1..Len(comments) /\ Len(comments) \in Nat
    OBVIOUS
  <2>2. u \in [1..Len(comments) -> Comment]
    BY <1>2, <2>1
  <2>3. u \in Seq(Comment)
    BY <2>1, <2>2
  <2>4. Len(u) = Len(comments)
    BY <2>1, <2>2, <2>3
  <2>5. u[f] = c /\ \A i \in DOMAIN comments : i # f => u[i] = comments[i]
    BY <1>2, <2>1
  <2>6. Written(f, c) = u
    BY <1>2 DEF Written
  <2> QED  BY <1>2, <2>1, <2>2, <2>3, <2>4, <2>5, <2>6
<1> QED
  BY <1>1, <1>2

(* The comment a list finds.                                               *)
LEMMA FirstOnPage ==
  ASSUME comments \in Seq(Comment), NEW m
  PROVE  /\ ExistingId(m) = 0 <=> MarkerOnPage(m) = {}
         /\ ExistingId(m) # 0 => ExistingId(m) \in MarkerOnPage(m)
         /\ \A j \in MarkerOnPage(m) : ExistingId(m) <= j
<1>1. MarkerOnPage(m) \in SUBSET Nat /\ 0 \notin MarkerOnPage(m)
  BY DEF MarkerOnPage
<1>2. MarkerOnPage(m) # {} => ExistingId(m) \in MarkerOnPage(m) /\ \A j \in MarkerOnPage(m) : ExistingId(m) <= j
  BY <1>1, Least DEF ExistingId
<1> QED
  BY <1>1, <1>2 DEF ExistingId

(* One review: each comment of C once, after those that are there.         *)
LEMMA PostedReview ==
  ASSUME inline \in Seq(Content), NEW C \in SUBSET Content, IsFiniteSet(C), NEW s \in Orders(C)
  PROVE  LET u == inline \o s
             n == Len(inline) IN
         /\ u \in Seq(Content) /\ Len(u) = n + Cardinality(C)
         /\ \A i \in DOMAIN inline : i \in DOMAIN u /\ u[i] = inline[i]
         /\ \A i \in (n + 1)..Len(u) : u[i] \in C
         /\ \A k \in C : \E i \in (n + 1)..Len(u) :
              u[i] = k /\ \A j \in (n + 1)..Len(u) : u[j] = k => j = i
<1> DEFINE u == inline \o s
           n == Len(inline)
           m == Cardinality(C)
<1>1. m \in Nat /\ n \in Nat
  BY FS_CardinalityType
<1>2. s \in [1..m -> C] /\ \A i, j \in 1..m : s[i] = s[j] => i = j
  BY DEF Orders
<1>3. s \in Seq(Content) /\ Len(s) = m
  BY <1>1, <1>2
<1>4. /\ u \in Seq(Content) /\ Len(u) = n + m
      /\ \A i \in 1..(n + m) : u[i] = IF i <= n THEN inline[i] ELSE s[i - n]
  BY <1>1, <1>3
<1>5. \A k \in C : \E i \in 1..m : s[i] = k
  <2>1. IsFiniteSet(1..m) /\ Cardinality(1..m) = m
    BY <1>1, FS_Interval
  <2>2. s \in Injection(1..m, C)
    BY <1>2 DEF Injection, IsInjective
  <2>3. s \in Surjection(1..m, C)
    BY <2>1, <2>2, FS_Injection
  <2> QED  BY <2>3 DEF Surjection
<1> HIDE DEF u, m
<1>6. \A i \in (n + 1)..Len(u) : i - n \in 1..m /\ u[i] = s[i - n]
  BY <1>1, <1>4
<1>7. ASSUME NEW k \in C
      PROVE  \E i \in (n + 1)..Len(u) : u[i] = k /\ \A j \in (n + 1)..Len(u) : u[j] = k => j = i
  <2>1. PICK i \in 1..m : s[i] = k
    BY <1>5
  <2>2. n + i \in (n + 1)..Len(u) /\ (n + i) - n = i
    BY <1>1, <1>4, <2>1
  <2>3. u[n + i] = k
    BY <1>6, <2>1, <2>2
  <2>4. \A j \in (n + 1)..Len(u) : u[j] = k => j - n = i
    BY <1>2, <1>6, <2>1
  <2>5. \A j \in (n + 1)..Len(u) : u[j] = k => j = n + i
    BY <1>1, <2>4
  <2> QED  BY <2>2, <2>3, <2>5
<1>8. \A i \in DOMAIN inline : i \in DOMAIN u /\ u[i] = inline[i]
  BY <1>1, <1>4
<1>9. \A i \in (n + 1)..Len(u) : u[i] \in C
  BY <1>2, <1>6
<1> QED
  BY <1>1, <1>4, <1>7, <1>8, <1>9 DEF u, m

LEMMA MissingComments ==
  ASSUME TypeInv, NEW w \in Worker, wPc[w] # "idle"
  PROVE  /\ wRun[w] \in Run /\ Missing(w) \in SUBSET Content /\ IsFiniteSet(Missing(w))
         /\ Missing(w) \subseteq Wanted[wRun[w]] /\ Cardinality(Missing(w)) \in Nat
<1>1. wRun[w] \in Run /\ Wanted[wRun[w]] \in SUBSET Content /\ IsFiniteSet(Wanted[wRun[w]])
  BY PublishingAssumption DEF TypeInv, WorkerOK
<1>2. Missing(w) \in SUBSET Wanted[wRun[w]]
  BY DEF Missing
<1>3. IsFiniteSet(Missing(w))
  BY <1>1, <1>2, FS_Subset
<1> QED
  BY <1>1, <1>2, <1>3, FS_CardinalityType

LEMMA BusyWorkers ==
  /\ IsFiniteSet(Worker) /\ IsFiniteSet(Busy)
  /\ Cardinality(Worker) \in Nat /\ Cardinality(Busy) \in Nat /\ Cardinality(Busy) <= Cardinality(Worker)
<1>1. IsFiniteSet(Worker)
  BY PublishingAssumption
<1>2. Busy \in SUBSET Worker
  BY DEF Busy
<1>3. IsFiniteSet(Busy) /\ Cardinality(Busy) <= Cardinality(Worker)
  BY <1>1, <1>2, FS_Subset
<1> QED
  BY <1>1, <1>3, FS_CardinalityType

(* What a write of w does to the list of comments.                         *)
LEMMA CommentWritten ==
  ASSUME TypeInv, NEW w \in Worker, wPc[w] \in {"progressWrite", "summaryWrite"},
         NEW c \in Comment, c.marker = (IF wPc[w] = "summaryWrite" THEN "summary" ELSE "scanning"),
         RoomFor(wFound[w]), comments' = Written(wFound[w], c)
  PROVE  /\ comments' \in Seq(Comment) /\ Len(comments) <= Len(comments') /\ Len(comments') <= MaxComments
         /\ SummaryId(w) \in 1..MaxComments
         /\ DOMAIN comments' = DOMAIN comments \cup {SummaryId(w)} /\ comments'[SummaryId(w)] = c
         /\ \A i \in DOMAIN comments : i # SummaryId(w) => comments'[i] = comments[i]
         /\ \A i \in DOMAIN comments : i \in DOMAIN comments' /\ comments'[i].marker = comments[i].marker
<1>1. /\ comments \in Seq(Comment) /\ Len(comments) \in Nat /\ Len(comments) <= MaxComments /\ MaxComments \in Nat
      /\ wFound[w] \in Nat /\ wFound[w] \in 0..Len(comments) /\ DOMAIN comments = 1..Len(comments)
  BY PublishingAssumption DEF TypeInv, TypeOK, WorkerOK
<1>2. SummaryId(w) = IF wFound[w] = 0 THEN Len(comments) + 1 ELSE wFound[w]
  BY DEF SummaryId
<1>3. /\ comments' \in Seq(Comment)
      /\ Len(comments') = (IF wFound[w] = 0 THEN Len(comments) + 1 ELSE Len(comments))
      /\ DOMAIN comments' = DOMAIN comments \cup {SummaryId(w)}
      /\ comments'[SummaryId(w)] = c /\ \A i \in DOMAIN comments : i # SummaryId(w) => comments'[i] = comments[i]
  <2> DEFINE f == wFound[w]
             u == Written(f, c)
             n == IF f = 0 THEN Len(comments) + 1 ELSE f
  <2>1. /\ u \in Seq(Comment) /\ Len(u) = (IF f = 0 THEN Len(comments) + 1 ELSE Len(comments))
        /\ DOMAIN u = DOMAIN comments \cup {n}
        /\ u[n] = c /\ \A i \in DOMAIN comments : i # n => u[i] = comments[i]
    <3> HIDE DEF f
    <3> QED  BY <1>1, WrittenComment DEF f
  <2> QED  BY <1>2, <2>1
<1>4. wFound[w] # 0 => comments[wFound[w]].marker = c.marker
  BY DEF TypeInv, WorkerOK
<1>5. \A i \in DOMAIN comments : i \in DOMAIN comments' /\ comments'[i].marker = comments[i].marker
  BY <1>1, <1>2, <1>3, <1>4
<1> QED
  BY <1>1, <1>2, <1>3, <1>5 DEF RoomFor

LEMMA OwnComments ==
  ASSUME TypeInv, NEW w \in Worker, wPc[w] # "idle"
  PROVE  /\ SummaryComment(w) \in Comment /\ SummaryComment(w).marker = "summary"
         /\ ProgressComment(w).marker = "scanning"
         /\ ProgressComment(w).run = wRun[w] /\ SummaryComment(w).run = wRun[w]
         /\ ProgressComment(w).status = (IF wStatus[w] = "inline" THEN "running" ELSE wStatus[w])
         /\ ProgressComment(w) \in Comment
BY DEF TypeInv, TypeOK, WorkerOK, SummaryComment, ProgressComment, Comment, Marker

LEMMA Grow ==
  ASSUME TypeInv, NEW w \in Worker, WorkerStep(w)
  PROVE  Grows /\ OthersStay(w)
<1>1. /\ comments \in Seq(Comment) /\ Len(comments) \in Nat /\ Len(comments) <= MaxComments
      /\ inline \in Seq(Content) /\ Len(inline) \in Nat /\ Len(inline) <= MaxInline
      /\ MaxComments \in Nat /\ MaxInline \in Nat
  BY PublishingAssumption DEF TypeInv, TypeOK
<1>2. OthersStay(w)
  BY DEF TypeInv, TypeOK, WorkerStep, OthersStay, StartAttempt, ProgressList, ProgressWrite,
     ProgressNotPublished, Analyse, InlineList, InlinePost, InlineRead, RecordInlineComments, SummaryList,
     SummaryWrite, RecordSummaryComment, CallFails, Crash, OnError, AfterProgress, Publish, End, Goto, Forget
<1>3. CASE UNCHANGED <<comments, inline>>
  BY <1>1, <1>2, <1>3 DEF Grows
<1>4. CASE UNCHANGED inline /\ wPc[w] = "progressWrite" /\ RoomFor(wFound[w])
           /\ comments' = Written(wFound[w], ProgressComment(w))
  <2>1. ProgressComment(w) \in Comment /\ ProgressComment(w).marker = "scanning"
    BY <1>4, OwnComments
  <2>2. "scanning" = (IF wPc[w] = "summaryWrite" THEN "summary" ELSE "scanning")
    BY <1>4
  <2>3. /\ comments' \in Seq(Comment) /\ Len(comments) <= Len(comments') /\ Len(comments') <= MaxComments
        /\ \A i \in DOMAIN comments : i \in DOMAIN comments' /\ comments'[i].marker = comments[i].marker
    BY <1>4, <2>1, <2>2, CommentWritten
  <2> QED  BY <1>1, <1>2, <1>4, <2>3 DEF Grows
<1>5. CASE UNCHANGED inline /\ wPc[w] = "summaryWrite" /\ RoomFor(wFound[w])
           /\ comments' = Written(wFound[w], SummaryComment(w))
  <2>1. SummaryComment(w) \in Comment /\ SummaryComment(w).marker = "summary"
    BY <1>5, OwnComments
  <2>2. "summary" = (IF wPc[w] = "summaryWrite" THEN "summary" ELSE "scanning")
    BY <1>5
  <2>3. /\ comments' \in Seq(Comment) /\ Len(comments) <= Len(comments') /\ Len(comments') <= MaxComments
        /\ \A i \in DOMAIN comments : i \in DOMAIN comments' /\ comments'[i].marker = comments[i].marker
    BY <1>5, <2>1, <2>2, CommentWritten
  <2> QED  BY <1>1, <1>2, <1>5, <2>3 DEF Grows
<1>6. CASE UNCHANGED comments /\ wPc[w] = "inlinePost" /\ RoomForReview(w) /\ Posted(w)
  <2>1. PICK s \in Orders(Missing(w)) : inline' = inline \o s
    BY <1>6 DEF Posted
  <2>2. Missing(w) \in SUBSET Content /\ IsFiniteSet(Missing(w)) /\ Cardinality(Missing(w)) \in Nat
    BY <1>6, MissingComments
  <2> QED  BY <1>1, <1>2, <1>6, <2>1, <2>2, PostedReview DEF Grows, RoomForReview
<1>7. UNCHANGED <<comments, inline>>
      \/ (UNCHANGED inline /\ wPc[w] = "progressWrite" /\ RoomFor(wFound[w])
           /\ comments' = Written(wFound[w], ProgressComment(w)))
      \/ (UNCHANGED inline /\ wPc[w] = "summaryWrite" /\ RoomFor(wFound[w])
           /\ comments' = Written(wFound[w], SummaryComment(w)))
      \/ (UNCHANGED comments /\ wPc[w] = "inlinePost" /\ RoomForReview(w) /\ Posted(w))
  BY DEF WorkerStep, StartAttempt, ProgressList, ProgressWrite,
     ProgressNotPublished, Analyse, InlineList, InlinePost, InlineRead, RecordInlineComments, SummaryList,
     SummaryWrite, RecordSummaryComment, CallFails, Crash, At, githubVars, workerVars
<1> QED
  BY <1>3, <1>4, <1>5, <1>6, <1>7

LEMMA OthersOK ==
  ASSUME TypeInv, Grows, NEW w \in Worker, OthersStay(w), NEW v \in Worker \ {w}
  PROVE  WorkerOK(v)'
<1>1. /\ wFound[v] \in Nat /\ Len(comments) \in Nat /\ Len(comments') \in Nat
      /\ wFound[v] # 0 => wFound[v] \in DOMAIN comments
  BY DEF TypeInv, TypeOK, WorkerOK, Grows
<1> QED
  BY <1>1 DEF TypeInv, WorkerOK, Grows, OthersStay

(* A step of w that does not begin an attempt.                             *)
LEMMA GoesOn ==
  ASSUME TypeInv, NEW w \in Worker, OthersStay(w), wPc[w] # "idle", width' = width
  PROVE  Busy' \subseteq Busy /\ Cardinality(Busy') <= width'
<1>1. Busy' \in SUBSET Busy
  BY DEF Busy, OthersStay
<1>2. Cardinality(Busy') <= Cardinality(Busy) /\ Cardinality(Busy') \in Nat
  BY <1>1, BusyWorkers, FS_Subset, FS_CardinalityType
<1> QED
  BY <1>1, <1>2, BusyWorkers DEF TypeInv, TypeOK

(* The local variables of the processes.                                   *)
LocalsOK ==
  /\ wPc \in [Worker -> WorkerPc] /\ wRun \in [Worker -> Run \cup {NoRun}]
  /\ wStatus \in [Worker -> {"none", "running", "inline", "completed", "failed"}]
  /\ wFound \in [Worker -> 0..MaxComments] /\ wIds \in [Worker -> SUBSET (1..MaxInline)]

LEMMA LocalsKept ==
  ASSUME LocalsOK, NEW w \in Worker,
         \/ \E st \in {"running", "inline", "completed", "failed"} : Publish(w, st) /\ UNCHANGED wRun
         \/ \E pc \in {"analyse", "inlineList"} : Goto(w, pc) /\ Forget(w) /\ UNCHANGED wRun
         \/ End(w)
  PROVE  LocalsOK'
<1>1. 0 \in 0..MaxComments
  BY PublishingAssumption
<1>2. ASSUME NEW st \in {"running", "inline", "completed", "failed"}, Publish(w, st), UNCHANGED wRun
      PROVE  LocalsOK'
  BY <1>1, <1>2 DEF LocalsOK, Publish, Goto, WorkerPc
<1>3. ASSUME NEW pc \in {"analyse", "inlineList"}, Goto(w, pc), Forget(w), UNCHANGED wRun
      PROVE  LocalsOK'
  BY <1>1, <1>3 DEF LocalsOK, Forget, Goto, WorkerPc
<1>4. CASE End(w)
  BY <1>1, <1>4 DEF LocalsOK, End, Forget, Goto, WorkerPc
<1> QED
  BY <1>2, <1>3, <1>4

LEMMA ProgressMoves ==
  ASSUME NEW w \in Worker, AfterProgress(w)
  PROVE  \/ \E pc \in {"analyse", "inlineList"} : Goto(w, pc) /\ Forget(w) /\ UNCHANGED wRun /\ ~Final(w)
         \/ End(w) /\ wStatus[w] \notin {"running", "inline"}
BY DEF AfterProgress, Final

LEMMA WorkerTypeInv ==
  ASSUME TypeInv, NEW w \in Worker, WorkerStep(w)
  PROVE  TypeInv'
<1> USE DEF githubVars, recordVars, historyVars, At
<1>1. /\ comments \in Seq(Comment) /\ Len(comments) \in Nat /\ Len(comments) <= MaxComments
      /\ inline \in Seq(Content) /\ Len(inline) \in Nat /\ Len(inline) <= MaxInline
      /\ MaxComments \in Nat /\ MaxInline \in Nat /\ MaxAttempts \in Nat /\ MaxFaults \in Nat
      /\ DOMAIN inline = 1..Len(inline) /\ DOMAIN comments = 1..Len(comments)
      /\ WorkerOK(w)
  BY PublishingAssumption DEF TypeInv, TypeOK
<1>2. Grows /\ OthersStay(w)
  BY Grow
<1>3. SUFFICES TypeOK' /\ Cardinality(Busy') <= width' /\ WorkerOK(w)'
  BY <1>2, OthersOK DEF TypeInv
<1>4. ASSUME wPc[w] # "idle", width' = width
      PROVE  Cardinality(Busy') <= width'
  BY <1>2, <1>4, GoesOn
<1>5. ASSUME NEW r \in Run, StartAttempt(w, r)
      PROVE  TypeOK' /\ Cardinality(Busy') <= width' /\ WorkerOK(w)'
  <2>1. Busy' = Busy \cup {w} /\ w \notin Busy
    BY <1>2, <1>5 DEF StartAttempt, Publish, Goto, Busy, OthersStay, TypeInv, TypeOK
  <2>2. Cardinality(Busy') = Cardinality(Busy) + 1
    BY <2>1, BusyWorkers, FS_AddElement
  <2>3. Busy' \in SUBSET Worker
    BY <2>1 DEF Busy
  <2>4. Cardinality(Busy') <= Cardinality(Worker)
    BY <2>3, BusyWorkers, FS_Subset
  <2>5. Cardinality(Busy') <= width' /\ width' \in 0..Cardinality(Worker)
    BY <1>5, <2>2, <2>4, BusyWorkers DEF StartAttempt, TypeInv, TypeOK
  <2>6. TypeOK'
    BY <1>1, <1>5, <2>5 DEF StartAttempt, Publish, Goto, TypeInv, TypeOK, WorkerPc
  <2> QED  BY <1>1, <1>5, <2>5, <2>6 DEF StartAttempt, Publish, Goto, TypeInv, TypeOK, WorkerOK
<1>6. CASE ProgressList(w)
  <2>1. ExistingId("scanning") # 0 => ExistingId("scanning") \in MarkerOnPage("scanning")
    BY <1>1, FirstOnPage
  <2>2. /\ ExistingId("scanning") \in 0..MaxComments /\ ExistingId("scanning") <= Len(comments)
        /\ ExistingId("scanning") # 0 => comments[ExistingId("scanning")].marker = "scanning"
    BY <1>1, <2>1 DEF MarkerOnPage
  <2>3. TypeOK'
    BY <1>6, <2>2 DEF ProgressList, UseToken, Goto, TypeInv, TypeOK, WorkerPc
  <2> QED  BY <1>1, <1>4, <1>6, <2>2, <2>3 DEF ProgressList, Goto, TypeInv, TypeOK, WorkerOK
<1>7. CASE ProgressWrite(w) \/ ProgressNotPublished(w)
  <2>1. /\ wPc'[w] \in {"analyse", "inlineList", "idle"} /\ wFound'[w] = 0 /\ wIds'[w] = {}
        /\ wPc'[w] # "idle" => wRun'[w] = wRun[w]
    BY <1>7 DEF ProgressWrite, ProgressNotPublished, AfterProgress, Forget, End, Goto, TypeInv, TypeOK
  <2>2. wRun' \in [Worker -> Run \cup {NoRun}] /\ wPc' \in [Worker -> WorkerPc]
        /\ wFound' \in [Worker -> 0..MaxComments] /\ wIds' \in [Worker -> SUBSET (1..MaxInline)]
        /\ wStatus' \in [Worker -> {"none", "running", "inline", "completed", "failed"}]
    <3>1. AfterProgress(w) /\ LocalsOK
      BY <1>7 DEF ProgressWrite, ProgressNotPublished, LocalsOK, TypeInv, TypeOK
    <3>2. LocalsOK'
      BY <3>1, ProgressMoves, LocalsKept
    <3> QED  BY <3>2 DEF LocalsOK
  <2>3. wPc[w] # "idle" /\ width' = width /\ faults' \in 0..MaxFaults
    BY <1>1, <1>7 DEF ProgressWrite, ProgressNotPublished, TypeInv, TypeOK
  <2>4. excused' \in BOOLEAN
    BY <1>7, Zenon DEF ProgressWrite, ProgressNotPublished, TypeInv, TypeOK
  <2>5. TypeOK'
    BY <1>1, <1>2, <1>7, <2>2, <2>3, <2>4 DEF ProgressWrite, ProgressNotPublished, TypeInv, TypeOK, Grows, WorkerOK
  <2> QED  BY <1>1, <1>2, <1>4, <2>1, <2>3, <2>5 DEF WorkerOK, Grows
<1>8. CASE Analyse(w)
  <2>1. TypeOK'
    <3>1. LocalsOK
      BY DEF LocalsOK, TypeInv, TypeOK
    <3>2. ASSUME Goto(w, "summaryList"), wRun' = wRun, wStatus' = wStatus, wFound' = wFound, wIds' = wIds
          PROVE  LocalsOK'
      <4>1. wPc' \in [Worker -> WorkerPc]
        BY <3>1, <3>2 DEF LocalsOK, Goto, WorkerPc
      <4> QED  BY <3>1, <3>2, <4>1 DEF LocalsOK
    <3>3. LocalsOK'
      BY <1>8, <3>1, <3>2, LocalsKept DEF Analyse
    <3>4. excused' \in BOOLEAN
      BY <1>8 DEF Analyse, TypeInv, TypeOK
    <3> QED  BY <1>8, <3>3, <3>4 DEF Analyse, TypeInv, TypeOK, LocalsOK
  <2> QED  BY <1>1, <1>4, <1>8, <2>1 DEF Analyse, Publish, End, Forget, Goto, TypeInv, TypeOK, WorkerOK
<1>9. CASE InlineList(w)
  <2>1. Matching(Wanted[wRun[w]]) \subseteq DOMAIN inline
    BY DEF Matching
  <2>2. TypeOK'
    BY <1>1, <1>9, <2>1 DEF InlineList, UseToken, Goto, TypeInv, TypeOK, WorkerPc
  <2> QED  BY <1>1, <1>4, <1>9, <2>1, <2>2 DEF InlineList, Goto, TypeInv, TypeOK, WorkerOK
<1>10. CASE InlinePost(w)
  <2>1. wIds'[w] = wIds[w] \cup (Len(inline) + 1)..Len(inline') /\ wIds'[w] \subseteq DOMAIN inline'
    BY <1>1, <1>2, <1>10 DEF InlinePost, TypeInv, TypeOK, WorkerOK, Grows
  <2>2. wIds' \in [Worker -> SUBSET (1..MaxInline)]
    BY <1>1, <1>2, <1>10, <2>1 DEF InlinePost, TypeInv, TypeOK, Grows
  <2>3. wPc' \in [Worker -> WorkerPc]
    BY <1>10 DEF InlinePost, Goto, AfterPost, TypeInv, TypeOK, WorkerPc
  <2>4. TypeOK'
    BY <1>1, <1>2, <1>10, <2>2, <2>3 DEF InlinePost, TypeInv, TypeOK, Grows
  <2>5. wPc'[w] \in {"inlineRecord", "inlineRead"} /\ wFound'[w] = wFound[w] /\ wRun'[w] = wRun[w]
        /\ comments' = comments /\ width' = width /\ wPc[w] # "idle"
    BY <1>10 DEF InlinePost, Goto, AfterPost, TypeInv, TypeOK
  <2> QED  BY <1>1, <1>4, <2>1, <2>4, <2>5 DEF WorkerOK
<1>11. CASE InlineRead(w)
  <2>1. TypeOK'
    BY <1>11 DEF InlineRead, Goto, TypeInv, TypeOK, WorkerPc
  <2> QED  BY <1>1, <1>4, <1>11, <2>1 DEF InlineRead, Goto, TypeInv, TypeOK, WorkerOK
<1>12. CASE RecordInlineComments(w)
  <2>1. TypeOK'
    BY <1>1, <1>12 DEF RecordInlineComments, Goto, TypeInv, TypeOK, WorkerPc, WorkerOK
  <2> QED  BY <1>1, <1>4, <1>12, <2>1 DEF RecordInlineComments, Goto, TypeInv, TypeOK, WorkerOK
<1>13. CASE SummaryList(w)
  <2>1. ExistingId("summary") # 0 => ExistingId("summary") \in MarkerOnPage("summary")
    BY <1>1, FirstOnPage
  <2>2. /\ ExistingId("summary") \in 0..MaxComments /\ ExistingId("summary") <= Len(comments)
        /\ ExistingId("summary") # 0 => comments[ExistingId("summary")].marker = "summary"
    BY <1>1, <2>1 DEF MarkerOnPage
  <2>3. TypeOK'
    BY <1>13, <2>2 DEF SummaryList, UseToken, Goto, TypeInv, TypeOK, WorkerPc
  <2> QED  BY <1>1, <1>4, <1>13, <2>2, <2>3 DEF SummaryList, Goto, TypeInv, TypeOK, WorkerOK
<1>14. CASE SummaryWrite(w)
  <2>1. SummaryComment(w) \in Comment /\ SummaryComment(w).marker = "summary"
    BY <1>14, OwnComments DEF SummaryWrite
  <2>2. SummaryId(w) \in 1..MaxComments /\ SummaryId(w) \in DOMAIN comments' /\ comments'[SummaryId(w)].marker = "summary"
    <3>1. "summary" = (IF wPc[w] = "summaryWrite" THEN "summary" ELSE "scanning")
      BY <1>14 DEF SummaryWrite
    <3> QED  BY <1>14, <2>1, <3>1, CommentWritten DEF SummaryWrite
  <2>3. TypeOK'
    BY <1>2, <1>14, <2>2 DEF SummaryWrite, Goto, TypeInv, TypeOK, WorkerPc, Grows
  <2> QED  BY <1>1, <1>2, <1>4, <1>14, <2>2, <2>3, SMTT(60) DEF SummaryWrite, Goto, TypeInv, TypeOK, WorkerOK, Grows
<1>15. CASE RecordSummaryComment(w)
  <2>1. TypeOK'
    <3>1. LocalsOK'
      BY <1>15, LocalsKept DEF RecordSummaryComment, LocalsOK, TypeInv, TypeOK
    <3>2. wRun[w] \in Run
      BY <1>1, <1>15 DEF RecordSummaryComment, WorkerOK
    <3>3. summaryRecord' \in [1..MaxComments -> Run \cup {NoRun}] /\ unrecorded' \subseteq 1..MaxComments
      BY <1>15, <3>2 DEF RecordSummaryComment, TypeInv, TypeOK
    <3> QED  BY <1>15, <3>1, <3>3 DEF RecordSummaryComment, TypeInv, TypeOK, LocalsOK
  <2> QED  BY <1>1, <1>4, <1>15, <2>1 DEF RecordSummaryComment, Publish, Goto, TypeInv, TypeOK, WorkerOK
<1>16. CASE CallFails(w)
  <2>1. wPc'[w] = "progressList" /\ wFound'[w] = 0 /\ wIds'[w] = {} /\ wRun' = wRun /\ width' = width /\ wPc[w] # "idle"
        /\ wStatus'[w] = "failed"
    BY <1>16 DEF CallFails, OnError, Publish, Goto, TypeInv, TypeOK
  <2>2. At(w, "summaryWrite") /\ RoomFor(wFound[w]) => SummaryId(w) \in 1..MaxComments
    BY <1>1 DEF SummaryId, RoomFor, TypeInv, TypeOK
  <2>3. unrecorded' \subseteq 1..MaxComments
    <3>1. unrecorded \subseteq 1..MaxComments /\ (wPc[w] = "summaryRecord" => wFound[w] \in 1..MaxComments)
      BY <1>1 DEF TypeInv, TypeOK, WorkerOK
    <3>2. Unrecorded(w) \subseteq 1..MaxComments
      BY <3>1 DEF Unrecorded
    <3> QED  BY <1>16, <2>2, <3>1, <3>2 DEF CallFails
  <2>4. faults' \in 0..MaxFaults
    BY <1>1, <1>16 DEF CallFails, TypeInv, TypeOK
  <2>5. TypeOK'
    BY <1>1, <1>2, <1>16, <2>3, <2>4 DEF CallFails, OnError, Publish, Goto, TypeInv, TypeOK, WorkerPc, Grows
  <2> QED  BY <1>1, <1>2, <1>4, <2>1, <2>5 DEF WorkerOK, Grows
<1>17. CASE Crash(w)
  <2>1. TypeOK'
    <3>1. unrecorded \subseteq 1..MaxComments /\ (wPc[w] = "summaryRecord" => wFound[w] \in 1..MaxComments)
      BY <1>1 DEF TypeInv, TypeOK, WorkerOK
    <3>2. unrecorded' \subseteq 1..MaxComments
      BY <1>17, <3>1 DEF Crash, Unrecorded
    <3>3. LocalsOK'
      BY <1>17, LocalsKept DEF Crash, LocalsOK, TypeInv, TypeOK
    <3>4. faults' \in 0..MaxFaults /\ token' \in [Worker -> {"none", "valid", "expired"}]
      BY <1>1, <1>17 DEF Crash, TypeInv, TypeOK
    <3> QED  BY <1>17, <3>2, <3>3, <3>4 DEF Crash, TypeInv, TypeOK, LocalsOK
  <2> QED  BY <1>1, <1>4, <1>17, <2>1 DEF Crash, End, Forget, Goto, TypeInv, TypeOK, WorkerOK
<1> QED
  BY <1>5, <1>6, <1>7, <1>8, <1>9, <1>10, <1>11, <1>12, <1>13, <1>14, <1>15, <1>16, <1>17 DEF WorkerStep

(* The comment of somebody else.                                           *)
LEMMA OthersComment ==
  ASSUME TypeInv, SomebodyComments
  PROVE  /\ Grows /\ Len(comments') = Len(comments) + 1
         /\ DOMAIN comments' = DOMAIN comments \cup {Len(comments) + 1}
         /\ \A i \in DOMAIN comments : comments'[i] = comments[i]
         /\ comments'[Len(comments) + 1].marker = "none"
<1> DEFINE c == [marker |-> "none", run |-> NoRun, status |-> "none"]
<1>1. c \in Comment /\ c.marker = "none"
  BY DEF Comment
<1>2. /\ comments \in Seq(Comment) /\ inline \in Seq(Content) /\ Len(comments) \in Nat /\ MaxComments \in Nat
      /\ Len(comments) < MaxComments /\ comments' = Append(comments, c) /\ inline' = inline
      /\ Len(inline) <= MaxInline
  BY PublishingAssumption DEF TypeInv, TypeOK, SomebodyComments
<1> HIDE DEF c
<1> QED
  BY <1>1, <1>2, Appended DEF Grows

LEMMA TypeInvStep == TypeInv /\ [Next]_vars => TypeInv'
<1> SUFFICES ASSUME TypeInv, [Next]_vars PROVE TypeInv'
  OBVIOUS
<1> USE DEF githubVars, recordVars, historyVars, workerVars
<1>1. CASE SomebodyComments
  <2>1. Grows
    BY <1>1, OthersComment
  <2>2. UNCHANGED <<summaryRecord, inlineRecord, attempts, wPc, wRun, wStatus, wFound, wIds, token, faults, width,
                   sideBySide, unrecorded, excused, completed>>
    BY <1>1 DEF SomebodyComments
  <2>3. TypeOK'
    BY <2>1, <2>2 DEF TypeInv, TypeOK, Grows
  <2>4. Cardinality(Busy') <= width'
    BY <2>2 DEF TypeInv, Busy
  <2>5. ASSUME NEW w \in Worker PROVE WorkerOK(w)'
    <3>1. /\ wFound[w] \in Nat /\ Len(comments) \in Nat /\ Len(comments') \in Nat
          /\ wFound[w] # 0 => wFound[w] \in DOMAIN comments
      BY <2>1 DEF TypeInv, TypeOK, WorkerOK, Grows
    <3> QED  BY <2>1, <2>2, <3>1 DEF TypeInv, WorkerOK, Grows
  <2> QED  BY <2>3, <2>4, <2>5 DEF TypeInv
<1>2. ASSUME NEW w \in Worker, TokenExpires(w)
      PROVE  TypeInv'
  BY <1>2 DEF TokenExpires, TypeInv, TypeOK, WorkerOK, Busy
<1>3. CASE UNCHANGED vars
  BY <1>3 DEF vars, TypeInv, TypeOK, WorkerOK, Busy
<1> QED
  BY <1>1, <1>2, <1>3, WorkerTypeInv DEF Next, WorkerStep

LEMMA InitTypeInv == Init => TypeInv
<1> SUFFICES ASSUME Init PROVE TypeInv
  OBVIOUS
<1>1. Busy = {}
  BY DEF Busy, Init
<1>2. Cardinality(Busy) = 0
  BY <1>1, FS_EmptySet
<1>3. TypeOK
  <2>1. /\ comments \in Seq(Comment) /\ Len(comments) <= MaxComments
        /\ inline \in Seq(Content) /\ Len(inline) <= MaxInline
    BY PublishingAssumption DEF Init
  <2>2. /\ summaryRecord \in [1..MaxComments -> Run \cup {NoRun}]
        /\ inlineRecord \in [1..MaxInline -> Run \cup {NoRun}]
        /\ unrecorded \subseteq 1..MaxComments /\ completed \subseteq Run
        /\ sideBySide \in BOOLEAN /\ excused \in BOOLEAN
    BY DEF Init
  <2>3. /\ LocalsOK /\ token \in [Worker -> {"none", "valid", "expired"}]
        /\ attempts \in 0..MaxAttempts /\ faults \in 0..MaxFaults
    BY PublishingAssumption DEF Init, LocalsOK, WorkerPc
  <2>4. width \in 0..Cardinality(Worker)
    BY BusyWorkers DEF Init
  <2> QED  BY <2>1, <2>2, <2>3, <2>4 DEF TypeOK, LocalsOK
<1>4. \A w \in Worker : WorkerOK(w)
  BY DEF Init, WorkerOK
<1> QED
  BY <1>2, <1>3, <1>4 DEF TypeInv, Init

(* The strengthened type invariant holds in every reachable state.         *)
THEOREM SpecTypeInv == Spec => []TypeInv
BY InitTypeInv, TypeInvStep, PTL DEF Spec

(* Every variable keeps its type: a comment that is found exists, a record *)
(* is of a run, and no more attempts are ever at work than there are       *)
(* processes (pipeline.py:246, 283, 775).                                  *)
THEOREM SpecTypeOK == Spec => []TypeOK
<1>1. TypeInv => TypeOK
  BY DEF TypeInv
<1> QED
  BY <1>1, SpecTypeInv, PTL
-----------------------------------------------------------------------------
(* What an attempt has reached when it gets to each place of run(): the    *)
(* inline comments are there, then recorded, then a summary comment is.    *)
HasInline(r) ==
  \A k \in Wanted[r] : \E i \in DOMAIN inline : inline[i] = k /\ inlineRecord[i] # NoRun
ReachedBy(w) ==
  /\ wPc[w] \in {"inlineRead", "inlineRecord"} =>
       \A k \in Wanted[wRun[w]] : \E i \in wIds[w] : inline[i] = k
  /\ wPc[w] \in {"summaryList", "summaryWrite", "summaryRecord"} => HasInline(wRun[w])
  /\ wStatus[w] = "completed" => HasInline(wRun[w]) /\ Copies("summary") # {}
PublishedInv ==
  /\ CompletedMeansPublished
  /\ \A w \in Worker : ReachedBy(w)

LEMMA StaysPublished ==
  ASSUME TypeInv, Grows, \A i \in 1..MaxInline : inlineRecord[i] # NoRun => inlineRecord'[i] # NoRun
  PROVE  /\ \A r : HasInline(r) => HasInline(r)'
         /\ \A m : Copies(m) \subseteq Copies(m)'
<1>1. DOMAIN inline \subseteq 1..MaxInline
  BY PublishingAssumption DEF TypeInv, TypeOK
<1> QED
  BY <1>1 DEF HasInline, Copies, Grows

LEMMA ReachedKept ==
  ASSUME TypeInv, PublishedInv, Grows, NEW w \in Worker, OthersStay(w),
         \A i \in 1..MaxInline : inlineRecord[i] # NoRun => inlineRecord'[i] # NoRun,
         CompletedMeansPublished', ReachedBy(w)'
  PROVE  PublishedInv'
<1>1. /\ \A r : HasInline(r) => HasInline(r)'
      /\ Copies("summary") \subseteq Copies("summary")'
  BY StaysPublished
<1>2. ASSUME NEW v \in Worker \ {w} PROVE ReachedBy(v)'
  <2>1. /\ ReachedBy(v) /\ wIds[v] \subseteq DOMAIN inline
        /\ wPc'[v] = wPc[v] /\ wRun'[v] = wRun[v] /\ wStatus'[v] = wStatus[v] /\ wIds'[v] = wIds[v]
    BY DEF PublishedInv, OthersStay, TypeInv, WorkerOK
  <2>2. \A i \in wIds[v] : inline'[i] = inline[i]
    BY <2>1 DEF Grows
  <2>3. HasInline(wRun[v]) => HasInline(wRun[v])'
    BY <1>1, <2>1 DEF HasInline
  <2> QED  BY <1>1, <2>1, <2>2, <2>3 DEF ReachedBy
<1> QED
  BY <1>2 DEF PublishedInv

LEMMA PublishedWorkerStep ==
  ASSUME TypeInv, PublishedInv, NEW w \in Worker, WorkerStep(w)
  PROVE  PublishedInv'
<1> USE DEF githubVars, recordVars, historyVars, At
<1>1. /\ comments \in Seq(Comment) /\ Len(comments) \in Nat /\ inline \in Seq(Content) /\ Len(inline) \in Nat
      /\ DOMAIN inline = 1..Len(inline) /\ DOMAIN inline \subseteq 1..MaxInline
      /\ NoRun \notin Run /\ LocalsOK /\ WorkerOK(w) /\ ReachedBy(w)
      /\ summaryRecord \in [1..MaxComments -> Run \cup {NoRun}]
      /\ inlineRecord \in [1..MaxInline -> Run \cup {NoRun}]
  BY PublishingAssumption DEF TypeInv, TypeOK, LocalsOK, PublishedInv
<1>2. Grows /\ OthersStay(w)
  BY Grow
<1>3. ASSUME UNCHANGED inlineRecord
      PROVE  (\A r : HasInline(r) => HasInline(r)') /\ \A m : Copies(m) \subseteq Copies(m)'
  BY <1>2, <1>3, StaysPublished
(* Most steps write no record and end no attempt.                          *)
<1>4. ASSUME UNCHANGED <<summaryRecord, inlineRecord, completed>>, ReachedBy(w)'
      PROVE  PublishedInv'
  <2>1. CompletedMeansPublished'
    <3>1. \A r \in completed : HasInline(r)' /\ Copies("summary")' # {}
      BY <1>3, <1>4 DEF PublishedInv, CompletedMeansPublished, HasInline
    <3> QED  BY <1>2, <1>3, <1>4, <3>1 DEF PublishedInv, CompletedMeansPublished, HasInline, Grows
  <2> QED  BY <1>2, <1>4, <2>1, ReachedKept
<1>5. ASSUME UNCHANGED <<summaryRecord, inlineRecord, completed>>,
             wPc'[w] \notin {"inlineRead", "inlineRecord", "summaryList", "summaryWrite", "summaryRecord"},
             wStatus'[w] # "completed"
      PROVE  PublishedInv'
  BY <1>4, <1>5 DEF ReachedBy
<1>6. CASE \E r \in Run : StartAttempt(w, r)
  BY <1>1, <1>5, <1>6 DEF StartAttempt, Publish, Goto, LocalsOK
<1>7. CASE ProgressList(w)
  <2>1. UNCHANGED <<summaryRecord, inlineRecord, completed, wRun, wStatus>> /\ wPc'[w] = "progressWrite"
    BY <1>1, <1>7 DEF ProgressList, Goto, LocalsOK
  <2>2. ReachedBy(w)'
    BY <1>1, <1>3, <2>1 DEF ReachedBy, HasInline
  <2> QED  BY <1>4, <2>1, <2>2
<1>8. CASE ProgressWrite(w) \/ ProgressNotPublished(w)
  <2>1. /\ UNCHANGED <<summaryRecord, inlineRecord>> /\ wPc'[w] \in {"analyse", "inlineList", "idle"}
        /\ wStatus'[w] = "none"
        /\ completed' = IF wStatus[w] = "completed" THEN completed \cup {wRun[w]} ELSE completed
    BY <1>1, <1>8 DEF ProgressWrite, ProgressNotPublished, AfterProgress, Forget, End, Goto, LocalsOK
  <2>2. ReachedBy(w)'
    BY <2>1 DEF ReachedBy
  <2>3. \A r \in completed' : HasInline(r)' /\ Copies("summary")' # {}
    <3>1. \A r \in completed : HasInline(r) /\ Copies("summary") # {}
      BY DEF PublishedInv, CompletedMeansPublished, HasInline
    <3>2. wStatus[w] = "completed" => HasInline(wRun[w]) /\ Copies("summary") # {}
      BY <1>1 DEF ReachedBy
    <3>3. \A r \in completed' : HasInline(r) /\ Copies("summary") # {}
      BY <2>1, <3>1, <3>2
    <3> QED  BY <1>3, <2>1, <3>3
  <2>4. CompletedMeansPublished'
    BY <1>2, <1>3, <2>1, <2>3 DEF PublishedInv, CompletedMeansPublished, HasInline, Grows
  <2> QED  BY <1>2, <2>1, <2>2, <2>4, ReachedKept
<1>9. CASE Analyse(w)
  <2>1. CASE Goto(w, "summaryList") /\ Wanted[wRun[w]] = {} /\ wRun' = wRun /\ wStatus' = wStatus
    <3>1. UNCHANGED <<summaryRecord, inlineRecord, completed>> /\ wPc'[w] = "summaryList"
      BY <1>1, <1>9, <2>1 DEF Analyse, Goto, LocalsOK
    <3>2. ReachedBy(w)'
      BY <1>1, <1>3, <2>1, <3>1 DEF ReachedBy, HasInline
    <3> QED  BY <1>4, <3>1, <3>2
  <2>2. CASE Publish(w, "running") \/ Publish(w, "inline") \/ End(w)
    BY <1>1, <1>5, <1>9, <2>2 DEF Analyse, Publish, End, Forget, Goto, LocalsOK
  <2> QED  BY <1>9, <2>1, <2>2 DEF Analyse
<1>10. CASE InlineList(w)
  <2>1. /\ UNCHANGED <<summaryRecord, inlineRecord, completed, wRun, wStatus>> /\ wPc'[w] = "inlinePost"
    BY <1>1, <1>10 DEF InlineList, Goto, LocalsOK
  <2>2. ReachedBy(w)'
    BY <1>1, <1>3, <2>1 DEF ReachedBy, HasInline
  <2> QED  BY <1>4, <2>1, <2>2
<1>11. CASE InlinePost(w)
  <2>1. /\ UNCHANGED <<summaryRecord, inlineRecord, completed, wRun, wStatus>>
        /\ wPc'[w] \in {"inlineRead", "inlineRecord"} /\ wPc[w] = "inlinePost"
        /\ wIds'[w] = wIds[w] \cup (Len(inline) + 1)..Len(inline')
    BY <1>1, <1>11 DEF InlinePost, AfterPost, Goto, LocalsOK
  <2>2. \A k \in Wanted[wRun[w]] : \E i \in wIds'[w] : inline'[i] = k
    <3>1. PICK s \in Orders(Missing(w)) : inline' = inline \o s
      BY <1>11 DEF InlinePost, Posted
    <3>2. Missing(w) \in SUBSET Content /\ IsFiniteSet(Missing(w))
      BY <2>1, MissingComments
    <3>3. \A k \in Missing(w) : \E i \in (Len(inline) + 1)..Len(inline') : inline'[i] = k
      BY <1>1, <3>1, <3>2, PostedReview
    <3>4. \A i \in wIds[w] : inline'[i] = inline[i]
      BY <1>1, <1>2 DEF WorkerOK, Grows
    <3> QED  BY <2>1, <3>3, <3>4 DEF Missing
  <2>3. ReachedBy(w)'
    BY <1>1, <1>3, <2>1, <2>2 DEF ReachedBy, HasInline
  <2> QED  BY <1>4, <2>1, <2>3
<1>12. CASE InlineRead(w)
  <2>1. /\ UNCHANGED <<summaryRecord, inlineRecord, completed, wRun, wStatus, wIds, inline>>
        /\ wPc'[w] = "inlineRecord" /\ wPc[w] = "inlineRead"
    BY <1>1, <1>12 DEF InlineRead, Goto, LocalsOK
  <2>2. ReachedBy(w)'
    BY <1>1, <1>3, <2>1 DEF ReachedBy, HasInline
  <2> QED  BY <1>4, <2>1, <2>2
<1>13. CASE RecordInlineComments(w)
  <2>1. /\ UNCHANGED <<summaryRecord, completed, wRun, wStatus, inline, comments>> /\ wPc'[w] = "summaryList"
        /\ wPc[w] = "inlineRecord" /\ wRun[w] \in Run
        /\ \A i \in 1..MaxInline : inlineRecord'[i] = IF i \in wIds[w] THEN wRun[w] ELSE inlineRecord[i]
    BY <1>1, <1>13 DEF RecordInlineComments, Goto, LocalsOK, WorkerOK
  <2>2. \A i \in 1..MaxInline : inlineRecord[i] # NoRun => inlineRecord'[i] # NoRun
    BY <1>1, <2>1
  <2>3. (\A r : HasInline(r) => HasInline(r)') /\ \A m : Copies(m) \subseteq Copies(m)'
    BY <1>2, <2>2, StaysPublished
  <2>4. HasInline(wRun[w])'
    <3>1. \A k \in Wanted[wRun[w]] : \E i \in wIds[w] : inline[i] = k
      BY <1>1, <2>1 DEF ReachedBy
    <3>2. \A i \in wIds[w] : i \in DOMAIN inline' /\ inlineRecord'[i] # NoRun
      BY <1>1, <2>1 DEF WorkerOK
    <3> QED  BY <2>1, <3>1, <3>2 DEF HasInline
  <2>5. ReachedBy(w)'
    BY <1>1, <2>1, <2>3, <2>4 DEF ReachedBy
  <2>6. \A r \in completed : HasInline(r)' /\ Copies("summary")' # {}
    BY <2>3 DEF PublishedInv, CompletedMeansPublished, HasInline
  <2>7. CompletedMeansPublished'
    BY <1>1, <2>1, <2>3, <2>6 DEF PublishedInv, CompletedMeansPublished, HasInline, WorkerOK
  <2> QED  BY <1>2, <2>2, <2>5, <2>7, ReachedKept
<1>14. CASE SummaryList(w) \/ SummaryWrite(w)
  <2>1. /\ UNCHANGED <<summaryRecord, inlineRecord, completed, wRun, wStatus>>
        /\ wPc[w] \in {"summaryList", "summaryWrite"} /\ wPc'[w] \in {"summaryWrite", "summaryRecord"}
    BY <1>1, <1>14 DEF SummaryList, SummaryWrite, Goto, LocalsOK
  <2>2. ReachedBy(w)'
    BY <1>1, <1>3, <2>1 DEF ReachedBy, HasInline
  <2> QED  BY <1>4, <2>1, <2>2
<1>15. CASE RecordSummaryComment(w)
  <2>1. /\ UNCHANGED <<inlineRecord, completed, wRun, inline, comments>> /\ wPc'[w] = "progressList"
        /\ wPc[w] = "summaryRecord"
        /\ summaryRecord' = [summaryRecord EXCEPT ![wFound[w]] = wRun[w]]
    BY <1>1, <1>15 DEF RecordSummaryComment, Publish, Goto, LocalsOK
  <2>2. wFound[w] \in Copies("summary") /\ wFound[w] \in 1..MaxComments
    BY <1>1, <2>1 DEF WorkerOK, Copies, LocalsOK
  <2>3. ReachedBy(w)'
    BY <1>1, <1>3, <2>1, <2>2 DEF ReachedBy, HasInline
  <2>4. \A i \in 1..MaxComments : summaryRecord'[i] # NoRun => i \in Copies("summary")'
    BY <1>1, <1>3, <2>1, <2>2 DEF PublishedInv, CompletedMeansPublished
  <2>5. CompletedMeansPublished'
    BY <1>3, <2>1, <2>4 DEF PublishedInv, CompletedMeansPublished
  <2> QED  BY <1>2, <2>1, <2>3, <2>5, ReachedKept
<1>16. CASE CallFails(w)
  BY <1>1, <1>5, <1>16 DEF CallFails, OnError, Publish, Goto, LocalsOK
<1>17. CASE Crash(w)
  BY <1>1, <1>5, <1>17 DEF Crash, End, Forget, Goto, LocalsOK
<1> QED
  BY <1>6, <1>7, <1>8, <1>9, <1>10, <1>11, <1>12, <1>13, <1>14, <1>15, <1>16, <1>17 DEF WorkerStep

(* A run that ended normally is on GitHub and in published_comments as a   *)
(* whole, and no record is of a comment that is not there, whatever other  *)
(* attempts, faults, lost replies and crashes do (pipeline.py:1000-1057).  *)
THEOREM SpecCompletedMeansPublished == Spec => []CompletedMeansPublished
<1> USE DEF githubVars, recordVars, historyVars, workerVars
<1>1. Init => PublishedInv
  BY DEF Init, PublishedInv, CompletedMeansPublished, ReachedBy
<1>2. TypeInv /\ PublishedInv /\ [Next]_vars => PublishedInv'
  <2> SUFFICES ASSUME TypeInv, PublishedInv, [Next]_vars PROVE PublishedInv'
    OBVIOUS
  <2>1. ASSUME Grows, UNCHANGED <<inline, summaryRecord, inlineRecord, wPc, wRun, wStatus, wIds, completed>>
        PROVE  PublishedInv'
    <3>1. \A m : Copies(m) \subseteq Copies(m)'
      BY <2>1, StaysPublished
    <3>2. CompletedMeansPublished'
      BY <2>1, <3>1 DEF PublishedInv, CompletedMeansPublished
    <3>3. \A w \in Worker : ReachedBy(w)'
      BY <2>1, <3>1 DEF PublishedInv, ReachedBy, HasInline
    <3> QED  BY <3>2, <3>3 DEF PublishedInv
  <2>2. CASE SomebodyComments
    BY <2>1, <2>2, OthersComment DEF SomebodyComments
  <2>3. CASE UNCHANGED <<comments, inline>>
             /\ UNCHANGED <<summaryRecord, inlineRecord, wPc, wRun, wStatus, wIds, completed>>
    BY <2>1, <2>3 DEF Grows, TypeInv, TypeOK
  <2>4. CASE UNCHANGED vars
    BY <2>3, <2>4 DEF vars
  <2>5. ASSUME NEW w \in Worker, TokenExpires(w) PROVE PublishedInv'
    BY <2>3, <2>5 DEF TokenExpires
  <2> QED  BY <2>2, <2>4, <2>5, PublishedWorkerStep DEF Next, WorkerStep
<1>3. PublishedInv => CompletedMeansPublished
  BY DEF PublishedInv
<1> QED
  BY <1>1, <1>2, <1>3, SpecTypeInv, PTL DEF Spec
-----------------------------------------------------------------------------
LEMMA Lonely ==
  ASSUME TypeInv, width <= 1, NEW v \in Busy, NEW w \in Busy
  PROVE  v = w
<1>1. SUFFICES ASSUME v # w PROVE FALSE
  OBVIOUS
<1>2. IsFiniteSet({v, w}) /\ Cardinality({v, w}) = 2
  <2>1. {v, w} = {v} \cup {w} /\ w \notin {v}
    BY <1>1
  <2>2. IsFiniteSet({v}) /\ Cardinality({v}) = 1
    BY FS_Singleton
  <2>3. IsFiniteSet({v} \cup {w}) /\ Cardinality({v} \cup {w}) = Cardinality({v}) + 1
    BY <2>1, <2>2, FS_AddElement
  <2> QED  BY <2>1, <2>2, <2>3
<1>3. {v, w} \in SUBSET Busy
  OBVIOUS
<1>4. 2 <= Cardinality(Busy)
  BY <1>2, <1>3, BusyWorkers, FS_Subset
<1> QED
  BY <1>4, BusyWorkers DEF TypeInv, TypeOK

(* While at most one attempt has been at work at a time, the record of a   *)
(* summary comment names the run it shows, unless the attempt that wrote it*)
(* is about to record it, or could not.                                    *)
RecordedInv ==
  width <= 1 =>
    /\ \A w \in Worker : At(w, "summaryRecord") => comments[wFound[w]].run = wRun[w]
    /\ \A i \in Copies("summary") \ unrecorded :
         \/ summaryRecord[i] = comments[i].run
         \/ \E w \in Worker : At(w, "summaryRecord") /\ wFound[w] = i

LEMMA RecordedWorkerStep ==
  ASSUME TypeInv, RecordedInv, NEW w \in Worker, WorkerStep(w)
  PROVE  RecordedInv'
<1> USE DEF githubVars, recordVars, historyVars, At
<1>1. /\ comments \in Seq(Comment) /\ Len(comments) \in Nat /\ DOMAIN comments = 1..Len(comments)
      /\ width \in Nat /\ LocalsOK /\ WorkerOK(w)
      /\ summaryRecord \in [1..MaxComments -> Run \cup {NoRun}]
  BY BusyWorkers DEF TypeInv, TypeOK, LocalsOK
<1>2. Grows /\ OthersStay(w)
  BY Grow
<1>3. SUFFICES ASSUME width' <= 1 PROVE RecordedInv'
  BY DEF RecordedInv
<1>4. width <= width'
  BY <1>1, BusyWorkers
     DEF WorkerStep, StartAttempt, ProgressList, ProgressWrite, ProgressNotPublished, Analyse, InlineList,
     InlinePost, InlineRead, RecordInlineComments, SummaryList, SummaryWrite, RecordSummaryComment, CallFails, Crash
<1>5. /\ width <= 1
      /\ \A v \in Worker : wPc[v] = "summaryRecord" => comments[wFound[v]].run = wRun[v]
      /\ \A i \in Copies("summary") \ unrecorded :
           \/ summaryRecord[i] = comments[i].run
           \/ \E v \in Worker : wPc[v] = "summaryRecord" /\ wFound[v] = i
  <2>1. width <= 1
    BY <1>1, <1>3, <1>4, BusyWorkers DEF WorkerStep, StartAttempt, ProgressList, ProgressWrite, ProgressNotPublished,
     Analyse, InlineList, InlinePost, InlineRead, RecordInlineComments, SummaryList, SummaryWrite,
     RecordSummaryComment, CallFails, Crash
  <2> QED  BY <2>1 DEF RecordedInv
<1>6. wPc[w] # "idle" => \A v \in Worker \ {w} : wPc[v] = "idle" /\ wPc'[v] = "idle"
  BY <1>2, <1>5, Lonely DEF Busy, OthersStay
<1>7. ASSUME UNCHANGED <<comments, summaryRecord, unrecorded>>,
             wPc[w] # "summaryRecord", wPc'[w] # "summaryRecord"
      PROVE  RecordedInv'
  BY <1>2, <1>5, <1>7 DEF RecordedInv, OthersStay, Copies
<1>8. CASE (\E r \in Run : StartAttempt(w, r)) \/ ProgressList(w) \/ ProgressNotPublished(w) \/ Analyse(w)
           \/ InlineList(w) \/ InlinePost(w) \/ InlineRead(w) \/ RecordInlineComments(w) \/ SummaryList(w)
  <2>1. UNCHANGED <<comments, summaryRecord, unrecorded>> /\ wPc[w] # "summaryRecord"
    BY <1>8 DEF StartAttempt, ProgressList, ProgressNotPublished, Analyse, InlineList, InlinePost, InlineRead,
       RecordInlineComments, SummaryList
  <2>2. wPc'[w] # "summaryRecord"
    BY <1>1, <1>8 DEF StartAttempt, ProgressList, ProgressNotPublished, Analyse, InlineList, InlinePost, InlineRead,
       RecordInlineComments, SummaryList, Publish, End, AfterProgress, AfterPost, Goto, LocalsOK
  <2> QED  BY <1>7, <2>1, <2>2
<1>9. CASE ProgressWrite(w)
  <2>1. /\ wPc[w] = "progressWrite" /\ UNCHANGED <<summaryRecord, unrecorded>> /\ wPc'[w] # "summaryRecord"
        /\ RoomFor(wFound[w]) /\ comments' = Written(wFound[w], ProgressComment(w))
    BY <1>1, <1>9 DEF ProgressWrite, AfterProgress, End, Goto, LocalsOK
  <2>2. ProgressComment(w) \in Comment /\ ProgressComment(w).marker = "scanning"
        /\ "scanning" = (IF wPc[w] = "summaryWrite" THEN "summary" ELSE "scanning")
    BY <2>1, OwnComments
  <2>3. /\ DOMAIN comments' = DOMAIN comments \cup {SummaryId(w)}
        /\ comments'[SummaryId(w)].marker = "scanning"
        /\ \A i \in DOMAIN comments : i # SummaryId(w) => comments'[i] = comments[i]
        /\ \A i \in DOMAIN comments : comments'[i].marker = comments[i].marker
    BY <2>1, <2>2, CommentWritten
  <2>4. Copies("summary")' = Copies("summary")
    BY <2>3 DEF Copies
  <2>5. \A i \in Copies("summary") : comments'[i] = comments[i]
    BY <2>3 DEF Copies
  <2> QED  BY <1>2, <1>5, <1>6, <2>1, <2>4, <2>5 DEF RecordedInv, OthersStay
<1>10. ASSUME wPc[w] = "summaryWrite", RoomFor(wFound[w]), comments' = Written(wFound[w], SummaryComment(w))
       PROVE  /\ DOMAIN comments' = DOMAIN comments \cup {SummaryId(w)} /\ SummaryId(w) \in 1..MaxComments
              /\ comments'[SummaryId(w)].run = wRun[w]
              /\ \A i \in DOMAIN comments : i # SummaryId(w) => comments'[i] = comments[i]
              /\ \A i \in Copies("summary")' \ {SummaryId(w)} : i \in Copies("summary") /\ comments'[i] = comments[i]
  <2>1. SummaryComment(w) \in Comment /\ SummaryComment(w).marker = "summary" /\ SummaryComment(w).run = wRun[w]
        /\ "summary" = (IF wPc[w] = "summaryWrite" THEN "summary" ELSE "scanning")
    BY <1>10, OwnComments
  <2>2. /\ DOMAIN comments' = DOMAIN comments \cup {SummaryId(w)} /\ SummaryId(w) \in 1..MaxComments
        /\ comments'[SummaryId(w)] = SummaryComment(w)
        /\ \A i \in DOMAIN comments : i # SummaryId(w) => comments'[i] = comments[i]
    BY <1>10, <2>1, CommentWritten
  <2> QED  BY <2>1, <2>2 DEF Copies
<1>11. CASE SummaryWrite(w)
  <2>1. /\ wPc[w] = "summaryWrite" /\ UNCHANGED <<summaryRecord, unrecorded, wRun>> /\ wPc'[w] = "summaryRecord"
        /\ RoomFor(wFound[w]) /\ comments' = Written(wFound[w], SummaryComment(w)) /\ wFound'[w] = SummaryId(w)
    BY <1>1, <1>11 DEF SummaryWrite, Goto, LocalsOK
  <2> QED  BY <1>2, <1>5, <1>6, <1>10, <2>1 DEF RecordedInv, OthersStay
<1>12. CASE RecordSummaryComment(w)
  <2>1. /\ wPc[w] = "summaryRecord" /\ UNCHANGED <<comments, wRun>> /\ wPc'[w] = "progressList"
        /\ unrecorded' = unrecorded \ {wFound[w]} /\ wFound[w] \in 1..MaxComments
        /\ summaryRecord' = [summaryRecord EXCEPT ![wFound[w]] = wRun[w]]
    BY <1>1, <1>12 DEF RecordSummaryComment, Publish, Goto, LocalsOK, WorkerOK
  <2>2. \A v \in Worker : wPc[v] = "summaryRecord" => v = w
    BY <1>6, <2>1
  <2>3. \A v \in Worker : wPc'[v] # "summaryRecord"
    BY <1>2, <2>1, <2>2 DEF OthersStay
  <2>4. summaryRecord'[wFound[w]] = comments[wFound[w]].run
    BY <1>1, <1>5, <2>1
  <2>5. ASSUME NEW i \in Copies("summary")' \ unrecorded'
        PROVE  summaryRecord'[i] = comments'[i].run
    <3>1. CASE i = wFound[w]
      BY <2>1, <2>4, <3>1
    <3>2. CASE i # wFound[w]
      <4>1. i \in Copies("summary") \ unrecorded
        BY <2>1, <2>5, <3>2 DEF Copies
      <4>2. summaryRecord[i] = comments[i].run
        BY <1>5, <2>2, <3>2, <4>1
      <4> QED  BY <1>1, <2>1, <3>2, <4>2
    <3> QED  BY <3>1, <3>2
  <2> QED  BY <2>3, <2>5 DEF RecordedInv
<1>13. CASE CallFails(w)
  <2>1. wPc'[w] = "progressList" /\ UNCHANGED summaryRecord /\ wPc[w] # "idle"
    BY <1>1, <1>13 DEF CallFails, OnError, Publish, Goto, LocalsOK
  <2>2. CASE UNCHANGED comments /\ unrecorded' = Unrecorded(w)
    BY <1>2, <1>5, <1>6, <2>1, <2>2 DEF RecordedInv, OthersStay, Copies, Unrecorded
  <2>3. CASE UNCHANGED <<comments, unrecorded>> /\ wPc[w] # "summaryRecord"
    BY <1>7, <2>1, <2>3
  <2>4. CASE /\ wPc[w] = "summaryWrite" /\ RoomFor(wFound[w])
             /\ comments' = Written(wFound[w], SummaryComment(w))
             /\ unrecorded' = unrecorded \cup {SummaryId(w)}
    BY <1>2, <1>5, <1>6, <1>10, <2>1, <2>4 DEF RecordedInv, OthersStay
  <2> QED  BY <1>13, <2>2, <2>3, <2>4 DEF CallFails
<1>14. CASE Crash(w)
  <2>1. /\ wPc'[w] = "idle" /\ UNCHANGED <<summaryRecord, comments>> /\ wPc[w] # "idle"
        /\ unrecorded' = Unrecorded(w)
    BY <1>1, <1>14 DEF Crash, End, Goto, LocalsOK
  <2> QED  BY <1>2, <1>5, <1>6, <2>1 DEF RecordedInv, OthersStay, Copies, Unrecorded
<1> QED
  BY <1>8, <1>9, <1>11, <1>12, <1>13, <1>14 DEF WorkerStep

(* As long as attempts take turns, published_comments gives for a summary  *)
(* comment the run GitHub shows in it, except where the last writer could  *)
(* not record it (pipeline.py:1040-1057).                                  *)
THEOREM SpecRecordNamesTheRunShown == Spec => []RecordNamesTheRunShown
<1> USE DEF githubVars, recordVars, historyVars, workerVars
<1>1. Init => RecordedInv
  BY DEF Init, RecordedInv, At, Copies
<1>2. TypeInv /\ RecordedInv /\ [Next]_vars => RecordedInv'
  <2> SUFFICES ASSUME TypeInv, RecordedInv, [Next]_vars PROVE RecordedInv'
    OBVIOUS
  <2>1. CASE SomebodyComments
    <3>1. UNCHANGED <<summaryRecord, unrecorded, wPc, wRun, wFound, width>>
      BY <2>1 DEF SomebodyComments
    <3>2. /\ DOMAIN comments' = DOMAIN comments \cup {Len(comments) + 1}
          /\ \A i \in DOMAIN comments : comments'[i] = comments[i]
          /\ comments'[Len(comments) + 1].marker = "none"
      BY <2>1, OthersComment
    <3>3. Copies("summary")' \subseteq Copies("summary")
      BY <3>2 DEF Copies
    <3>4. \A i \in Copies("summary") : comments'[i] = comments[i]
      BY <3>2 DEF Copies
    <3>5. \A w \in Worker : At(w, "summaryRecord") => wFound[w] \in Copies("summary")
      BY DEF TypeInv, TypeOK, WorkerOK, At, Copies
    <3> QED  BY <3>1, <3>3, <3>4, <3>5 DEF RecordedInv, At
  <2>2. CASE UNCHANGED <<comments, summaryRecord, unrecorded, wPc, wRun, wFound, width>>
    BY <2>2 DEF RecordedInv, At, Copies
  <2>3. CASE UNCHANGED vars
    BY <2>2, <2>3 DEF vars
  <2>4. ASSUME NEW w \in Worker, TokenExpires(w) PROVE RecordedInv'
    BY <2>2, <2>4 DEF TokenExpires
  <2> QED  BY <2>1, <2>3, <2>4, RecordedWorkerStep DEF Next, WorkerStep
<1>3. RecordedInv => RecordNamesTheRunShown
  BY DEF RecordedInv, RecordNamesTheRunShown
<1> QED
  BY <1>1, <1>2, <1>3, SpecTypeInv, PTL DEF Spec
-----------------------------------------------------------------------------
(* An attempt that has met no other still finds the comment it is about to *)
(* write, so that its last progress is the one shown.                      *)
ProgressInv ==
  /\ \A v, w \in Busy : v # w => sideBySide
  /\ ~sideBySide => \A w \in Worker : At(w, "progressWrite") => wFound[w] = ExistingId("scanning")
  /\ ProgressCommentEnds

(* With the same comments on the page the same one is found.               *)
LEMMA FoundAgain ==
  ASSUME comments \in Seq(Comment), comments' \in Seq(Comment), NEW m,
         MarkerOnPage(m)' = MarkerOnPage(m)
  PROVE  ExistingId(m)' = ExistingId(m)
BY DEF ExistingId

LEMMA ProgressWorkerStep ==
  ASSUME TypeInv, ProgressInv, NEW w \in Worker, WorkerStep(w)
  PROVE  ProgressInv'
<1> USE DEF githubVars, recordVars, historyVars, At
<1>1. /\ comments \in Seq(Comment) /\ Len(comments) \in Nat /\ DOMAIN comments = 1..Len(comments)
      /\ LocalsOK /\ WorkerOK(w) /\ PageSize \in Nat
  BY PublishingAssumption DEF TypeInv, TypeOK, LocalsOK
<1>2. Grows /\ OthersStay(w)
  BY Grow
<1>3. CASE \E r \in Run : StartAttempt(w, r)
  <2>1. /\ sideBySide' = (Busy # {}) /\ wPc'[w] = "progressList" /\ wPc[w] = "idle"
    BY <1>1, <1>3, Zenon DEF StartAttempt, Publish, Goto, LocalsOK
  <2>2. Busy' = Busy \cup {w}
    BY <1>2, <2>1 DEF Busy, OthersStay
  <2>3. \A v, u \in Busy' : v # u => sideBySide'
    BY <2>1, <2>2
  <2>4. ~sideBySide' => \A v \in Worker : wPc'[v] # "progressWrite"
    BY <2>1, <2>2 DEF Busy
  <2>5. ProgressCommentEnds'
    BY <2>2 DEF ProgressCommentEnds
  <2> QED  BY <2>3, <2>4, <2>5 DEF ProgressInv
<1>4. ASSUME wPc[w] # "idle"
      PROVE  ~sideBySide => \A v \in Worker \ {w} : wPc[v] = "idle" /\ wPc'[v] = "idle"
  BY <1>2, <1>4 DEF ProgressInv, Busy, OthersStay
(* A step within an attempt, or the end of one.                            *)
<1>5. ASSUME wPc[w] # "idle", UNCHANGED sideBySide,
             wPc'[w] = "progressWrite" /\ ~sideBySide => wFound'[w] = ExistingId("scanning")',
             wPc'[w] = "idle" /\ Busy' = {} => ProgressCommentEnds'
      PROVE  ProgressInv'
  <2>1. Busy' \subseteq Busy
    BY <1>2, <1>5 DEF Busy, OthersStay
  <2>2. \A v, u \in Busy' : v # u => sideBySide'
    BY <1>5, <2>1 DEF ProgressInv
  <2>3. ~sideBySide' => \A v \in Worker : wPc'[v] = "progressWrite" => wFound'[v] = ExistingId("scanning")'
    BY <1>4, <1>5
  <2>4. Busy' = {} => wPc'[w] = "idle"
    BY DEF Busy
  <2>5. ProgressCommentEnds'
    BY <1>5, <2>4 DEF ProgressCommentEnds
  <2> QED  BY <2>2, <2>3, <2>5 DEF ProgressInv
<1>6. CASE ProgressList(w)
  <2>1. /\ wPc[w] = "progressList" /\ wPc'[w] = "progressWrite" /\ UNCHANGED <<sideBySide, comments>>
        /\ wFound'[w] = ExistingId("scanning")
    BY <1>1, <1>6 DEF ProgressList, Goto, LocalsOK
  <2>2. ExistingId("scanning")' = ExistingId("scanning")
    BY <1>1, <2>1, FoundAgain DEF MarkerOnPage
  <2> QED  BY <1>5, <2>1, <2>2
<1>7. CASE ProgressWrite(w)
  <2> DEFINE c == ProgressComment(w)
  <2>1. /\ wPc[w] = "progressWrite" /\ wPc'[w] # "progressWrite" /\ UNCHANGED sideBySide
        /\ RoomFor(wFound[w]) /\ comments' = Written(wFound[w], c)
        /\ (Final(w) => excused' = sideBySide) /\ wStatus[w] # "none"
    <3>1. wPc[w] = "progressWrite" /\ wPc'[w] # "progressWrite" /\ UNCHANGED sideBySide
          /\ RoomFor(wFound[w]) /\ comments' = Written(wFound[w], c)
      BY <1>1, <1>7 DEF ProgressWrite, AfterProgress, End, Goto, LocalsOK
    <3>2. Final(w) => excused' = sideBySide
      BY <1>7, Zenon DEF ProgressWrite
    <3>3. wStatus[w] # "none"
      BY <1>1, <3>1 DEF WorkerOK
    <3> QED  BY <3>1, <3>2, <3>3
  <2>2. ASSUME wPc'[w] = "idle", Busy' = {}
        PROVE  ProgressCommentEnds'
    <3>1. Final(w) /\ c.status # "running"
      <4>1. wStatus[w] \notin {"running", "inline"}
        BY <1>1, <1>7, <2>2 DEF ProgressWrite, AfterProgress, Goto, LocalsOK
      <4>2. Final(w)
        BY <1>1, <2>1, <4>1 DEF Final, LocalsOK
      <4> QED  BY <4>1, <4>2 DEF ProgressComment, Final
    <3>2. c \in Comment /\ c.marker = "scanning"
          /\ "scanning" = (IF wPc[w] = "summaryWrite" THEN "summary" ELSE "scanning")
      BY <2>1, OwnComments
    <3> HIDE DEF c
    <3>3. /\ DOMAIN comments' = DOMAIN comments \cup {SummaryId(w)} /\ comments'[SummaryId(w)] = c
          /\ \A i \in DOMAIN comments : i # SummaryId(w) => comments'[i] = comments[i]
          /\ comments' \in Seq(Comment)
      BY <2>1, <3>2, CommentWritten
    <3>4. SUFFICES ASSUME ~sideBySide, ExistingId("scanning")' # 0
                   PROVE  ExistingId("scanning")' = SummaryId(w)
      BY <2>1, <3>1, <3>3 DEF ProgressCommentEnds
    <3>5. wFound[w] = ExistingId("scanning")
      BY <2>1, <3>4 DEF ProgressInv
    <3>6. CASE wFound[w] = 0
      <4>1. MarkerOnPage("scanning") = {}
        BY <1>1, <3>5, <3>6, FirstOnPage
      <4>2. MarkerOnPage("scanning")' \subseteq {SummaryId(w)}
        BY <3>3, <4>1 DEF MarkerOnPage
      <4>3. ExistingId("scanning")' \in MarkerOnPage("scanning")'
        <5>1. MarkerOnPage("scanning")' \in SUBSET Nat
          BY <3>3, SMTT(60) DEF MarkerOnPage
        <5> QED  BY <3>4, <5>1, Least DEF ExistingId
      <4> QED  BY <4>2, <4>3
    <3>7. CASE wFound[w] # 0
      <4>1. SummaryId(w) = wFound[w] /\ wFound[w] \in MarkerOnPage("scanning")
        BY <1>1, <3>5, <3>7, FirstOnPage DEF SummaryId
      <4>2. MarkerOnPage("scanning")' = MarkerOnPage("scanning")
        BY <3>2, <3>3, <4>1 DEF MarkerOnPage
      <4> QED  BY <1>1, <3>3, <3>5, <4>1, <4>2, FoundAgain
    <3> QED  BY <3>6, <3>7
  <2> QED  BY <1>5, <2>1, <2>2
<1>8. CASE ProgressNotPublished(w)
  <2>1. /\ wPc[w] \in {"progressList", "progressWrite"} /\ wPc'[w] # "progressWrite" /\ UNCHANGED sideBySide
        /\ wStatus[w] # "none"
    BY <1>1, <1>8 DEF ProgressNotPublished, AfterProgress, End, Goto, LocalsOK, WorkerOK
  <2>2. Final(w) => excused'
    BY <1>8, Zenon DEF ProgressNotPublished
  <2>3. wPc'[w] = "idle" => Final(w)
    BY <1>1, <1>8, <2>1 DEF ProgressNotPublished, AfterProgress, Goto, Final, LocalsOK
  <2> QED  BY <1>5, <2>1, <2>2, <2>3 DEF ProgressCommentEnds
<1>9. CASE Analyse(w)
  <2>1. wPc[w] = "analyse" /\ wPc'[w] # "progressWrite" /\ UNCHANGED sideBySide
    BY <1>1, <1>9 DEF Analyse, Publish, End, Goto, LocalsOK
  <2>2. wPc'[w] = "idle" => excused'
    BY <1>1, <1>9 DEF Analyse, Publish, End, Goto, LocalsOK
  <2> QED  BY <1>5, <2>1, <2>2 DEF ProgressCommentEnds
<1>10. CASE InlineList(w) \/ InlinePost(w) \/ InlineRead(w) \/ RecordInlineComments(w) \/ SummaryList(w)
            \/ SummaryWrite(w) \/ RecordSummaryComment(w) \/ CallFails(w)
  <2>1. wPc[w] # "idle" /\ UNCHANGED sideBySide
    BY <1>10 DEF InlineList, InlinePost, InlineRead, RecordInlineComments, SummaryList, SummaryWrite,
       RecordSummaryComment, CallFails
  <2>2. wPc'[w] \notin {"idle", "progressWrite"}
    BY <1>1, <1>10 DEF InlineList, InlinePost, InlineRead, RecordInlineComments, SummaryList, SummaryWrite,
       RecordSummaryComment, CallFails, OnError, Publish, AfterPost, Goto, LocalsOK
  <2> QED  BY <1>5, <2>1, <2>2
<1>11. CASE Crash(w)
  BY <1>1, <1>5, <1>11 DEF Crash, End, Goto, LocalsOK, ProgressCommentEnds
<1> QED
  BY <1>3, <1>6, <1>7, <1>8, <1>9, <1>10, <1>11 DEF WorkerStep

(* With no attempt at work the progress comment says how the last one      *)
(* ended, unless that one was skipped, died, could not publish its last    *)
(* progress or was side by side with another (pipeline.py:999, 1060, 1083).*)
THEOREM SpecProgressCommentEnds == Spec => []ProgressCommentEnds
<1> USE DEF githubVars, recordVars, historyVars, workerVars
<1>1. Init => ProgressInv
  <2> SUFFICES ASSUME Init PROVE ProgressInv
    OBVIOUS
  <2>1. Busy = {} /\ MarkerOnPage("scanning") = {}
    BY DEF Init, Busy, MarkerOnPage
  <2> QED  BY <2>1 DEF ProgressInv, ProgressCommentEnds, ExistingId, Init, At
<1>2. TypeInv /\ ProgressInv /\ [Next]_vars => ProgressInv'
  <2> SUFFICES ASSUME TypeInv, ProgressInv, [Next]_vars PROVE ProgressInv'
    OBVIOUS
  <2>1. comments \in Seq(Comment)
    BY DEF TypeInv, TypeOK
  <2>2. ASSUME comments' \in Seq(Comment), UNCHANGED <<wPc, wFound, sideBySide, excused>>,
               MarkerOnPage("scanning")' = MarkerOnPage("scanning"),
               \A i \in DOMAIN comments : comments'[i] = comments[i]
        PROVE  ProgressInv'
    <3>1. ExistingId("scanning")' = ExistingId("scanning")
      BY <2>1, <2>2, FoundAgain
    <3>2. ExistingId("scanning") # 0 => ExistingId("scanning") \in DOMAIN comments
      BY <2>1, FirstOnPage DEF MarkerOnPage
    <3> QED  BY <2>2, <3>1, <3>2 DEF ProgressInv, ProgressCommentEnds, Busy, At
  <2>3. CASE SomebodyComments
    <3>1. MarkerOnPage("scanning")' = MarkerOnPage("scanning")
      BY <2>3, OthersComment DEF MarkerOnPage
    <3> QED  BY <2>2, <2>3, <3>1, OthersComment DEF SomebodyComments, Grows
  <2>4. CASE UNCHANGED <<comments, wPc, wFound, sideBySide, excused>>
    BY <2>1, <2>2, <2>4 DEF MarkerOnPage
  <2>5. CASE UNCHANGED vars
    BY <2>4, <2>5 DEF vars
  <2>6. ASSUME NEW w \in Worker, TokenExpires(w) PROVE ProgressInv'
    BY <2>4, <2>6 DEF TokenExpires
  <2> QED  BY <2>3, <2>5, <2>6, ProgressWorkerStep DEF Next, WorkerStep
<1>3. ProgressInv => ProgressCommentEnds
  BY DEF ProgressInv
<1> QED
  BY <1>1, <1>2, <1>3, SpecTypeInv, PTL DEF Spec
-----------------------------------------------------------------------------
(* The attempts about to POST a comment with the marker m, having found    *)
(* none: together with the comments there they are no more than attempts   *)
(* ever were at work at once, as long as a list can find the comment.      *)
Pending(m) ==
  {w \in Worker : wFound[w] = 0 /\ wPc[w] = IF m = "summary" THEN "summaryWrite" ELSE "progressWrite"}
Listed(m) == Len(comments) < PageSize \/ MarkerOnPage(m) # {}
MarkerInv == \A m \in Marker : Listed(m) => Cardinality(Copies(m)) + Cardinality(Pending(m)) <= width

LEMMA Counted ==
  ASSUME TypeInv, NEW m
  PROVE  /\ IsFiniteSet(Copies(m)) /\ Cardinality(Copies(m)) \in Nat
         /\ IsFiniteSet(Pending(m)) /\ Cardinality(Pending(m)) \in Nat
         /\ Cardinality(Pending(m)) <= width /\ width \in Nat
<1>1. DOMAIN comments = 1..Len(comments) /\ Len(comments) \in Nat
  BY DEF TypeInv, TypeOK
<1>2. IsFiniteSet(DOMAIN comments) /\ Copies(m) \in SUBSET DOMAIN comments
  BY <1>1, FS_Interval DEF Copies
<1>3. Pending(m) \in SUBSET Busy
  BY DEF Pending, Busy
<1>4. IsFiniteSet(Copies(m)) /\ IsFiniteSet(Pending(m)) /\ Cardinality(Pending(m)) <= Cardinality(Busy)
  BY <1>2, <1>3, BusyWorkers, FS_Subset
<1>5. Cardinality(Copies(m)) \in Nat /\ Cardinality(Pending(m)) \in Nat
  BY <1>4, FS_CardinalityType
<1> QED
  BY <1>4, <1>5, BusyWorkers DEF TypeInv, TypeOK

LEMMA MarkerWorkerStep ==
  ASSUME TypeInv, MarkerInv, NEW w \in Worker, WorkerStep(w)
  PROVE  MarkerInv'
<1> USE DEF githubVars, recordVars, historyVars, At
<1>1. /\ comments \in Seq(Comment) /\ Len(comments) \in Nat /\ DOMAIN comments = 1..Len(comments)
      /\ width \in Nat /\ width' \in Nat /\ LocalsOK /\ WorkerOK(w) /\ PageSize \in Nat
  <2>1. width \in Nat /\ width' \in Nat
    BY WorkerTypeInv, BusyWorkers DEF TypeInv, TypeOK
  <2> QED  BY <2>1, PublishingAssumption DEF TypeInv, TypeOK, LocalsOK
<1>2. OthersStay(w) /\ Grows
  BY Grow
<1>3. width <= width'
  BY <1>1, BusyWorkers
     DEF WorkerStep, StartAttempt, ProgressList, ProgressWrite, ProgressNotPublished, Analyse, InlineList,
     InlinePost, InlineRead, RecordInlineComments, SummaryList, SummaryWrite, RecordSummaryComment, CallFails, Crash
<1>4. TypeInv'
  BY WorkerTypeInv
(* No new comment with the marker, and no new attempt about to write one.  *)
<1>5. ASSUME NEW m \in Marker, Copies(m)' = Copies(m), Pending(m)' \subseteq Pending(m), Listed(m)' => Listed(m)
      PROVE  Listed(m)' => Cardinality(Copies(m)') + Cardinality(Pending(m)') <= width'
  <2>1. Cardinality(Pending(m)') <= Cardinality(Pending(m)) /\ Cardinality(Pending(m)') \in Nat
    BY <1>5, Counted, FS_Subset, FS_CardinalityType
  <2> QED  BY <1>1, <1>3, <1>5, <2>1, Counted DEF MarkerInv
<1>6. ASSUME UNCHANGED comments,
             wPc'[w] \notin {"progressWrite", "summaryWrite"}
      PROVE  MarkerInv'
  <2> SUFFICES ASSUME NEW m \in Marker
               PROVE  Listed(m)' => Cardinality(Copies(m)') + Cardinality(Pending(m)') <= width'
    BY DEF MarkerInv
  <2>1. Copies(m)' = Copies(m) /\ (Listed(m)' => Listed(m))
    BY <1>6 DEF Copies, Listed, MarkerOnPage
  <2>2. Pending(m)' \subseteq Pending(m)
    BY <1>2, <1>6 DEF Pending, OthersStay
  <2> QED  BY <1>5, <2>1, <2>2
(* A list that finds nothing: there is no comment, since all of them would *)
(* be on the page.                                                         *)
<1>7. ASSUME NEW mk \in Marker, UNCHANGED comments, wFound'[w] = ExistingId(mk),
             wPc'[w] = IF mk = "summary" THEN "summaryWrite" ELSE "progressWrite"
      PROVE  MarkerInv'
  <2> SUFFICES ASSUME NEW m \in Marker, Listed(m)'
               PROVE  Cardinality(Copies(m)') + Cardinality(Pending(m)') <= width'
    BY DEF MarkerInv
  <2>1. Copies(m)' = Copies(m) /\ Listed(m)
    BY <1>7 DEF Copies, Listed, MarkerOnPage
  <2>2. CASE m = mk /\ ExistingId(m) = 0
    <3>1. MarkerOnPage(m) = {}
      BY <1>1, <2>2, FirstOnPage
    <3>2. Copies(m) = {}
      BY <1>1, <2>1, <3>1 DEF Listed, MarkerOnPage, Copies
    <3>3. Cardinality(Copies(m)') = 0
      BY <2>1, <3>2, FS_EmptySet
    <3>4. Pending(m)' \in SUBSET (Busy')
      BY DEF Pending, Busy
    <3>5. IsFiniteSet(Busy') /\ Cardinality(Busy') \in Nat /\ Cardinality(Busy') <= width'
      <4>1. Busy' \in SUBSET Worker
        BY DEF Busy
      <4> QED  BY <1>4, <4>1, BusyWorkers, FS_Subset, FS_CardinalityType DEF TypeInv
    <3>6. Cardinality(Pending(m)') <= Cardinality(Busy') /\ Cardinality(Pending(m)') \in Nat
      BY <3>4, <3>5, FS_Subset, FS_CardinalityType
    <3> QED  BY <1>1, <3>3, <3>5, <3>6
  <2>3. CASE m # mk \/ ExistingId(m) # 0
    <3>1. Pending(m)' \subseteq Pending(m)
      BY <1>2, <1>7, <2>3 DEF Pending, OthersStay, Marker
    <3> QED  BY <1>5, <2>1, <3>1
  <2> QED  BY <2>2, <2>3
(* A write: the comment it creates, if any, was counted as pending.        *)
<1>8. ASSUME NEW mk \in Marker, wPc[w] = (IF mk = "summary" THEN "summaryWrite" ELSE "progressWrite"),
             wPc'[w] \notin {"progressWrite", "summaryWrite"}, RoomFor(wFound[w]),
             NEW c \in Comment, c.marker = mk, comments' = Written(wFound[w], c)
      PROVE  MarkerInv'
  <2> SUFFICES ASSUME NEW m \in Marker, Listed(m)'
               PROVE  Cardinality(Copies(m)') + Cardinality(Pending(m)') <= width'
    BY DEF MarkerInv
  <2>1. /\ DOMAIN comments' = DOMAIN comments \cup {SummaryId(w)} /\ comments'[SummaryId(w)] = c
        /\ \A i \in DOMAIN comments : comments'[i].marker = comments[i].marker
        /\ Len(comments) <= Len(comments') /\ comments' \in Seq(Comment)
    <3>1. wPc[w] \in {"progressWrite", "summaryWrite"}
          /\ c.marker = (IF wPc[w] = "summaryWrite" THEN "summary" ELSE "scanning")
      BY <1>8 DEF Marker
    <3> QED  BY <1>8, <3>1, CommentWritten
  <2>2. Pending(m)' \subseteq Pending(m)
    BY <1>2, <1>8 DEF Pending, OthersStay
  <2>3. CASE wFound[w] # 0 \/ m # mk
    <3>1. wFound[w] # 0 => SummaryId(w) \in DOMAIN comments
      BY <1>1 DEF SummaryId, WorkerOK, LocalsOK
    <3>2. Copies(m)' = Copies(m) /\ MarkerOnPage(m)' = MarkerOnPage(m)
      BY <1>8, <2>1, <2>3, <3>1 DEF Copies, MarkerOnPage
    <3>3. Listed(m)
      BY <1>1, <2>1, <3>2 DEF Listed
    <3> QED  BY <1>5, <2>2, <3>2, <3>3
  <2>4. CASE wFound[w] = 0 /\ m = mk
    <3>1. SummaryId(w) = Len(comments) + 1 /\ SummaryId(w) \notin DOMAIN comments
      BY <1>1, <2>4 DEF SummaryId
    <3>2. Copies(m)' = Copies(m) \cup {SummaryId(w)} /\ SummaryId(w) \notin Copies(m)
      BY <1>8, <2>1, <2>4, <3>1 DEF Copies
    <3>3. Listed(m)
      BY <1>1, <2>1, <3>1 DEF Listed, MarkerOnPage
    <3>4. Pending(m)' \in SUBSET (Pending(m) \ {w}) /\ w \in Pending(m)
      BY <1>2, <1>8, <2>2, <2>4 DEF Pending
    <3>5. Cardinality(Copies(m)') = Cardinality(Copies(m)) + 1
      BY <3>2, Counted, FS_AddElement
    <3>6. IsFiniteSet(Pending(m) \ {w}) /\ Cardinality(Pending(m) \ {w}) = Cardinality(Pending(m)) - 1
      BY <3>4, Counted, FS_RemoveElement
    <3>7. Cardinality(Pending(m)') <= Cardinality(Pending(m)) - 1 /\ Cardinality(Pending(m)') \in Nat
      BY <3>4, <3>6, FS_Subset, FS_CardinalityType
    <3>8. Cardinality(Copies(m)) + Cardinality(Pending(m)) <= width
      BY <3>3 DEF MarkerInv
    <3> QED  BY <1>1, <1>3, <3>5, <3>7, <3>8, Counted
  <2> QED  BY <2>3, <2>4
<1>9. CASE (\E r \in Run : StartAttempt(w, r)) \/ ProgressNotPublished(w) \/ Analyse(w) \/ InlineList(w)
           \/ InlinePost(w) \/ InlineRead(w) \/ RecordInlineComments(w) \/ RecordSummaryComment(w) \/ Crash(w)
  <2>1. UNCHANGED comments
    BY <1>9 DEF StartAttempt, ProgressNotPublished, Analyse, InlineList, InlinePost, InlineRead,
       RecordInlineComments, RecordSummaryComment, Crash
  <2>2. wPc'[w] \notin {"progressWrite", "summaryWrite"}
    BY <1>1, <1>9 DEF StartAttempt, ProgressNotPublished, Analyse, InlineList, InlinePost, InlineRead,
       RecordInlineComments, RecordSummaryComment, Crash, Publish, End, AfterProgress, AfterPost, Goto, LocalsOK
  <2> QED  BY <1>6, <2>1, <2>2
<1>10. CASE ProgressList(w)
  <2>1. UNCHANGED comments /\ wFound'[w] = ExistingId("scanning") /\ wPc'[w] = "progressWrite"
        /\ "scanning" \in Marker
    BY <1>1, <1>10 DEF ProgressList, Goto, LocalsOK, Marker
  <2> QED  BY <1>7, <2>1
<1>11. CASE SummaryList(w)
  <2>1. UNCHANGED comments /\ wFound'[w] = ExistingId("summary") /\ wPc'[w] = "summaryWrite"
        /\ "summary" \in Marker
    BY <1>1, <1>11 DEF SummaryList, Goto, LocalsOK, Marker
  <2> QED  BY <1>7, <2>1
<1>12. CASE ProgressWrite(w)
  <2>1. wPc[w] = "progressWrite" /\ wPc'[w] \notin {"progressWrite", "summaryWrite"} /\ RoomFor(wFound[w])
        /\ comments' = Written(wFound[w], ProgressComment(w)) /\ "scanning" \in Marker
    BY <1>1, <1>12 DEF ProgressWrite, AfterProgress, End, Goto, LocalsOK, Marker
  <2>2. ProgressComment(w) \in Comment /\ ProgressComment(w).marker = "scanning"
    BY <2>1, OwnComments
  <2> QED  BY <1>8, <2>1, <2>2
<1>13. ASSUME wPc[w] = "summaryWrite", wPc'[w] \notin {"progressWrite", "summaryWrite"}, RoomFor(wFound[w]),
              comments' = Written(wFound[w], SummaryComment(w))
       PROVE  MarkerInv'
  <2>1. SummaryComment(w) \in Comment /\ SummaryComment(w).marker = "summary" /\ "summary" \in Marker
    BY <1>13, OwnComments DEF Marker
  <2> QED  BY <1>8, <1>13, <2>1
<1>14. CASE SummaryWrite(w)
  BY <1>1, <1>13, <1>14 DEF SummaryWrite, Goto, LocalsOK
<1>15. CASE CallFails(w)
  <2>1. wPc'[w] = "progressList"
    BY <1>1, <1>15 DEF CallFails, OnError, Publish, Goto, LocalsOK
  <2> QED  BY <1>6, <1>13, <1>15, <2>1 DEF CallFails
<1> QED
  BY <1>9, <1>10, <1>11, <1>12, <1>14, <1>15 DEF WorkerStep

(* A marker comment on the first page is the only one of its kind, or one  *)
(* of as many as attempts were at work at once: no re-attempt, lost reply  *)
(* or later run adds another (pipeline.py:246, 283).                       *)
THEOREM SpecOneCommentPerMarker == Spec => []OneCommentPerMarker
<1> USE DEF githubVars, recordVars, historyVars, workerVars
<1>1. Init => MarkerInv
  <2> SUFFICES ASSUME Init, NEW m \in Marker PROVE Cardinality(Copies(m)) + Cardinality(Pending(m)) <= width
    BY DEF MarkerInv
  <2>1. Copies(m) = {} /\ Pending(m) = {} /\ width = 0
    BY DEF Init, Copies, Pending
  <2> QED  BY <2>1, FS_EmptySet
<1>2. TypeInv /\ MarkerInv /\ [Next]_vars => MarkerInv'
  <2> SUFFICES ASSUME TypeInv, MarkerInv, [Next]_vars PROVE MarkerInv'
    OBVIOUS
  <2>1. ASSUME UNCHANGED <<wPc, wFound, width>>,
               \A m \in Marker : Copies(m)' = Copies(m) /\ (Listed(m)' => Listed(m))
        PROVE  MarkerInv'
    <3>1. \A m : Pending(m)' = Pending(m)
      BY <2>1 DEF Pending
    <3> QED  BY <2>1, <3>1 DEF MarkerInv
  <2>2. CASE SomebodyComments
    <3>1. \A m \in Marker : Copies(m)' = Copies(m) /\ MarkerOnPage(m)' = MarkerOnPage(m)
      BY <2>2, OthersComment DEF Copies, MarkerOnPage, Marker
    <3>2. Len(comments') < PageSize => Len(comments) < PageSize
      BY <2>2, OthersComment, PublishingAssumption DEF TypeInv, TypeOK, Grows
    <3> QED  BY <2>1, <2>2, <3>1, <3>2 DEF SomebodyComments, Listed
  <2>3. CASE UNCHANGED <<comments, wPc, wFound, width>>
    BY <2>1, <2>3 DEF Copies, Listed, MarkerOnPage
  <2>4. CASE UNCHANGED vars
    BY <2>3, <2>4 DEF vars
  <2>5. ASSUME NEW w \in Worker, TokenExpires(w) PROVE MarkerInv'
    BY <2>3, <2>5 DEF TokenExpires
  <2> QED  BY <2>2, <2>4, <2>5, MarkerWorkerStep DEF Next, WorkerStep
<1>3. TypeInv /\ MarkerInv => OneCommentPerMarker
  <2> SUFFICES ASSUME TypeInv, MarkerInv, NEW m \in Marker, MarkerOnPage(m) # {}
               PROVE  Cardinality(Copies(m)) <= width
    BY DEF OneCommentPerMarker
  <2>1. Cardinality(Copies(m)) + Cardinality(Pending(m)) <= width
    BY DEF MarkerInv, Listed
  <2> QED  BY <2>1, Counted
<1> QED
  BY <1>1, <1>2, <1>3, SpecTypeInv, PTL DEF Spec
-----------------------------------------------------------------------------
(* The attempts about to POST an inline comment with the text k, having    *)
(* found none: together with the copies there they are no more than        *)
(* attempts ever were at work at once.                                     *)
CopiesOf(k) == {i \in DOMAIN inline : inline[i] = k}
Posting(k) == {w \in Worker : wPc[w] = "inlinePost" /\ k \in Missing(w)}
CopyInv == \A k \in Content : Cardinality(CopiesOf(k)) + Cardinality(Posting(k)) <= width

LEMMA CopiesCounted ==
  ASSUME TypeInv, NEW k
  PROVE  /\ IsFiniteSet(CopiesOf(k)) /\ Cardinality(CopiesOf(k)) \in Nat
         /\ IsFiniteSet(Posting(k)) /\ Cardinality(Posting(k)) \in Nat
         /\ Cardinality(Posting(k)) <= width /\ width \in Nat
<1>1. DOMAIN inline = 1..Len(inline) /\ Len(inline) \in Nat
  BY DEF TypeInv, TypeOK
<1>2. IsFiniteSet(DOMAIN inline) /\ CopiesOf(k) \in SUBSET DOMAIN inline
  BY <1>1, FS_Interval DEF CopiesOf
<1>3. Posting(k) \in SUBSET Busy
  BY DEF Posting, Busy
<1>4. IsFiniteSet(CopiesOf(k)) /\ IsFiniteSet(Posting(k)) /\ Cardinality(Posting(k)) <= Cardinality(Busy)
  BY <1>2, <1>3, BusyWorkers, FS_Subset
<1>5. Cardinality(CopiesOf(k)) \in Nat /\ Cardinality(Posting(k)) \in Nat
  BY <1>4, FS_CardinalityType
<1> QED
  BY <1>4, <1>5, BusyWorkers DEF TypeInv, TypeOK

(* What another attempt misses is not changed by a step of w.              *)
LEMMA MissingStays ==
  ASSUME TypeInv, Grows, NEW w \in Worker, OthersStay(w), NEW v \in Worker \ {w}
  PROVE  Missing(v)' = Missing(v)
<1>1. wRun'[v] = wRun[v] /\ wIds'[v] = wIds[v] /\ wIds[v] \subseteq DOMAIN inline
  BY DEF OthersStay, TypeInv, WorkerOK
<1>2. \A i \in wIds[v] : inline'[i] = inline[i]
  BY <1>1 DEF Grows
<1>3. {inline'[i] : i \in wIds'[v]} = {inline[i] : i \in wIds[v]}
  BY <1>1, <1>2
<1> QED
  BY <1>1, <1>3 DEF Missing

(* A list that misses k: there is no comment with that text, since the     *)
(* first one would be among those found.                                   *)
LEMMA NoneListed ==
  ASSUME inline \in Seq(Content), NEW C, NEW k \in C, CopiesOf(k) # {}
  PROVE  k \in {inline[i] : i \in Matching(C)}
<1>1. CopiesOf(k) \in SUBSET Nat /\ DOMAIN inline = 1..Len(inline) /\ Len(inline) \in Nat
  BY DEF CopiesOf
<1>2. PICK n \in CopiesOf(k) : \A j \in CopiesOf(k) : n <= j
  BY <1>1, Least
<1>3. n \in DOMAIN inline /\ inline[n] = k /\ n \in Nat
  BY <1>1, <1>2 DEF CopiesOf
<1>4. ASSUME NEW j \in 1..(n - 1) PROVE inline[j] # inline[n]
  <2>1. j \in DOMAIN inline /\ ~(n <= j)
    BY <1>1, <1>3, <1>4
  <2> QED  BY <1>2, <1>3, <2>1 DEF CopiesOf
<1>5. n \in Matching(C)
  BY <1>3, <1>4 DEF Matching
<1> QED
  BY <1>3, <1>5

LEMMA CopyWorkerStep ==
  ASSUME TypeInv, CopyInv, NEW w \in Worker, WorkerStep(w)
  PROVE  CopyInv'
<1> USE DEF githubVars, recordVars, historyVars, At
<1>1. /\ inline \in Seq(Content) /\ Len(inline) \in Nat /\ DOMAIN inline = 1..Len(inline)
      /\ width \in Nat /\ width' \in Nat /\ LocalsOK /\ WorkerOK(w)
  <2>1. width \in Nat /\ width' \in Nat
    BY WorkerTypeInv, BusyWorkers DEF TypeInv, TypeOK
  <2> QED  BY <2>1 DEF TypeInv, TypeOK, LocalsOK
<1>2. OthersStay(w) /\ Grows
  BY Grow
<1>3. width <= width'
  BY <1>1, BusyWorkers
     DEF WorkerStep, StartAttempt, ProgressList, ProgressWrite, ProgressNotPublished, Analyse, InlineList,
     InlinePost, InlineRead, RecordInlineComments, SummaryList, SummaryWrite, RecordSummaryComment, CallFails, Crash
<1>4. TypeInv'
  BY WorkerTypeInv
<1>5. \A v \in Worker \ {w} : Missing(v)' = Missing(v) /\ wPc'[v] = wPc[v]
  BY <1>2, MissingStays DEF OthersStay
<1>6. ASSUME NEW k, Posting(k)' \subseteq Posting(k)
      PROVE  Cardinality(Posting(k)') <= Cardinality(Posting(k)) /\ Cardinality(Posting(k)') \in Nat
  BY <1>6, CopiesCounted, FS_Subset, FS_CardinalityType
(* No new comment, and w is not about to post one.                         *)
<1>7. ASSUME UNCHANGED inline, wPc'[w] # "inlinePost"
      PROVE  CopyInv'
  <2> SUFFICES ASSUME NEW k \in Content
               PROVE  Cardinality(CopiesOf(k)') + Cardinality(Posting(k)') <= width'
    BY DEF CopyInv
  <2>1. CopiesOf(k)' = CopiesOf(k)
    BY <1>7 DEF CopiesOf
  <2>2. Posting(k)' \subseteq Posting(k)
    BY <1>5, <1>7 DEF Posting
  <2> QED  BY <1>1, <1>3, <1>6, <2>1, <2>2, CopiesCounted DEF CopyInv
<1>8. CASE InlineList(w)
  <2> SUFFICES ASSUME NEW k \in Content
               PROVE  Cardinality(CopiesOf(k)') + Cardinality(Posting(k)') <= width'
    BY DEF CopyInv
  <2>1. UNCHANGED <<inline, wRun, width>> /\ wIds'[w] = Matching(Wanted[wRun[w]])
    BY <1>1, <1>8 DEF InlineList, LocalsOK
  <2>2. CopiesOf(k)' = CopiesOf(k)
    BY <2>1 DEF CopiesOf
  <2>3. CASE CopiesOf(k) = {}
    <3>1. Cardinality(CopiesOf(k)') = 0
      BY <2>2, <2>3, FS_EmptySet
    <3>2. Posting(k)' \in SUBSET (Busy')
      BY DEF Posting, Busy
    <3>3. IsFiniteSet(Busy') /\ Cardinality(Busy') \in Nat /\ Cardinality(Busy') <= width'
      <4>1. Busy' \in SUBSET Worker
        BY DEF Busy
      <4> QED  BY <1>4, <4>1, BusyWorkers, FS_Subset, FS_CardinalityType DEF TypeInv
    <3>4. Cardinality(Posting(k)') <= Cardinality(Busy') /\ Cardinality(Posting(k)') \in Nat
      BY <3>2, <3>3, FS_Subset, FS_CardinalityType
    <3> QED  BY <1>1, <3>1, <3>3, <3>4
  <2>4. CASE CopiesOf(k) # {}
    <3>1. k \notin Missing(w)'
      <4>1. Missing(w)' = Wanted[wRun[w]] \ {inline[i] : i \in Matching(Wanted[wRun[w]])}
        BY <2>1 DEF Missing
      <4> QED  BY <1>1, <2>4, <4>1, NoneListed
    <3>2. Posting(k)' \subseteq Posting(k)
      BY <1>5, <3>1 DEF Posting
    <3> QED  BY <1>1, <1>3, <1>6, <2>2, <3>2, CopiesCounted DEF CopyInv
  <2> QED  BY <2>3, <2>4
(* A review: each comment it creates was counted as being posted.          *)
<1>9. ASSUME wPc[w] = "inlinePost", wPc'[w] # "inlinePost", Posted(w)
      PROVE  CopyInv'
  <2> SUFFICES ASSUME NEW k \in Content
               PROVE  Cardinality(CopiesOf(k)') + Cardinality(Posting(k)') <= width'
    BY DEF CopyInv
  <2>1. PICK s \in Orders(Missing(w)) : inline' = inline \o s
    BY <1>9 DEF Posted
  <2>2. Missing(w) \in SUBSET Content /\ IsFiniteSet(Missing(w)) /\ Cardinality(Missing(w)) \in Nat
    BY <1>9, MissingComments
  <2> DEFINE n == Len(inline)
             new == (n + 1)..Len(inline')
  <2>3. /\ inline' \in Seq(Content) /\ Len(inline') = n + Cardinality(Missing(w))
        /\ \A i \in DOMAIN inline : i \in DOMAIN inline' /\ inline'[i] = inline[i]
        /\ \A i \in new : inline'[i] \in Missing(w)
        /\ \A c \in Missing(w) : \E i \in new : inline'[i] = c /\ \A j \in new : inline'[j] = c => j = i
    BY <1>1, <2>1, <2>2, PostedReview
  <2>4. DOMAIN inline' = DOMAIN inline \cup new /\ DOMAIN inline \cap new = {}
    BY <1>1, <2>2, <2>3
  <2>5. Posting(k)' \subseteq Posting(k) \ {w}
    BY <1>5, <1>9 DEF Posting
  <2> HIDE DEF n, new
  <2>6. CASE k \notin Missing(w)
    <3>1. CopiesOf(k)' = CopiesOf(k)
      BY <2>3, <2>4, <2>6 DEF CopiesOf
    <3>2. Posting(k)' \subseteq Posting(k)
      BY <2>5
    <3> QED  BY <1>1, <1>3, <1>6, <3>1, <3>2, CopiesCounted DEF CopyInv
  <2>7. CASE k \in Missing(w)
    <3>1. PICK i \in new : inline'[i] = k /\ \A j \in new : inline'[j] = k => j = i
      BY <2>3, <2>7
    <3>2. CopiesOf(k)' = CopiesOf(k) \cup {i} /\ i \notin CopiesOf(k)
      BY <2>3, <2>4, <3>1 DEF CopiesOf
    <3>3. Cardinality(CopiesOf(k)') = Cardinality(CopiesOf(k)) + 1
      BY <3>2, CopiesCounted, FS_AddElement
    <3>4. w \in Posting(k)
      BY <1>9, <2>7 DEF Posting
    <3>5. IsFiniteSet(Posting(k) \ {w}) /\ Cardinality(Posting(k) \ {w}) = Cardinality(Posting(k)) - 1
      BY <3>4, CopiesCounted, FS_RemoveElement
    <3>6. Cardinality(Posting(k)') <= Cardinality(Posting(k)) - 1 /\ Cardinality(Posting(k)') \in Nat
      BY <2>5, <3>5, FS_Subset, FS_CardinalityType
    <3>7. Cardinality(CopiesOf(k)) + Cardinality(Posting(k)) <= width
      BY DEF CopyInv
    <3> QED  BY <1>1, <1>3, <3>3, <3>6, <3>7, CopiesCounted
  <2> QED  BY <2>6, <2>7
<1>10. CASE InlinePost(w)
  <2>1. wPc'[w] # "inlinePost"
    BY <1>1, <1>10 DEF InlinePost, AfterPost, Goto, LocalsOK
  <2> QED  BY <1>9, <1>10, <2>1 DEF InlinePost
<1>11. CASE CallFails(w)
  <2>1. wPc'[w] = "progressList"
    BY <1>1, <1>11 DEF CallFails, OnError, Publish, Goto, LocalsOK
  <2> QED  BY <1>7, <1>9, <1>11, <2>1 DEF CallFails
<1>12. CASE (\E r \in Run : StartAttempt(w, r)) \/ ProgressList(w) \/ ProgressWrite(w) \/ ProgressNotPublished(w)
            \/ Analyse(w) \/ InlineRead(w) \/ RecordInlineComments(w) \/ SummaryList(w) \/ SummaryWrite(w)
            \/ RecordSummaryComment(w) \/ Crash(w)
  <2>1. UNCHANGED inline
    BY <1>12 DEF StartAttempt, ProgressList, ProgressWrite, ProgressNotPublished, Analyse, InlineRead,
       RecordInlineComments, SummaryList, SummaryWrite, RecordSummaryComment, Crash
  <2>2. wPc'[w] # "inlinePost"
    BY <1>1, <1>12 DEF StartAttempt, ProgressList, ProgressWrite, ProgressNotPublished, Analyse, InlineRead,
       RecordInlineComments, SummaryList, SummaryWrite, RecordSummaryComment, Crash, Publish, End,
       AfterProgress, Goto, LocalsOK
  <2> QED  BY <1>7, <2>1, <2>2
<1> QED
  BY <1>8, <1>10, <1>11, <1>12 DEF WorkerStep

(* There are never more inline comments with the same place and text than  *)
(* attempts were at work at once: no re-attempt, lost reply or later run   *)
(* that finds the same line adds another (pipeline.py:320).                *)
THEOREM SpecOneCopyPerInlineComment == Spec => []OneCopyPerInlineComment
<1> USE DEF githubVars, recordVars, historyVars, workerVars
<1>1. Init => CopyInv
  <2> SUFFICES ASSUME Init, NEW k \in Content PROVE Cardinality(CopiesOf(k)) + Cardinality(Posting(k)) <= width
    BY DEF CopyInv
  <2>1. CopiesOf(k) = {} /\ Posting(k) = {} /\ width = 0
    BY DEF Init, CopiesOf, Posting
  <2> QED  BY <2>1, FS_EmptySet
<1>2. TypeInv /\ CopyInv /\ [Next]_vars => CopyInv'
  <2> SUFFICES ASSUME TypeInv, CopyInv, [Next]_vars PROVE CopyInv'
    OBVIOUS
  <2>1. CASE UNCHANGED <<inline, wPc, wRun, wIds, width>>
    <3>1. \A k : CopiesOf(k)' = CopiesOf(k) /\ Posting(k)' = Posting(k)
      BY <2>1 DEF CopiesOf, Posting, Missing
    <3> QED  BY <2>1, <3>1 DEF CopyInv
  <2>2. CASE SomebodyComments \/ UNCHANGED vars
    BY <2>1, <2>2 DEF SomebodyComments, vars
  <2>3. ASSUME NEW w \in Worker, TokenExpires(w) PROVE CopyInv'
    BY <2>1, <2>3 DEF TokenExpires
  <2> QED  BY <2>2, <2>3, CopyWorkerStep DEF Next, WorkerStep
<1>3. TypeInv /\ CopyInv => OneCopyPerInlineComment
  <2> SUFFICES ASSUME TypeInv, CopyInv, NEW k \in Content
               PROVE  Cardinality(CopiesOf(k)) <= width
    BY DEF OneCopyPerInlineComment, CopiesOf
  <2> QED  BY CopiesCounted DEF CopyInv
<1> QED
  BY <1>1, <1>2, <1>3, SpecTypeInv, PTL DEF Spec
=============================================================================
