------------------------- MODULE CommentPublishing --------------------------
(***************************************************************************)
(* What DeterministicReviewPipeline.run does to one pull request on GitHub *)
(* and to published_comments: the progress comment, the inline review, the *)
(* summary comment and their records, each found by its marker or its text *)
(* and then written.  ReviewWorker shows the same run from the side of its *)
(* status; here the status is left out and every GitHub call and every SQL *)
(* statement is a step, so that attempts of one run, of two runs, and of   *)
(* two processes interleave between finding a comment and writing it.      *)
(*                                                                         *)
(* An issue comment or a review comment is its position in the list GitHub *)
(* returns, oldest first; 0 stands for "not found".                        *)
(***************************************************************************)
EXTENDS Naturals, Sequences, FiniteSets

CONSTANTS Run,          \* review runs of the pull request
          NoRun,        \* what an idle worker works on
          Worker,       \* worker processes
          Content,      \* texts an inline comment can have: path, line and body
          Wanted,       \* [Run -> SUBSET Content]: the inline comments of a run
          MaxAttempts,  \* bound on the attempts of all runs together
          PageSize,     \* comments in a page (per_page=100)
          MaxComments,  \* bound on the issue comments of the pull request
          MaxInline,    \* bound on its review comments
          MaxFaults     \* failed calls and crashes, in all

ASSUME PublishingAssumption ==
  /\ NoRun \notin Run
  /\ Wanted \in [Run -> SUBSET Content] /\ \A r \in Run : IsFiniteSet(Wanted[r])
  /\ IsFiniteSet(Worker)
  /\ MaxAttempts \in Nat /\ PageSize \in Nat \ {0}
  /\ MaxComments \in Nat /\ MaxInline \in Nat /\ MaxFaults \in Nat

(* FIRMCODEAI_SCANNING_COMMENT_MARKER, FIRMCODEAI_SUMMARY_COMMENT_MARKER,  *)
(* or neither: a comment of somebody else.                                 *)
Marker == {"scanning", "summary"}
Comment == [marker : Marker \cup {"none"}, run : Run \cup {NoRun},
            status : {"running", "completed", "failed", "none"}]

WorkerPc == {"idle", "progressList", "progressWrite", "analyse", "inlineList",
             "inlinePost", "inlineRead", "inlineRecord", "summaryList",
             "summaryWrite", "summaryRecord"}

VARIABLES
  comments,       \* issue comments on GitHub
  inline,         \* review comments on GitHub: their Content
  summaryRecord,  \* published_comments of type summary: github_comment_id -> run
  inlineRecord,   \* published_comments of type inline: github_comment_id -> run
  attempts,       \* attempts started so far
  wPc, wRun,      \* where each process is, and with which run
  wStatus,        \* the status of the progress comment being published
  wFound,         \* existing_id: the comment the last list found
  wIds,           \* the review comments found or created for the run
  token,          \* GitHubClient._tokens of each process
  faults,         \* failed calls and crashes so far
  width,          \* history: most attempts ever at work at once
  unrecorded,     \* history: summary comments written by an attempt that could not record it
  sideBySide,     \* history: whether attempts have met since nobody was at work
  excused,        \* history: why the progress comment may stay "running"
  completed       \* history: runs an attempt of which has ended normally

githubVars == <<comments, inline>>
recordVars == <<summaryRecord, inlineRecord>>
workerVars == <<attempts, wPc, wRun, wStatus, wFound, wIds, token>>
historyVars == <<faults, width, sideBySide, unrecorded, excused, completed>>
vars == <<githubVars, recordVars, workerVars, historyVars>>

TypeOK ==
  /\ comments \in Seq(Comment) /\ Len(comments) <= MaxComments
  /\ inline \in Seq(Content) /\ Len(inline) <= MaxInline
  /\ summaryRecord \in [1..MaxComments -> Run \cup {NoRun}]
  /\ inlineRecord \in [1..MaxInline -> Run \cup {NoRun}]
  /\ attempts \in 0..MaxAttempts
  /\ wPc \in [Worker -> WorkerPc]
  /\ wRun \in [Worker -> Run \cup {NoRun}]
  /\ wStatus \in [Worker -> {"none", "running", "inline", "completed", "failed"}]
  /\ wFound \in [Worker -> 0..MaxComments]
  /\ wIds \in [Worker -> SUBSET (1..MaxInline)]
  /\ token \in [Worker -> {"none", "valid", "expired"}]
  /\ faults \in 0..MaxFaults
  /\ width \in 0..Cardinality(Worker)
  /\ unrecorded \subseteq 1..MaxComments
  /\ sideBySide \in BOOLEAN /\ excused \in BOOLEAN
  /\ completed \subseteq Run

Init ==
  /\ comments = << >> /\ inline = << >>
  /\ summaryRecord = [i \in 1..MaxComments |-> NoRun]
  /\ inlineRecord = [i \in 1..MaxInline |-> NoRun]
  /\ attempts = 0
  /\ wPc = [w \in Worker |-> "idle"]
  /\ wRun = [w \in Worker |-> NoRun]
  /\ wStatus = [w \in Worker |-> "none"]
  /\ wFound = [w \in Worker |-> 0]
  /\ wIds = [w \in Worker |-> {}]
  /\ token = [w \in Worker |-> "none"]
  /\ faults = 0 /\ width = 0
  /\ unrecorded = {} /\ sideBySide = FALSE /\ excused = FALSE
  /\ completed = {}

Busy == {w \in Worker : wPc[w] # "idle"}
At(w, pc) == wPc[w] = pc
Goto(w, pc) == wPc' = [wPc EXCEPT ![w] = pc]
Publish(w, status) ==   \* _publish_progress begins
  /\ Goto(w, "progressList")
  /\ wStatus' = [wStatus EXCEPT ![w] = status]
  /\ wFound' = [wFound EXCEPT ![w] = 0]
  /\ wIds' = [wIds EXCEPT ![w] = {}]

(* Local variables that are not read again.                                *)
Forget(w) ==
  /\ wStatus' = [wStatus EXCEPT ![w] = "none"]
  /\ wFound' = [wFound EXCEPT ![w] = 0]
  /\ wIds' = [wIds EXCEPT ![w] = {}]
(* The attempt is over.                                                    *)
End(w) ==
  /\ Goto(w, "idle")
  /\ wRun' = [wRun EXCEPT ![w] = NoRun]
  /\ Forget(w)
-----------------------------------------------------------------------------
(* Mutant of MarkerOnPage: the marker is looked for among the newest. *)
MarkerOnLastPage(m) ==
  {i \in DOMAIN comments : i + PageSize > Len(comments) + 1 /\ comments[i].marker = m}

(* Only the first page is listed, and the oldest match on it is taken.     *)
MarkerOnPage(m) ==
  {i \in DOMAIN comments : i <= PageSize /\ comments[i].marker = m}
ExistingId(m) ==
  IF MarkerOnPage(m) = {} THEN 0
  ELSE CHOOSE i \in MarkerOnPage(m) : \A j \in MarkerOnPage(m) : i <= j

(* Mutant of Written: always POST. *)
WrittenAgain(found, c) == Append(comments, c)
(* PATCH the comment that was found, or POST a new one.                    *)
Written(found, c) ==
  IF found # 0 THEN [comments EXCEPT ![found] = c] ELSE Append(comments, c)
ProgressComment(w) == [marker |-> "scanning", run |-> wRun[w],
  status |-> IF wStatus[w] = "inline" THEN "running" ELSE wStatus[w]]
SummaryComment(w) == [marker |-> "summary", run |-> wRun[w], status |-> "none"]
RoomFor(found) == found # 0 \/ Len(comments) < MaxComments

(* _installation_token: asked for once in the life of the process.  A call *)
(* with an expired token raises.                                           *)
TokenWorks(w) == token[w] # "expired"
UseToken(w) == TokenWorks(w) /\ token' = [token EXCEPT ![w] = "valid"]

(* An hour passes. *)
TokenExpires(w) ==
  /\ token[w] = "valid"
  /\ token' = [token EXCEPT ![w] = "expired"]
  /\ UNCHANGED <<githubVars, recordVars, historyVars>>
  /\ UNCHANGED <<attempts, wPc, wRun, wStatus, wFound, wIds>>

(* Somebody else comments on the pull request. *)
SomebodyComments ==
  /\ Len(comments) < PageSize /\ Len(comments) < MaxComments
  /\ comments' = Append(comments, [marker |-> "none", run |-> NoRun, status |-> "none"])
  /\ UNCHANGED <<inline, recordVars, workerVars, historyVars>>
-----------------------------------------------------------------------------
(* A worker takes the run's job, and load_context has answered.            *)
StartAttempt(w, r) ==
  /\ At(w, "idle")
  /\ attempts < MaxAttempts
  /\ attempts' = attempts + 1
  /\ wRun' = [wRun EXCEPT ![w] = r]
  /\ Publish(w, "running")
  /\ width' = IF Cardinality(Busy) + 1 > width THEN Cardinality(Busy) + 1 ELSE width
  /\ sideBySide' = (Busy # {})
  /\ excused' = (excused \/ Busy # {})
  /\ UNCHANGED <<token, githubVars, recordVars, faults, unrecorded, completed>>

(* Where run() goes on after a progress comment, written or not.           *)
AfterProgress(w) ==
  CASE wStatus[w] = "running" -> Goto(w, "analyse") /\ Forget(w) /\ UNCHANGED wRun
    [] wStatus[w] = "inline" -> Goto(w, "inlineList") /\ Forget(w) /\ UNCHANGED wRun
    [] OTHER -> End(w)   \* "completed" returns, "failed" raises on
Final(w) == wStatus[w] \in {"completed", "failed"}

(* publish_scanning_comment: GET the first page ...                        *)
ProgressList(w) ==
  /\ At(w, "progressList")
  /\ UseToken(w)
  /\ wFound' = [wFound EXCEPT ![w] = ExistingId("scanning")]
  /\ Goto(w, "progressWrite")
  /\ UNCHANGED <<attempts, wRun, wStatus, wIds, githubVars, recordVars, historyVars>>

(* ... then PATCH or POST.                                                 *)
ProgressWrite(w) ==
  /\ At(w, "progressWrite")
  /\ TokenWorks(w) /\ RoomFor(wFound[w])
  /\ comments' = Written(wFound[w], ProgressComment(w))
  /\ AfterProgress(w)
  /\ excused' = IF Final(w) THEN sideBySide ELSE excused
  /\ completed' = IF wStatus[w] = "completed" THEN completed \cup {wRun[w]} ELSE completed
  /\ UNCHANGED <<attempts, token, inline, recordVars, faults, width, sideBySide, unrecorded>>

(* A progress comment that cannot be published is logged, and the run goes *)
(* on: an error is not worth failing the review for.                       *)
ProgressNotPublished(w) ==
  /\ At(w, "progressList") \/ At(w, "progressWrite")
  /\ ~TokenWorks(w) \/ faults < MaxFaults
  /\ faults' = IF TokenWorks(w) THEN faults + 1 ELSE faults
  /\ AfterProgress(w)
  /\ excused' = (excused \/ Final(w))
  /\ completed' = IF wStatus[w] = "completed" THEN completed \cup {wRun[w]} ELSE completed
  /\ UNCHANGED <<attempts, token, githubVars, recordVars, width, sideBySide, unrecorded>>

(* Files are fetched, scanned and parsed; how many more "running" progress *)
(* comments that takes (three) is left open.  Then verify_publishable      *)
(* answers: a run that may not publish returns as it is.                   *)
Analyse(w) ==
  /\ At(w, "analyse")
  /\ \/ Publish(w, "running") /\ UNCHANGED <<wRun, excused>>
     \/ /\ Wanted[wRun[w]] # {}
        /\ Publish(w, "inline") /\ UNCHANGED <<wRun, excused>>
     \/ /\ Wanted[wRun[w]] = {}
        /\ Goto(w, "summaryList") /\ UNCHANGED <<wRun, wStatus, wFound, wIds, excused>>
     \/ End(w) /\ excused' = TRUE
  /\ UNCHANGED <<attempts, token, githubVars, recordVars, faults, width, sideBySide, unrecorded, completed>>

(* Mutant of Matching: a comment is compared with the newest only. *)
MatchingNewest(C) == {i \in DOMAIN inline : inline[i] \in C /\ i = Len(inline)}
(* _partition_existing_inline_comments: comments with the same path, line  *)
(* and body are there already, whichever run or attempt posted them.       *)
Matching(C) == {i \in DOMAIN inline : inline[i] \in C /\ \A j \in 1..(i - 1) : inline[j] # inline[i]}
Missing(w) == Wanted[wRun[w]] \ {inline[i] : i \in wIds[w]}

InlineList(w) ==   \* every page of the pull request's review comments
  /\ At(w, "inlineList") /\ UseToken(w)
  /\ wIds' = [wIds EXCEPT ![w] = Matching(Wanted[wRun[w]])]
  /\ Goto(w, "inlinePost")
  /\ UNCHANGED <<attempts, wRun, wStatus, wFound, githubVars, recordVars, historyVars>>

(* One review with all the missing comments, in some order; none when no   *)
(* comment is missing.                                                     *)
Orders(C) == {s \in [1..Cardinality(C) -> C] : \A i, j \in 1..Cardinality(C) : s[i] = s[j] => i = j}
Posted(w) == \E s \in Orders(Missing(w)) : inline' = inline \o s
RoomForReview(w) == Len(inline) + Cardinality(Missing(w)) <= MaxInline
(* Mutant of AfterPost: nothing was posted, so nothing is recorded. *)
AfterPostOrNothing(w) == IF Missing(w) = {} THEN "summaryList" ELSE "inlineRead"
AfterPost(w) == IF Missing(w) = {} THEN "inlineRecord" ELSE "inlineRead"
InlinePost(w) ==
  /\ At(w, "inlinePost") /\ TokenWorks(w) /\ RoomForReview(w)
  /\ Posted(w)
  /\ wIds' = [wIds EXCEPT ![w] = @ \cup (Len(inline) + 1)..Len(inline')]
  /\ Goto(w, AfterPost(w))
  /\ UNCHANGED <<attempts, wRun, wStatus, wFound, token, comments, recordVars, historyVars>>

(* _fetch_created_review_comments reads the review back, up to five times. *)
InlineRead(w) ==
  /\ At(w, "inlineRead") /\ TokenWorks(w)
  /\ Goto(w, "inlineRecord")
  /\ UNCHANGED <<attempts, wRun, wStatus, wFound, wIds, token, githubVars, recordVars, historyVars>>

(* body_hash: a run has one record of a text.  A second comment with that  *)
(* text violates the unique constraint, which ON CONFLICT                  *)
(* (github_comment_id) does not name.                                      *)
InlineClash(w) ==
  \E i \in wIds[w], j \in DOMAIN inline \ wIds[w] :
    inline[i] = inline[j] /\ inlineRecord[j] = wRun[w]
SummaryClash(w) == \E i \in 1..MaxComments \ {wFound[w]} : summaryRecord[i] = wRun[w]

(* record_inline_comments, one transaction; ON CONFLICT (github_comment_id)*)
(* hands the row to the run that records last.                             *)
RecordInlineComments(w) ==
  /\ At(w, "inlineRecord") /\ ~InlineClash(w)
  /\ inlineRecord' = [i \in 1..MaxInline |-> IF i \in wIds[w] THEN wRun[w] ELSE inlineRecord[i]]
  /\ Goto(w, "summaryList")
  /\ wIds' = [wIds EXCEPT ![w] = {}]
  /\ UNCHANGED <<attempts, wRun, wStatus, wFound, token, githubVars, summaryRecord, historyVars>>

(* publish_summary_comment: the same two calls with the other marker.      *)
SummaryList(w) ==
  /\ At(w, "summaryList") /\ UseToken(w)
  /\ wFound' = [wFound EXCEPT ![w] = ExistingId("summary")]
  /\ Goto(w, "summaryWrite")
  /\ UNCHANGED <<attempts, wRun, wStatus, wIds, githubVars, recordVars, historyVars>>
SummaryId(w) == IF wFound[w] = 0 THEN Len(comments) + 1 ELSE wFound[w]
SummaryWrite(w) ==
  /\ At(w, "summaryWrite")
  /\ TokenWorks(w) /\ RoomFor(wFound[w])
  /\ comments' = Written(wFound[w], SummaryComment(w))
  /\ wFound' = [wFound EXCEPT ![w] = SummaryId(w)]
  /\ Goto(w, "summaryRecord")
  /\ UNCHANGED <<attempts, wRun, wStatus, wIds, token, inline, recordVars, historyVars>>
(* Mutant of RecordSummaryComment: ON CONFLICT DO NOTHING. *)
RecordFirstSummaryComment(w) ==
  /\ At(w, "summaryRecord")
  /\ summaryRecord' = [summaryRecord EXCEPT ![wFound[w]] = IF @ = NoRun THEN wRun[w] ELSE @]
  /\ unrecorded' = unrecorded \ {wFound[w]}
  /\ Publish(w, "completed")
  /\ UNCHANGED <<attempts, wRun, token, githubVars, inlineRecord>>
  /\ UNCHANGED <<faults, width, sideBySide, excused, completed>>
(* record_summary_comment.  Two bodies of one run may differ or be equal:  *)
(* with a SummaryClash it may also raise (CallFails).                      *)
RecordSummaryComment(w) ==
  /\ At(w, "summaryRecord")
  /\ summaryRecord' = [summaryRecord EXCEPT ![wFound[w]] = wRun[w]]
  /\ unrecorded' = unrecorded \ {wFound[w]}
  /\ Publish(w, "completed")
  /\ UNCHANGED <<attempts, wRun, token, githubVars, inlineRecord>>
  /\ UNCHANGED <<faults, width, sideBySide, excused, completed>>

Unrecorded(w) == IF At(w, "summaryRecord") THEN unrecorded \cup {wFound[w]} ELSE unrecorded
(* Mutant of OnError: the exception leaves run() at once. *)
RaiseAtOnce(w) == End(w)
(* The except clause of run(): the progress comment says "failed".         *)
OnError(w) == Publish(w, "failed") /\ UNCHANGED wRun

(* A call outside _publish_progress raises: its token has expired, its row *)
(* clashes with another, or it fails, and then a POST or PATCH may have    *)
(* taken effect all the same.                                              *)
CallFails(w) ==
  /\ wPc[w] \notin {"idle", "progressList", "progressWrite"}
  /\ \/ /\ ~TokenWorks(w) /\ wPc[w] \notin {"inlineRecord", "summaryRecord"}
        /\ UNCHANGED <<faults, comments, inline, unrecorded>>
     \/ /\ \/ At(w, "inlineRecord") /\ InlineClash(w)
           \/ At(w, "summaryRecord") /\ SummaryClash(w)
        /\ unrecorded' = Unrecorded(w) /\ UNCHANGED <<faults, comments, inline>>
     \/ /\ faults < MaxFaults /\ faults' = faults + 1
        /\ \/ UNCHANGED <<comments, inline>> /\ unrecorded' = Unrecorded(w)
           \/ /\ At(w, "summaryWrite") /\ RoomFor(wFound[w])
              /\ comments' = Written(wFound[w], SummaryComment(w)) /\ UNCHANGED inline
              /\ unrecorded' = unrecorded \cup {SummaryId(w)}
           \/ /\ At(w, "inlinePost") /\ RoomForReview(w)
              /\ Posted(w) /\ UNCHANGED <<comments, unrecorded>>
  /\ OnError(w)
  /\ UNCHANGED <<attempts, token, recordVars, width, sideBySide, excused, completed>>

(* The process dies and comes back with an empty token cache.              *)
Crash(w) ==
  /\ faults < MaxFaults /\ ~At(w, "idle")
  /\ faults' = faults + 1
  /\ End(w)
  /\ token' = [token EXCEPT ![w] = "none"]
  /\ unrecorded' = Unrecorded(w)
  /\ excused' = TRUE
  /\ UNCHANGED <<attempts, githubVars, recordVars, width, sideBySide, completed>>

Next ==
  \/ SomebodyComments
  \/ \E w \in Worker :
       \/ \E r \in Run : StartAttempt(w, r)
       \/ TokenExpires(w) \/ ProgressList(w) \/ ProgressWrite(w) \/ ProgressNotPublished(w)
       \/ Analyse(w) \/ InlineList(w) \/ InlinePost(w) \/ InlineRead(w)
       \/ RecordInlineComments(w) \/ SummaryList(w) \/ SummaryWrite(w)
       \/ RecordSummaryComment(w) \/ CallFails(w) \/ Crash(w)

Spec == Init /\ [][Next]_vars
-----------------------------------------------------------------------------
Copies(m) == {i \in DOMAIN comments : comments[i].marker = m}

(* A marker comment that is on the first page is the only one of its kind, *)
(* or one of as many as there were attempts at work at once: neither       *)
(* re-attempts, nor replies lost after a POST, nor later runs add another  *)
(* (pipeline.py:246, 283).                                                 *)
OneCommentPerMarker ==
  \A m \in Marker : MarkerOnPage(m) # {} => Cardinality(Copies(m)) <= width

(* The same for every inline comment, across runs that found the same line *)
(* (pipeline.py:320).                                                      *)
OneCopyPerInlineComment ==
  \A k \in Content : Cardinality({i \in DOMAIN inline : inline[i] = k}) <= width

(* A run that ended normally has all its inline comments on GitHub, each   *)
(* with a record that names it or a later run, and a summary comment.      *)
(* A record never names a comment that is not there (pipeline.py:1000-1057)*)
CompletedMeansPublished ==
  /\ \A r \in completed :
       /\ \A k \in Wanted[r] : \E i \in DOMAIN inline : inline[i] = k /\ inlineRecord[i] # NoRun
       /\ Copies("summary") # {}
  /\ \A i \in 1..MaxInline : inlineRecord[i] # NoRun => i \in DOMAIN inline
  /\ \A i \in 1..MaxComments : summaryRecord[i] # NoRun => i \in Copies("summary")

(* While attempts do not overlap, the run published_comments gives for a   *)
(* summary comment is the run GitHub shows in it, except for a comment     *)
(* whose last writer could not record it (pipeline.py:1040-1057).          *)
RecordNamesTheRunShown ==
  width <= 1 /\ (\A w \in Worker : ~At(w, "summaryRecord")) =>
    \A i \in Copies("summary") \ unrecorded : summaryRecord[i] = comments[i].run

(* With no attempt at work the progress comment (the one the worker finds  *)
(* and updates) says how the last one ended, unless that one was skipped   *)
(* at the publish check, died, could not publish its last progress, or     *)
(* overlapped another (pipeline.py:999, 1060, 1083).                       *)
ProgressCommentEnds ==
  Busy = {} /\ ~excused /\ ExistingId("scanning") # 0 =>
    comments[ExistingId("scanning")].status # "running"
=============================================================================
