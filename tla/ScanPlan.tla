------------------------------ MODULE ScanPlan ------------------------------
(***************************************************************************)
(* CodebaseScanWorkspacePlanner.plan: which blobs of the repository's tree *)
(* a codebase scan fetches and scans, in the order of their paths, under   *)
(* budgets of files and bytes.  A blob is a position in that order.        *)
(***************************************************************************)
EXTENDS Naturals, Sequences, FiniteSets

CONSTANTS Blobs,          \* number of blobs in the tree
          MaxScanFiles,   \* CodebaseScanConfig.max_files
          MaxTotalBytes,  \* CodebaseScanConfig.max_total_bytes
          MaxFileBytes    \* CodebaseScanConfig.max_file_bytes

ASSUME ScanPlanAssumption ==
  /\ Blobs \in Nat
  /\ MaxScanFiles \in Nat \ {0} /\ MaxTotalBytes \in Nat \ {0} /\ MaxFileBytes \in Nat \ {0}

Blob == 1..Blobs
PathKind == {"excluded", "unsupported", "scannable"}   \* what the path alone decides
PlanSkip == {"excluded", "oversized", "unsupported", "max_files", "max_total_bytes"}

VARIABLES
  plan,         \* "open", "made", or "failed" when a blob could not be fetched
  verdict,      \* sequence: blob -> "selected" or a skip reason
  bytes,        \* sequence: blob -> its size
  totalBytes    \* total_bytes

planVars == <<plan, verdict, bytes, totalBytes>>

PlanTypeOK ==
  /\ plan \in {"open", "made", "failed"}
  /\ verdict \in UNION {[1..n -> {"selected"} \cup PlanSkip] : n \in 0..Blobs}
  /\ bytes \in [DOMAIN verdict -> Nat] /\ totalBytes \in Nat

PlanInit == plan = "open" /\ verdict = << >> /\ bytes = << >> /\ totalBytes = 0

Selected == {b \in DOMAIN verdict : verdict[b] = "selected"}
(* Mutant of NextBlob: one blob too many is decided. *)
LastBlob == Len(verdict)
NextBlob == Len(verdict) + 1   \* the next blob in path order

(* Mutant of Fits: the size of the blob itself is left out. *)
FitsSoFar(size) == totalBytes <= MaxTotalBytes
Fits(size) == totalBytes + size <= MaxTotalBytes

(* The checks in the code's order.  GitHub's tree may leave the size of a  *)
(* blob out, and 0 is read as unknown (known is FALSE).                    *)
BeforeFetch(kind, size, known) ==
  IF kind = "excluded" THEN "excluded"
  ELSE IF known /\ size > MaxFileBytes THEN "oversized"
  ELSE IF kind = "unsupported" THEN "unsupported"
  ELSE IF Cardinality(Selected) >= MaxScanFiles THEN "max_files"
  ELSE IF known /\ ~Fits(size) THEN "max_total_bytes"
  ELSE "fetch"
AfterFetch(size) ==
  IF size > MaxFileBytes THEN "oversized"
  ELSE IF ~Fits(size) THEN "max_total_bytes"
  ELSE "selected"

Decide(kind, size, known) ==
  LET before == BeforeFetch(kind, size, known)
      result == IF before = "fetch" THEN AfterFetch(size) ELSE before
  IN /\ plan = "open" /\ NextBlob <= Blobs
     /\ known => size > 0
     /\ verdict' = Append(verdict, result) /\ bytes' = Append(bytes, size)
     /\ totalBytes' = IF result = "selected" THEN totalBytes + size ELSE totalBytes
     /\ UNCHANGED plan

(* fetch_content raises: there is no plan and the scan fails.              *)
AbandonPlan(size, known) ==
  /\ plan = "open" /\ NextBlob <= Blobs
  /\ BeforeFetch("scannable", size, known) = "fetch"
  /\ plan' = "failed"
  /\ UNCHANGED <<verdict, bytes, totalBytes>>

FinishPlan ==
  /\ plan = "open" /\ NextBlob > Blobs
  /\ plan' = "made"
  /\ UNCHANGED <<verdict, bytes, totalBytes>>

(* Bound: sizes up to one more than the budgets.                           *)
PlanNext ==
  \/ \E kind \in PathKind, size \in 0..(MaxTotalBytes + 1), known \in BOOLEAN : Decide(kind, size, known)
  \/ \E size \in 0..(MaxTotalBytes + 1), known \in BOOLEAN : AbandonPlan(size, known)
  \/ FinishPlan
-----------------------------------------------------------------------------
(* The bytes of the selected blobs, in path order.                         *)
SelectedBytes ==
  LET upTo[n \in 0..Len(verdict)] ==
        IF n = 0 THEN 0
        ELSE upTo[n - 1] + IF verdict[n] = "selected" THEN bytes[n] ELSE 0
  IN upTo[Len(verdict)]

(* A plan keeps its budgets, counts in total_bytes exactly the files it    *)
(* selected, and skips for a budget only what the budget has no room for,  *)
(* even when it is compared with the finished selection: the first of the  *)
(* remaining files that fits is always taken (codebase_scan.py:280).       *)
PlanKeepsBudgets ==
  /\ totalBytes = SelectedBytes
  /\ totalBytes <= MaxTotalBytes
  /\ Cardinality(Selected) <= MaxScanFiles
  /\ \A b \in DOMAIN verdict :
       /\ verdict[b] = "selected" => bytes[b] <= MaxFileBytes
       /\ verdict[b] = "oversized" => bytes[b] > MaxFileBytes
       /\ verdict[b] = "max_total_bytes" => totalBytes + bytes[b] > MaxTotalBytes
       /\ verdict[b] = "max_files" => Cardinality(Selected) = MaxScanFiles
=============================================================================
