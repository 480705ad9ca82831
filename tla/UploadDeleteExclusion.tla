------------------------ MODULE UploadDeleteExclusion ------------------------
(***************************************************************************)
(* What the bucket's locks promise, without saying how: an upload and a    *)
(* delete never work on one bucket at the same time.  Uploads do not       *)
(* exclude each other, and neither do deletes.  BucketLocks implements     *)
(* this module with objects under locks/, and Repository is built on it.   *)
(***************************************************************************)

CONSTANTS
  Uploads,  \* runs of backup and upload
  Deletes   \* runs of cleanup and delete

VARIABLES
  uploading, \* the uploads whose work is under way
  deleting   \* the deletes whose work is under way

vars == <<uploading, deleting>>

Init ==
  /\ uploading = {}
  /\ deleting = {}

StartUpload(u) ==
  /\ u \notin uploading
  /\ deleting = {}
  /\ uploading' = uploading \cup {u}
  /\ UNCHANGED deleting

StartDelete(d) ==
  /\ d \notin deleting
  /\ uploading = {}
  /\ deleting' = deleting \cup {d}
  /\ UNCHANGED uploading

\* Work that ends, fails, or stops with its process.
EndUpload(u) ==
  /\ u \in uploading
  /\ uploading' = uploading \ {u}
  /\ UNCHANGED deleting

EndDelete(d) ==
  /\ d \in deleting
  /\ deleting' = deleting \ {d}
  /\ UNCHANGED uploading

Next ==
  \/ \E u \in Uploads : StartUpload(u) \/ EndUpload(u)
  \/ \E d \in Deletes : StartDelete(d) \/ EndDelete(d)

Spec == Init /\ [][Next]_vars

=============================================================================
