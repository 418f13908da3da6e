------------------------------ MODULE MCRelease ------------------------------
(* One module beside onus/__init__.py, two versions. *)
EXTENDS Release

(* The first backend cannot be read from one packaging; a newer one makes   *)
(* defective artifacts of it, and refuses what the first took.              *)
TwoBackends == <<[plain |-> "sound", bare |-> "unreadable"], [plain |-> "refused", bare |-> "defective"]>>
=============================================================================
