---------------------------- MODULE MCUploadTask ----------------------------
(* The upload model, instantiated by UploadTask.cfg and UploadResend.cfg.  *)
EXTENDS UploadTask

=============================================================================
