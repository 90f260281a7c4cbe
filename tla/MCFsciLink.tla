----------------------------- MODULE MCFsciLink -----------------------------
(* One application thread that writes, for TLC; observers write as well.        *)
EXTENDS FsciLink

CONSTANT w1
MCWriters == {w1}

=============================================================================
