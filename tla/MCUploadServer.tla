--------------------------- MODULE MCUploadServer ---------------------------
(***************************************************************************)
(* TLC: the handlers are alike, and so are the uploads.  Both are model    *)
(* values, and no definition of UploadServer picks one of them.            *)
(***************************************************************************)
EXTENDS UploadServer, TLC

Interchangeable == Permutations(Handler) \cup Permutations(Upload)
=============================================================================
