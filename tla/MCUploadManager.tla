--------------------------- MODULE MCUploadManager ---------------------------
(***************************************************************************)
(* One chunk value is enough: contents differ by their length.             *)
(***************************************************************************)
EXTENDS UploadManager

CONSTANT a

MCChunk == {a}
MCOneBody == {<<a>>}
=============================================================================
