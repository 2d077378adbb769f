----------------------------- MODULE MCBlobSpool -----------------------------
(* BlobSpool on small instances. *)
EXTENDS BlobSpool
=============================================================================
