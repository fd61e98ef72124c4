----------------------------- MODULE MCPublishTxn -----------------------------
(* Two publishers, two attempts and three files: a swap has a first, a    *)
(* middle and a last file, some to be put back, some to be unlinked.        *)
EXTENDS PublishTxn
=============================================================================
