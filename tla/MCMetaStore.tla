----------------------------- MODULE MCMetaStore -----------------------------
(* Two contents and four-bit sequence numbers, so that the sequence space  *)
(* is used up and the last number is reached.                              *)
EXTENDS MetaStore
=============================================================================
