-------------------------- MODULE MCChannelReader --------------------------
(* Small instances of ChannelReader: a five-byte buffer, two-byte structs, *)
(* so that tails shorter than a struct, a full buffer and the threshold    *)
(* (four bytes) are all distinct, and a queue of one block so that it      *)
(* fills up.                                                               *)
EXTENDS ChannelReader
============================================================================
