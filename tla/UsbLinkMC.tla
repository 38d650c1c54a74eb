------------------------------- MODULE UsbLinkMC -------------------------------
(***************************************************************************)
(* Blocks of COBS of at most three bytes, and room for the longest record. *)
(***************************************************************************)
EXTENDS UsbLink

MCRecord == {RecordOf(kind, id) : kind \in Kind, id \in Id}
=============================================================================
