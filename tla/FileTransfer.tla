---------------------------- MODULE FileTransfer ----------------------------
(***************************************************************************)
(* What a file transfer between two clients promises, whoever opened the   *)
(* connection: no byte arrives after the receiver's transfer has ended, the   *)
(* receiver completes with the last byte and in no other way, and the      *)
(* sender never reports a success before every byte has arrived.           *)
(***************************************************************************)
EXTENDS Naturals

CONSTANT Total     \* size of the file

VARIABLES
  got,             \* bytes the receiver has written
  sender,          \* what each side has learnt of the transfer
  receiver

fileVars == <<got, sender, receiver>>

Outcome == {"none", "complete", "failed", "cancelled"}

FileTransferInit == got = 0 /\ sender = "none" /\ receiver = "none"

\* A piece arrives; with the last one the receiver learns whether the file
\* could be put in place.
Arrives ==
  /\ receiver = "none"
  /\ got < Total
  /\ got' \in (got + 1)..Total
  /\ receiver' \in (IF got' = Total THEN {"complete", "failed"} ELSE {"none"})
  /\ UNCHANGED sender

SenderLearns ==
  /\ sender = "none"
  /\ sender' \in Outcome \ {"none"}
  /\ sender' = "complete" => got = Total
  /\ UNCHANGED <<got, receiver>>

ReceiverLearns ==
  /\ receiver = "none"
  /\ receiver' \in {"failed", "cancelled"}
  /\ UNCHANGED <<got, sender>>

FileTransferNext == Arrives \/ SenderLearns \/ ReceiverLearns

FileTransferSpec == FileTransferInit /\ [][FileTransferNext]_fileVars
=============================================================================
