------------------------------- MODULE MCPcc -------------------------------
(* Instances of Pcc for TLC: one source of each kind, with the vector      *)
(* offsets of PccDevice.h 100-111.                                         *)
EXTENDS Pcc

CONSTANTS timer1, scsi, soft1

MCVec == [s \in Source |-> CASE s = scsi -> 5 [] s = timer1 -> 8 [] s = soft1 -> 10]
=============================================================================
