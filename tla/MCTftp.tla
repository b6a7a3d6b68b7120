------------------------------- MODULE MCTftp -------------------------------
(***************************************************************************)
(* A file of one full block, which an empty block ends, and one of a full  *)
(* and a short block, which does not fit into the buffer of TFTP_GetFile.  *)
(***************************************************************************)
EXTENDS Tftp, TLC

CONSTANTS short, long

MCSizeOf == short :> 2 @@ long :> 3
=============================================================================
