------------------------------ MODULE MCReplyWatch ------------------------------
(* Instances of ReplyWatch, with the client of RpcClient, for TLC.           *)
EXTENDS ReplyWatch
CONSTANTS r1, r2
=============================================================================
