------------------------------ MODULE MCTransfer ------------------------------
(* The ways a file reaches the drive without a local copy: through another   *)
(* instance that stages it, through another that pipes it on (the live       *)
(* mode), and through rclone rcat here.  A behaviour is of one of them: two  *)
(* attempts at a task of two chunks, the same file sent live with its        *)
(* retries, two transfers of files of different length to one name; or the   *)
(* failover between servers, which no other file uses.                       *)
EXTENDS LiveStream, DirectTransfer, StreamTransfer, SmartFailover

CONSTANTS t1, t2

VARIABLE part

SizeOf == [t \in Transfers |-> IF t = t1 THEN 1 ELSE 2]

TransferInit ==
  /\ part \in {"stream", "live", "direct", "servers"}
  /\ StreamInit /\ LiveInit /\ DirectInit /\ FailoverInit

TransferNext ==
  /\ UNCHANGED part
  /\ \/ part = "stream"  /\ StreamNext   /\ UNCHANGED <<liveVars, directVars, failoverVars>>
     \/ part = "live"    /\ LiveNext     /\ UNCHANGED <<streamVars, directVars, failoverVars>>
     \/ part = "direct"  /\ DirectNext   /\ UNCHANGED <<streamVars, liveVars, failoverVars>>
     \/ part = "servers" /\ FailoverNext /\ UNCHANGED <<streamVars, liveVars, directVars>>

TransferSpec == TransferInit /\ [][TransferNext]_<<part, streamVars, liveVars, directVars, failoverVars>>

=============================================================================
