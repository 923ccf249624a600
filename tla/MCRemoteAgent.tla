--------------------------- MODULE MCRemoteAgent ---------------------------
(* An instance of the remote agent: two jobs of one bundle on one worker.   *)
EXTENDS RemoteAgent, TLC

CONSTANTS j1, j2

MCJobs == {j1, j2}
=============================================================================
