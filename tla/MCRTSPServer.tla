---------------------------- MODULE MCRTSPServer ----------------------------
(* The RTSP server for TLC: its client sessions are interchangeable.         *)
EXTENDS RTSPServer, TLC

Interchangeable == Permutations(Sessions)
=============================================================================
