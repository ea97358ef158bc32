--------------------------- MODULE MCTranscriptLane ---------------------------
(* A session with one subagent.                                             *)
EXTENDS TranscriptLane
=============================================================================
