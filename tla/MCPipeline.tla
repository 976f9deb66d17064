------------------------------ MODULE MCPipeline ------------------------------
(* Frames are either usable or one kind of unusable.*)
EXTENDS Pipeline

MCCaptures == {{}, {"incomplete"}}
=============================================================================
