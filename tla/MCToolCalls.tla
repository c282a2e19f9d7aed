---------------------------- MODULE MCToolCalls ----------------------------
(***************************************************************************)
(* The tool dispatcher for TLC: tool calls against the community store,    *)
(* and an execute_pipeline call.  They share no variable, so a step of one *)
(* commutes with every step of the other, and behaviours in which only one *)
(* of them moves are all that either needs.                                *)
(***************************************************************************)
EXTENDS ExecuteTool, TLC

Symmetry == Permutations(SessionIds) \cup Permutations(RoomIds)

CallsInit == NoticeInit /\ PipelineInit

CallsNext ==
  \/ steps = <<>> /\ NoticeNext /\ UNCHANGED pipelineVars
  \/ NoticeInit /\ PipelineNext /\ UNCHANGED noticeVars

CallsSpec == CallsInit /\ [][CallsNext]_<<noticeVars, pipelineVars>>
=============================================================================
