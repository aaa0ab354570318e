---------------------------- MODULE MCFetchStage ----------------------------
(***************************************************************************)
(* The programs of MCFetchPrograms, with the stream they ask for.          *)
(***************************************************************************)
EXTENDS FetchStageStream, MCFetchPrograms
=============================================================================
