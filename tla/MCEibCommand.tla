---------------------------- MODULE MCEibCommand ----------------------------
(***************************************************************************)
(* EibCommand for two threads: one polls, measures and configures, one     *)
(* streams.                                                                *)
(***************************************************************************)
EXTENDS EibCommand

MCAppCalls == <<{"config", "poll", "realtime"}, {"poll", "stream", "test"}>>

=============================================================================
