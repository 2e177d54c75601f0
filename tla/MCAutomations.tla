--------------------------- MODULE MCAutomations ---------------------------
(* A gated and limited follow-up of completed runs, a webhook that wakes an *)
(* agent, and two limited follow-ups of streaming sessions, of which one    *)
(* stops what the other starts.                                             *)
EXTENDS Automations, TLC

CONSTANTS hook, followup, begun, over

MCAutos == {hook, followup, begun, over}

MCConfig ==
    (hook :> [on |-> "webhook_received", gate |-> "any", max |-> 0,
              chain |-> <<"ai_session", "workflow">>, retry |-> 0,
              stop |-> TRUE, cool |-> 1])
    @@ (followup :> [on |-> "workflow_completed", gate |-> "error", max |-> 1,
              chain |-> <<"workflow">>, retry |-> 1, stop |-> FALSE,
              cool |-> 0])
    @@ (begun :> [on |-> "streaming_session_started", gate |-> "any",
              max |-> 1, chain |-> <<"workflow", "stop_streaming_session">>,
              retry |-> 0, stop |-> FALSE, cool |-> 0])
    @@ (over :> [on |-> "streaming_session_ended", gate |-> "any",
              max |-> 1, chain |-> <<"start_streaming_session">>,
              retry |-> 0, stop |-> FALSE, cool |-> 0])
=============================================================================
