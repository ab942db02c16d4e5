------------------------------ MODULE MCDoctor ------------------------------
(***************************************************************************)
(* Small runs of the doctor: over an adapter whose three sources are       *)
(* listed out of order beside one without sources; over two providers with *)
(* a source each; and over one nobody knows.                               *)
(***************************************************************************)
EXTENDS Doctor

src(id, tier) == [id |-> id, tier |-> tier]

MCProviders == {"custom", "antigravity", "codex", "claude"}
MCDeclared ==
  [custom |-> <<src("app_server", TierLocalRPC), src("oauth_api", TierAPI),
                src("local_state", TierLocalState)>>,
   antigravity |-> <<>>,
   codex  |-> <<src("app_server", TierLocalRPC)>>,
   claude |-> <<src("transcript", TierTranscripts)>>]
MCRanged == {"codex"}
MCRequests == {<<"antigravity", "custom", "antigravity">>, <<"codex", "claude", "codex">>,
               <<"codex", "ghost">>}
MCPolicies == {<<"default", "">>, <<"local", "">>}
MCInterruptions == {"canceled", "deadline"}
MCDetections == {Absent, [installed |-> TRUE, version |-> "absent"],
                 [installed |-> TRUE, version |-> "older"]}
MCFetchErrors == {"", "credential_expired", "parse_failed"}
MCWatched == "custom"
=============================================================================
