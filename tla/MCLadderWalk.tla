---------------------------- MODULE MCLadderWalk ----------------------------
(* The ladders of the built-in adapters and one of every tier, worst first. *)
EXTENDS LadderWalk

src(id, tier) == [id |-> id, tier |-> tier]

antigravity == <<>>
claude   == <<src("oauth_api", TierAPI), src("transcript", TierTranscripts)>>
codex    == <<src("app_server", TierLocalRPC), src("local_state", TierLocalState)>>
opencode == <<src("local_state", TierLocalState), src("app_server", TierLocalRPC),
              src("cli_stdout", TierCLIScrape)>>
custom   == <<src("cli_stdout", TierCLIScrape), src("transcript", TierTranscripts),
              src("local_state", TierLocalState), src("oauth_api", TierAPI)>>

MCLadders == {antigravity, claude, codex, opencode, custom}
MCPolicies ==
  {<<"default", "">>, <<"local", "">>, <<"remote", "">>, <<"rpc", "">>,
   <<"transcripts", "">>, <<"cli", "">>, <<"local_state", "">>, <<"tier", 3>>,
   <<"floor", 3>>, <<"max_tier", 2>>, <<"id", "transcript">>, <<"id", "unheard of">>}
=============================================================================
