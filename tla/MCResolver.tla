----------------------------- MODULE MCResolver -----------------------------
(***************************************************************************)
(* A small collection run: codex, whose two sources share a rank, and an   *)
(* adapter that lists its sources out of order.                            *)
(***************************************************************************)
EXTENDS Resolver

src(id, tier) == [id |-> id, tier |-> tier]

MCProviders == {"codex", "custom"}
MCDeclared ==
  [codex  |-> <<src("app_server", TierLocalRPC)>>,
   custom |-> <<src("transcript", TierTranscripts), src("oauth_api", TierAPI)>>]
MCRequests == {<<"custom", "codex", "custom">>, <<"codex", "ghost">>}
MCPolicies == {<<"default", "">>, <<"local", "">>}
MCStrict == BOOLEAN
MCInterruptions == {"deadline"}
MCDetect == {"absent", "newer", "older"}
MCFetch == {Report("absent", FALSE, ""), Report("newer", FALSE, "exact"),
            FetchError("parse_failed", "none")}
MCCooperative == {<<"custom", 1>>, <<"codex", 1>>}

(* Liveness: a source that never heeds its context comes first, and a      *)
(* provider that declares no source at all runs beside it.                 *)
LiveProviders == {"custom", "antigravity"}
LiveDeclared ==
  [custom |-> <<src("transcript", TierTranscripts), src("oauth_api", TierAPI)>>,
   antigravity |-> <<>>]
LiveRequests == {<<"custom", "antigravity">>}
LiveStrict == {FALSE}
LivePolicies == {<<"default", "">>, <<"remote", "">>}
LiveInterruptions == {"canceled", "deadline"}
LiveDetect == {"absent", "verified"}
LiveFetch == {Report("absent", FALSE, ""), FetchError("", "none")}
LiveCooperative == {<<"custom", 1>>}

(* The codex ladder as its adapter declares it, for what the comments and  *)
(* the tests say of one walk.                                              *)
CodexProviders == {"codex"}
CodexDeclared ==
  [codex |-> <<src("app_server", TierLocalRPC), src("local_state", TierLocalState)>>]
CodexRequests == {<<"codex">>}
CodexPolicies == {<<"default", "">>}
CodexDetect == {"verified"}
CodexCooperative == {<<"codex", 1>>, <<"codex", 2>>}
=============================================================================
