----------------------------- MODULE MCWafPipeline -----------------------------
\* WafPipeline for TLC: after an alert that fails the eligibility tests, the
\* block of one alert is superseded by that of a longer one of the same source,
\* which is then revoked.
EXTENDS WafPipeline, TLC

CONSTANTS e1, e2, e3, srcA

MCSourceOf == e1 :> srcA @@ e2 :> srcA @@ e3 :> srcA
MCExpiresAt == e1 :> 1 @@ e2 :> 2 @@ e3 :> 2
MCRequests == << <<"record", e3>>, <<"record", e1>>, <<"record", e2>>, <<"revoke", e2>> >>
MCRuleSets == (SUBSET Events) \ {{}}
MCNoRules == {}
ASSUME RulesAreBlocks
================================================================================
