------------------------------ MODULE MCWafRuntime ------------------------------
\* WafRuntime for TLC: one non-empty rule set, so that revisions differ in
\* their number and in whether they block at all.
EXTENDS WafRuntime

CONSTANT someRules

MCRuleSets == {someRules}
================================================================================
