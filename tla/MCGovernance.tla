---------------------------- MODULE MCGovernance ----------------------------
EXTENDS Governance

OneChannel == <<"webhook">>
TwoChannels == <<"webhook", "telegram">>

\* Gaps that grow like 6, 12 and 24 hours, in the few hours of a run.
ShortGap == <<1, 2, 3>>

\* One page, ten calls and ten tokens a day.
SmallLimit ==
    [k \in Kinds |-> CASE k = "crawl_page" -> 1
                       [] k = "tool_call" -> 10
                       [] k = "embedding_tokens" -> 10]
=============================================================================
