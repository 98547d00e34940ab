---------------------------- MODULE MCWebControls ----------------------------
EXTENDS WebControls

Row(id, provider, tier, id_has, provider_has, free, tools) ==
    [model_id |-> id, provider |-> provider, tier |-> tier, id_has |-> id_has \cup {""},
     provider_has |-> provider_has \cup {""}, free |-> free, has_tools |-> tools]

\* Two providers offer the same model; one name is found by both search terms.
DeepA == Row("deepseek-lm", "p", "S", {"d", "deepseek", "lm"}, {}, FALSE, TRUE)
DeepB == Row("deepseek-lm", "q", "S", {"d", "deepseek", "lm"}, {"d"}, TRUE, TRUE)
Other == Row("lm-large", "q", "A", {"lm"}, {"d"}, TRUE, FALSE)
Small == Row("d-lm-s", "p", "B", {"d", "lm"}, {}, FALSE, FALSE)
Mini == Row("lm-mini", "p", "A", {"lm"}, {}, FALSE, TRUE)

MCRows == {DeepA, DeepB, Other, Small, Mini}
MCReplies == {MCRows, {DeepA, Other}}
==============================================================================
