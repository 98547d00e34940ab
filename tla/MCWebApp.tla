------------------------------ MODULE MCWebApp ------------------------------
EXTENDS WebApp

\* The second scan no longer lists a, whose namesake b then answers for it.
MCCatalogue == <<{"a", "b"}, {"b"}>>
MCNamesakes == [a |-> {"b"}, b |-> {"a"}]
==============================================================================
