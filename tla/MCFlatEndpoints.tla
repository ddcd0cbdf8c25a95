---------------------------- MODULE MCFlatEndpoints ---------------------------
\* One topic written in two ways and another that differs from it, as sequences
\* of characters.
EXTENDS FlatEndpoints

MCTopics == {<<"a", "/", "b">>, <<"/", "a", "/", "b">>, <<"/", "b">>}
===============================================================================
