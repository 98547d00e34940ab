------------------------------ MODULE MCRouting ------------------------------
EXTENDS Routing

Candidate(name, provider, price, fitness) ==
    [api_model |-> name, provider |-> provider, price |-> price,
     fitness |-> fitness, tools |-> TRUE]

\* Provider a has budget windows, b speaks through headers or the limiter, c is
\* not metered at all.  a and b offer the weak model on the same terms.
MCProviders == {"a", "b", "c"}
MCWindows == [a |-> <<[budget |-> 20, period |-> 40], [budget |-> 40, period |-> 80]>>,
              b |-> <<>>, c |-> <<>>]

PaidA == Candidate(1, "a", 5, 9)
FreeB == Candidate(2, "b", 0, 5)
FreeC == Candidate(3, "c", 0, 5)
WeakA == Candidate(4, "a", 0, 4)
WeakB == Candidate(4, "b", 0, 4)
Unpriced == Candidate(5, "c", NoPrice, 3)
PaidC == Candidate(6, "c", 2, 2)

MCListings == { <<PaidA, FreeB, FreeC, WeakA, WeakB, Unpriced, PaidC>>,
                <<PaidA, FreeC, FreeB, WeakB, WeakA, Unpriced, PaidC>> }
MCRanks == <<3, 4, 4, 12, 2, 3>>
MCRequests == {<<"haiku", "none">>, <<"haiku", "high">>, <<"opus", "low">>, <<"opus", "max">>,
               <<"other", "low">>}
MCResolved == {"S01_haiku", "S06_opus_low", "S10_opus_max"}
==============================================================================
