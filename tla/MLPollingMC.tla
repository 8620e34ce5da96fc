---------------------------- MODULE MLPollingMC ----------------------------
EXTENDS MLPolling, TLC

CONSTANTS a1, a2, j1, u1, u2

\* The job is delivered twice.
MCJobOf == (a1 :> j1) @@ (a2 :> j1)

AsyncOffer == [speaks |-> {"core", "legacy"}, accepting |-> TRUE, async |-> TRUE, prefers |-> "async"]

\* A service that queues jobs, one that does not accept them just now, and
\* no service at all.
MCOffers == {AsyncOffer, [AsyncOffer EXCEPT !.accepting = FALSE], [AsyncOffer EXCEPT !.speaks = {}]}

MCTrouble == [any |-> 2, call |-> 2, config |-> 1, crash |-> 1, expire |-> 1, service |-> 1]
=============================================================================
