----------------------------- MODULE OrderlyBids -----------------------------
(* BidPlacement with the memory of one thing: whether the run was orderly. *)
EXTENDS BidPlacement

\* history: no two bids were ever in flight at once, and nothing failed but
\* inserts that left no row.
VARIABLE orderly

Disorder ==
  \/ \E r \in Requests : \/ ScriptThrows(r) \/ RollbackThrows(r) \/ Crash(r)
                         \/ SaveThrows(r) /\ rows' # rows
  \/ \E r, s \in Requests : r # s /\ {req'[r].pc, req'[s].pc} \subseteq InFlight

TracedInit == Init /\ orderly = TRUE

TracedNext == Next /\ orderly' = (orderly /\ ~Disorder)

TracedSpec == TracedInit /\ [][TracedNext]_<<vars, orderly>> /\ Fairness

\* Bids one after the other, with failing inserts: when nothing is in flight and
\* the auction is open, each rollback has brought Redis back to the highest row.
RollbackRestores == orderly => RedisAgreesWithRows

==============================================================================
