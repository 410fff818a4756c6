----------------------------- MODULE MCMempool -----------------------------
(* Mempool with the clients the runs consider and the symmetry of its      *)
(* interchangeable tids and addresses.                                     *)
EXTENDS Mempool, TLC

\* A client that does none of it.
Quietest == [serial |-> TRUE, reclaims |-> FALSE, marks |-> FALSE, frees |-> FALSE,
             cleans |-> FALSE, errs |-> FALSE, reuses |-> FALSE, chunks |-> 2]

\* Threads mark their exit and leave freeing to the pool's worker.
Orderly == [Quietest EXCEPT !.reclaims = TRUE, !.marks = TRUE, !.cleans = TRUE]
\* The pool as it comes: no worker, blocks freed by hand, tids re-used, and
\* some calls that should not be made.
Default == [Quietest EXCEPT !.marks = TRUE, !.frees = TRUE, !.errs = TRUE, !.reuses = TRUE,
                              !.chunks = 1]
\* The worker runs and blocks are freed by hand as well.
Hasty == [Quietest EXCEPT !.reclaims = TRUE, !.marks = TRUE, !.frees = TRUE, !.chunks = 1]
\* Threads call malloc at the same time.
Racing == [Quietest EXCEPT !.serial = FALSE]

SerialClients == {Orderly, Default, Hasty}
OrderlyClients == {[Orderly EXCEPT !.cleans = FALSE],
                   [Orderly EXCEPT !.cleans = FALSE, !.errs = TRUE, !.chunks = 1]}
RacingClients == {Racing}

MCSymmetry == Permutations(Thread \ {Main}) \cup Permutations(Rec) \cup Permutations(Block)
=============================================================================
