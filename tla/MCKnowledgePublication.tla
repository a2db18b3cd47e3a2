----------------------- MODULE MCKnowledgePublication -----------------------
(* A small instance of KnowledgePublication: one proposal and its reviewers. *)
EXTENDS KnowledgePublication, TLC

CONSTANTS p1, author, r1, r2, j1, j2, e1, e2, c1, c2, c3

MCProposals == {p1}
MCUsers == {author, r1, r2}
MCJobs == {j1, j2}
MCEntries == {e1, e2}
MCCalls == {c1, c2}
MCCallsThree == {c1, c2, c3}
MCAuthor == p1 :> author

\* Reviewers, jobs, entries and requests are interchangeable.
Symmetry ==
    Permutations({r1, r2}) \cup Permutations(MCJobs)
    \cup Permutations(MCEntries) \cup Permutations(MCCallsThree)
=============================================================================
