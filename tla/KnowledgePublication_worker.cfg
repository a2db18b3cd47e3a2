CONSTANTS
    p1 = p1
    author = author
    r1 = r1
    r2 = r2
    j1 = j1
    j2 = j2
    e1 = e1
    e2 = e2
    c1 = c1
    c2 = c2
    c3 = c3
    Nobody = Nobody
    MaxAttempts = 2
    Proposals <- MCProposals
    Users <- MCUsers
    Jobs <- MCJobs
    Entries <- MCEntries
    Calls <- MCCalls
    Author <- MCAuthor
SPECIFICATION FairSpec
PROPERTY
    PublicationSettles
CHECK_DEADLOCK FALSE
