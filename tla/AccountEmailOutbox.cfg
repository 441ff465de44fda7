SPECIFICATION FairSpec
CONSTANTS
    Links = {l1, l2}
    Notices = {n1}
    NoMail = NoMail
    MaximumAttempts = 2
    RetryDelay = 1
    Grace = 1
    TokenLife = 2
    BatchLimit = 2
    MaxDisruptions = 1
INVARIANTS TypeOK 
PROPERTIES OnlyActiveLinkIsSent MailsAreSettled
CHECK_DEADLOCK FALSE
