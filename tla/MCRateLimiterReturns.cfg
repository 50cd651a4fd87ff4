SPECIFICATION FairSpec
CONSTANT limit = 3
PROPERTY LimitReturns
