SPECIFICATION FairSpec
CONSTANTS
  Clients = {c1, c2}
  Requests <- MCRequests
  MAXLINE = 6
  RIO_BUFSIZE = 4
  Uris <- MCUris
  Files <- MCFiles
  Addresses = 2
INVARIANTS AnsweredAsAsked NothingIsLeft ReadsTheStream
PROPERTY EveryClientIsServed
CHECK_DEADLOCK FALSE
