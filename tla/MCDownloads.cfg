SPECIFICATION DownSpec
CONSTANTS
  c1 = c1
  c2 = c2
  httpserverc = httpserverc
  other = other
  Nobody = Nobody
  Clients = {c1, c2}
  Copying = {c2}
  Servers = {httpserverc, other}
  Fields = {other}
  Urls <- MCUrls
  Response <- MCResponse
  BodyStart <- MCBodyStart
  Buffer = 7
  LineSize = 9
  HeadSize = 14
  MaxBody = 13
CHECK_DEADLOCK FALSE
INVARIANTS
  NothingLost
  TypeOK
PROPERTIES
  DownloadsEnd
