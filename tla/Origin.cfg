SPECIFICATION FairSpec
CONSTANTS
  Sessions = {s1}
  Livestream = livestream
  Namespaces = {livestream}
  MaxItems = 5
INVARIANTS
  TypeOK
  Decodable
PROPERTY
  Answered
CHECK_DEADLOCK FALSE
