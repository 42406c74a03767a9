CONSTANTS
  MaxRevision = 1
  MaxRenders = 2
SPECIFICATION MCSpec
INVARIANT TypeOK
PROPERTY BannerFollows
PROPERTY NeverPunished
PROPERTY TableCatchesUp
