CONSTANTS
  MaxLinks = 3
  MaxChunks = 2
SPECIFICATION FairSpec
INVARIANTS
  TypeOK
  ActiveConnIsTheLink
  FlagsFollowCentral
  RelayedWhileSubscribed
PROPERTIES
  AdvertisesAgain
