SPECIFICATION FairSpec
INVARIANTS
  TypeOK
  MirrorUnlessExcused
  SubscriberInSync
PROPERTIES
  ReportReachesSubscriber
