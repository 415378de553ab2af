SPECIFICATION FairSpec
CONSTANTS
  m1 = m1
  m2 = m2
  m3 = m3
  r1 = r1
  r2 = r2
  Msgs = {m1,m2,m3}
  Runs = {r1,r2}
  Poison = {m3}
  MaxMessages = 2
  Options <- Deployments
  MaxFailures = 1
INVARIANTS TypeOK AckedIsPublished EffectivelyOnce TokensSecured
PROPERTIES NacksOnlyTruncated ImplementsDelivery EveryMessageAcked EveryRunEnds
