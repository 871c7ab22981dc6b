CONSTANT Requests = 3
SPECIFICATION FairSpec
INVARIANTS
  TypeOK
  NoStrandedCard
PROPERTY CardComesDown
