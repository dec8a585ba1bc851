SPECIFICATION MCSpec
CONSTANTS
  Profiles = {p1, p2, p3}
  Providers <- MCProviders
  SeedOrder <- MCSeedOrder
  ResolveOrder <- MCResolveOrder
  Required <- MCRequired
  Unread <- MCUnread
  Capability <- MCCapability
  Default <- MCDefault
  Cloud <- MCCloud
  Threads = {t1, t2}
  NoProfile = NoProfile
  NoProvider = NoProvider
  MaxRequests = 3
  Features <- MCFeatures
  Needed <- MCNeeded
  Instances <- MCInstances
  Provides <- MCProvides
  CloudBased = {"openai"}
  Models <- MCModels
  External = {"gpt"}
  Nameless = {"raw"}
  Bases = {"kb", "own"}
  StoredAt <- MCStoredAt
  EmbeddedAt <- MCEmbeddedAt
  EmbeddedWith <- MCEmbeddedWith
  SelfProvided = {"own"}
  Natives <- MCNatives
  TaskKey <- MCTaskKey
  Groups <- MCGroups
  Offers <- MCOffers
  NoBinding = NoBinding
  NoResource = NoResource
  MaxChanges = 3
  MaxTurns = 1
INVARIANTS
  ActiveIsComplete
  SnapshotIsSound
  JudgesAgree
SYMMETRY MCSymmetry
