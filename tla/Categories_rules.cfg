SPECIFICATION CategoriesAlone
CONSTANTS
  a1 = a1
  a2 = a2
  a3 = a3
  b1 = b1
  b2 = b2
  b3 = b3
  s1 = s1
  s2 = s2
  None = None
  NoArt = NoArt
  Artifacts <- MCArtifacts
  Blobs <- MCBlobs
  Size <- MCSize
  Limit = 2
  MaxFaults = 2
  Contents <- MCContents
  Shots <- MCShots
  BytesOf <- MCBytesOf
  MaxEvents = 3
  BlobMax = 4
  BlobTarget = 3
  Target = 3
  Batch = 2
  MetaBatch = 2
  Rounds = 2
  Segs = {"g1", "g2"}
  BundleOf <- MCBundleOf
  UrlOf <- MCUrlOf
  RuleLists <- MCRuleLists
  Catalogs <- MCCatalogs
  Embedded <- MCEmbedded
  Plist <- MCPlist
  Found = {"util"}
  Unknown = Unknown
  MaxDeaths = 0
  MaxEdits = 1
INVARIANT UserRulesFirst
