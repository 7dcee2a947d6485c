\* Two views, one asset twice (a cache hit, an object replaced by its namesake), a
\* cache of one, a ring of two frames.
SPECIFICATION Spec
CONSTANTS
  robot = robot
  amr = amr
  Assets <- MCAssets
  DefaultAssets <- MCDefaultAssets
  CacheCapacity = 1
  RingCapacity = 2
  Delay = 1
  MaxViews = 2
  MaxNow = 2
INVARIANTS TypeOK AlertFollowsButton NothingKept
PROPERTIES PlaybackForward AssetsSettle
