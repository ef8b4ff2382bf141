CONSTANTS
  Guest = Guest
  Patrons = {k1, k2}
  ApprovedSellers = {k1}
  Customers = {k2}
  Works = {w1}
  Terms = {0, 1}
  AllowedPrices = {1}
  Doors = {d1, d2}
  Crew = {c1}
  Urls = {i1, i2}
  Places = {o1, o2}
  MaxSales = 2
  MaxPictures = 2
  Keeper = k1
  PageSize = 2
  MaxPosts = 4
  Folk = {j1, j2}
  Hands = {y1, y2}
  ReviewDays = 1
  LastDay = 2
  MaxInquiries = 1
  MaxReplies = 2
  MaxReviews = 1
  Items = {z1}
  Instances = {x1}
  Visitors = {v1, v2}
  Period = 1
  Retention = 2
  Window = 1
  Buckets = 2
  Throttle = 2
  FinalDay = 3
  FinalTick = 5
  MaxHits = 1
SPECIFICATION Spec
INVARIANT TypeOK
INVARIANT PaidIsKept
INVARIANT NothingGetsLost
INVARIANT StatsTell
CHECK_DEADLOCK FALSE
