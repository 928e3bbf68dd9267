SPECIFICATION MCSpec
CONSTANTS
  blank = blank
  word = word
  c1 = c1
  c2 = c2
  t1 = t1
  t2 = t2
  NoTerm = blank
  NoRow = NoRow
  Nobody = Nobody
  Terms <- TwoTerms
  Clicks <- TwoClicks
  Tabs <- TwoTabs
  MaxRedirects = 4
  NoToken = NoToken
  Nowhere = Nowhere
  MaxFetches = 4
  MaxTable = 3
INVARIANT ListShowsSearch
INVARIANT OwnChangeShown
INVARIANT SetupUsable
INVARIANT CodesReachUser
INVARIANT BannerKnowsOwnChange
INVARIANT GoalKept
INVARIANT RedirectsEnd
PROPERTY ListSettles
CHECK_DEADLOCK FALSE
