SPECIFICATION Spec
CONSTANTS
  h1 = h1
  h2 = h2
  x = x
  y = y
  p1 = p1
  p2 = p2
  t1 = t1
  t2 = t2
  d1 = d1
  tech = tech
  news = news
  Tech = Tech
  go = go
  empty = empty
  Handlers = {h1, h2}
  Empty = empty
  Unused = Unused
  Deleted = Deleted
  SectionIds = {x, y}
  Slugs = {tech, news}
  Spellings = {Tech, news}
  Lower <- ToLower
  Names = {go}
  Generate <- SlugOfName
  PostIds = {p1, p2}
  Statuses = {"draft", "published"}
  PostSlugs = {tech}
  Titles = {go}
  MakeSlug <- SlugOfTitle
  Instants = {t1, t2}
  Schedules = {d1}
  PatchesTried <- OneField
  DefaultLimit = 1
  MaxLimit = 2
  MaxInt = 3
  NotANumber = NotANumber
  RawLimits <- SomeLimits
SYMMETRY ContentSymmetry
INVARIANTS TypeOK PostsHaveSections SlugsFindOne PublishedDated PagesTile
PROPERTIES FirstDateKept EditsMerge
CHECK_DEADLOCK FALSE
