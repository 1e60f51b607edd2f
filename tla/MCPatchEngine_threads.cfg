SPECIFICATION FairSpec
CONSTANTS
  f1 = f1 f2 = f2 f3 = f3 a = a b = b n = n s1 = s1 s2 = s2 cf = cf cg = cg ch = ch src = src
  None = None
  Threads = {t1, t2}
  Funcs = {f1, f2}
  Crashes = {a, b, n}
  Sigs = {s1, s2}
  Codes = {cf, cg, n1, n2}
  Excs = {e1, e2}
  At <- OneSiteAt
  Fix <- OneSiteAt
  Sig <- OneSiteSig
  Sources = {src} Source <- OneSource Files <- AllFiles
  Names <- ApartNames Name <- ApartName File <- ApartFile Removes <- ApartRemoves
  Pristine <- MCPristine
  NoSpec = {n} Rejected = {} Ineffective = {}
  Uninvokable = {f2} Healed = {} PriorRegistry = {b}
  Socketed = {f1} RewindWorks = {TRUE, FALSE} SaveWorks = {TRUE, FALSE}
  MaxRetries = 1 DryRun = FALSE RecycleIds = FALSE
  RollbackAnytime = FALSE
  MaxRaises = 2 MaxDepth = 2 MaxRollbacks = 0
INVARIANTS TypeOK GuardLive CountedOnce CountedIsOnRecord
PROPERTY HandlerReturns
