SPECIFICATION Spec
CONSTANTS
  f1 = f1 f2 = f2 f3 = f3 a = a b = b n = n s1 = s1 s2 = s2 cf = cf cg = cg ch = ch src = src
  None = None
  Threads = {t1, t2}
  Funcs = {f1, f2, f3}
  Crashes = {a, b, n}
  Sigs = {s1, s2}
  Codes = {cf, cg, ch, n1, n2, n3}
  Excs = {e1, e2}
  At <- TwoSiteAt
  Fix <- TwoSiteAt
  Sig <- TwoSiteSig
  Sources = {src} Source <- OneSource Files <- AllFiles
  Names <- SharedNames Name <- SharedName File <- SharedFile Removes <- SharedRemoves
  Pristine <- MCPristine3
  NoSpec = {} Rejected = {n} Ineffective = {}
  Uninvokable = {} Healed = {} PriorRegistry = {}
  Socketed = {} RewindWorks = {TRUE} SaveWorks = {TRUE, FALSE}
  MaxRetries = 1 DryRun = FALSE RecycleIds = FALSE
  RollbackAnytime = FALSE
  MaxRaises = 2 MaxDepth = 2 MaxRollbacks = 1
CONSTRAINT PatchedApart
SYMMETRY Symmetric
INVARIANTS OwnBody BackupPristine LiveMatchesStore
PROPERTY GuardsGrow
