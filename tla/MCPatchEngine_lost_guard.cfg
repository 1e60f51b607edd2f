SPECIFICATION Spec
CONSTANTS
  f1 = f1 f2 = f2 f3 = f3 a = a b = b n = n s1 = s1 s2 = s2 cf = cf cg = cg ch = ch src = src
  None = None
  Threads = {t1, t2}
  Funcs = {f1}
  Crashes = {a, b}
  Sigs = {s1, s2}
  Codes = {cf, n1, n2}
  Excs = {e1, e2}
  At <- JustFAt
  Fix <- JustFAt
  Sig <- JustFSig
  Sources = {src} Source <- OneSource Files <- AllFiles
  Names <- ApartNames Name <- ApartName File <- ApartFile Removes <- ApartRemoves
  Pristine <- OneFunction
  NoSpec = {} Rejected = {} Ineffective = {}
  Uninvokable = {} Healed = {} PriorRegistry = {}
  Socketed = {} RewindWorks = {TRUE, FALSE} SaveWorks = {TRUE, FALSE}
  MaxRetries = 3 DryRun = FALSE RecycleIds = FALSE
  RollbackAnytime = FALSE
  MaxRaises = 2 MaxDepth = 1 MaxRollbacks = 0
PROPERTY GuardsGrow
