\* One connection with small requests, some over the limits, in pieces of
\* any length, and a service that makes up to two calls; two threads that
\* use the caches of files and templates; small texts of templates;
\* a service with three clients and a second process, or with two controls and
\* two controllers.
CONSTANTS
  MaxSize = 13
  MaxMultiPartSize = 12
  MaxCalls = 2
  Scripts <- SmallScripts
  Cookies <- SmallCookies
  Jars <- SmallJars
  Texts <- SmallTexts
  Readers = {w1, w2}
  Paths = {"page", "folder", "up", "locked"}
  Directories = {"folder"}
  Forbidden = {"up"}
  FileTypes <- SmallSuffixes
  Pieces <- SmallPieces
  FileSizes = {0, 2}
  FirstState <- SmallState
  MaxCachedFileSize = 1
  CacheSize = 2
  CacheTime = 1
  Changing = {"folder"}
  MaxRequests = 3
  MaxVersions = 1
  MaxTime = 3
  Loaders = {w1, w2}
  Default = "index"
  Locales <- SmallLocales
  Sizes <- SmallSizes
  FirstTemplates = {"de_DE", "index"}
  TemplateCacheSize = 2
  TemplateCacheTime = 1
  MaxLoads = 2
  MaxEdits = 1
  MaxTemplateTime = 3
  Templates <- SmallTemplates
  Operations <- AllOperations
  Clients = {"first", "second", "third"}
  Services = {s1, s2}
  NoService = NoService
  Addresses = {a1, a2}
  NoAddress = NoAddress
  Flags <- SmallFlags
  Uses <- SmallUses
  NoThread = NoThread
  WindowsFlags <- SmallWindowsFlags
  MaxControls = 2
  Controllers = {"stopper", "other"}
  NoController = NoController
  ControllerUses <- SmallControllerUses
  MaxPolls = 1
SPECIFICATION MCSpec
SYMMETRY Interchangeable
CHECK_DEADLOCK FALSE
INVARIANTS
  SizesLimited
  RefusedForAReason
  RequestsKeptApart
  EndOfResponseKnown
  TurnsReadSomething
  SplitsAtSemicolons
  CookieSurvives
  HitsAreRecent
  BestTemplateFound
  FlatTextsExpanded
  CommandsObeyedOnce
  NobodyWaitsInVain
  ControlsAreServed
  ControllersAreTold
