\* Two threads, one template, an entry that expires: is the entry still
\* there when a thread returns its document?
CONSTANTS
  Loaders = {w1, w2}
  Default = "index"
  Locales <- OneLocale
  Sizes <- OneSize
  FirstTemplates = {"index"}
  TemplateCacheSize = 9
  TemplateCacheTime = 1
  MaxLoads = 2
  MaxEdits = 0
  MaxTemplateTime = 3
SPECIFICATION TemplateSpec
CHECK_DEADLOCK FALSE
INVARIANT EntryAlive
