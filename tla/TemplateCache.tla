--------------------------- MODULE TemplateCache ----------------------------
(***************************************************************************)
(* TemplateLoader::getTemplate: threads look for the best translation of a *)
(* template, while the files change.  The virtual function tryFile is that *)
(* of TemplateLoader, which reads a file, or that of TemplateCache, which  *)
(* holds the mutex while it reads a file, but uses the entry of the cache  *)
(* after it has unlocked it.                                               *)
(*                                                                         *)
(* A file that cannot be read has no document, as one that does not exist. *)
(***************************************************************************)
EXTENDS Integers, QCache

CONSTANTS
  Loaders,            \* threads that load templates
  Default,            \* the name of the template
  Locales,            \* values of Accept-Locale, sequences of [exact, language]
  Sizes,              \* of each name of a file: the cost of its document
  FirstTemplates,     \* the names of the files in the beginning
  TemplateCacheSize,  \* the setting cacheSize
  TemplateCacheTime,  \* the setting cacheTime, 0 for no timeout
  MaxLoads,           \* bound: calls of getTemplate
  MaxEdits,           \* bound: changes of the files
  MaxTemplateTime     \* bound: ticks of the clock

TemplateNames == DOMAIN Sizes

(* The name of a file that is looked for may have a document, or none.    *)
ASSUME TemplateAssumption ==
  /\ TemplateCacheSize \in Nat /\ TemplateCacheTime \in Int
  /\ \A n \in TemplateNames : Sizes[n] \in Nat
  /\ Default \in TemplateNames
  /\ \A l \in Locales : l \in Seq([exact : TemplateNames, language : TemplateNames])

VARIABLES
  time,
  caching,    \* is the loader a TemplateCache?
  documents,  \* of each name: the version of its document, 0 for none
  replaced,   \* the versions that were replaced: [name, version, at]
  entries,    \* the cache: [key, cost, id, document, created]
  loader,     \* where a thread is in getTemplate, and its local variables
  loads       \* calls of getTemplate and of the constructor of entries

templateVars == <<time, caching, documents, replaced, entries, loader, loads>>

TemplateIdle == [at |-> "idle", pending |-> << >>, tried |-> << >>, now |-> 0,
                 entry |-> << >>, found |-> "", order |-> << >>]

TemplateInit ==
  /\ time = 1
  /\ caching \in BOOLEAN
  /\ documents = [n \in TemplateNames |-> IF n \in FirstTemplates THEN 1 ELSE 0]
  /\ replaced = << >>
  /\ entries = << >>
  /\ loader = [t \in Loaders |-> TemplateIdle]
  /\ loads = [calls |-> 0, entries |-> 0]
-----------------------------------------------------------------------------
TemplateTick ==
  /\ time < MaxTemplateTime
  /\ time' = time + 1
  /\ UNCHANGED <<caching, documents, replaced, entries, loader, loads>>

(* A file appears, changes or goes. *)
EditTemplate(n) ==
  /\ Len(replaced) < MaxEdits
  /\ \E version \in {0, Len(replaced) + 2} \ {documents[n]} :
       documents' = [documents EXCEPT ![n] = version]
  /\ replaced' = Append(replaced, [name |-> n, version |-> documents[n], at |-> time])
  /\ UNCHANGED <<time, caching, entries, loader, loads>>
-----------------------------------------------------------------------------
(***************************************************************************)
(* The loops of getTemplate: exact matches, then languages, the default.   *)
(***************************************************************************)
SearchOrder(locales) ==
  [i \in DOMAIN locales |-> locales[i].exact]
    \o [i \in DOMAIN locales |-> locales[i].language] \o <<Default>>

GetTemplate(t, locales) ==
  /\ loader[t].at = "idle"
  /\ loads.calls < MaxLoads /\ loads' = [loads EXCEPT !.calls = @ + 1]
  /\ loader' = [loader EXCEPT ![t] = [TemplateIdle EXCEPT !.at = "next",
                     !.pending = SearchOrder(locales), !.order = SearchOrder(locales)]]
  /\ UNCHANGED <<time, caching, documents, replaced, entries>>

WasTried(t, name) == \E i \in DOMAIN loader[t].tried : loader[t].tried[i].name = name

(* Duplicates are suppressed; tryFile reads the clock first. *)
NextName(t) ==
  /\ loader[t].at = "next" /\ loader[t].pending # << >>
  /\ IF WasTried(t, Head(loader[t].pending))
     THEN loader' = [loader EXCEPT ![t].pending = Tail(@)]
     ELSE loader' = [loader EXCEPT ![t].at = "try", ![t].now = time]
  /\ UNCHANGED <<time, caching, documents, replaced, entries, loads>>

\* Mutant: that there is no such file is remembered for ever.
FreshOrMissing(e, now) ==
  TemplateCacheTime = 0 \/ e.document = 0 \/ e.created > now - TemplateCacheTime

FreshTemplate(e, now) == TemplateCacheTime = 0 \/ e.created > now - TemplateCacheTime

(* A document that is not empty is the template, that of the last name too. *)
Tried(t, document) ==
  LET name == Head(loader[t].pending)
      found == document # 0 \/ Len(loader[t].pending) = 1
  IN  [loader[t] EXCEPT !.pending = Tail(@), !.entry = << >>,
         !.tried = Append(@, [name |-> name, document |-> document, now |-> loader[t].now]),
         !.at = IF found THEN "found" ELSE "next", !.found = IF found THEN name ELSE ""]

(* tryFile of TemplateLoader. *)
TryFile(t) ==
  /\ loader[t].at = "try" /\ ~ caching
  /\ loader' = [loader EXCEPT ![t] = Tried(t, documents[Head(@.pending)])]
  /\ UNCHANGED <<time, caching, documents, replaced, entries, loads>>

(* The part of tryFile of TemplateCache that holds the mutex. *)
TryCachedFile(t) ==
  LET name == Head(loader[t].pending)
      fresh == {e \in EntriesOf(entries, name) : FreshTemplate(e, loader[t].now)}
      read == [key |-> name, cost |-> IF documents[name] = 0 THEN 0 ELSE Sizes[name],
               id |-> loads.entries + 1, document |-> documents[name],
               created |-> loader[t].now]
  IN
  /\ loader[t].at = "try" /\ caching
  /\ \/ /\ fresh # {}
        /\ \E e \in fresh : loader' = [loader EXCEPT ![t].at = "use", ![t].entry = e]
        /\ entries' = Used(entries, name)
        /\ UNCHANGED loads
     \/ /\ fresh = {}
        /\ loader' = [loader EXCEPT ![t].at = "use", ![t].entry = read]
        /\ entries' = Insert(entries, read, TemplateCacheSize)
        /\ loads' = [loads EXCEPT !.entries = @ + 1]
  /\ UNCHANGED <<time, caching, documents, replaced>>

Alive(e) == e \in ToSet(entries)

(* The return of tryFile, and what getTemplate does with the document. *)
UseEntry(t) ==
  /\ loader[t].at = "use" /\ Alive(loader[t].entry)
  /\ loader' = [loader EXCEPT ![t] = Tried(t, @.entry.document)]
  /\ UNCHANGED <<time, caching, documents, replaced, entries, loads>>

(* The entry was deleted: what the thread reads is not defined. *)
UseDeletedEntry(t) ==
  /\ loader[t].at = "use" /\ ~ Alive(loader[t].entry)
  /\ loader' = [loader EXCEPT ![t] = [TemplateIdle EXCEPT !.at = "undefined"]]
  /\ UNCHANGED <<time, caching, documents, replaced, entries, loads>>

TemplateReturns(t) ==
  /\ loader[t].at = "found"
  /\ loader' = [loader EXCEPT ![t] = TemplateIdle]
  /\ UNCHANGED <<time, caching, documents, replaced, entries, loads>>

TemplateNext ==
  \/ TemplateTick
  \/ \E n \in TemplateNames : EditTemplate(n)
  \/ \E t \in Loaders :
       \/ \E locales \in Locales : GetTemplate(t, locales)
       \/ NextName(t) \/ TryFile(t) \/ TryCachedFile(t)
       \/ UseEntry(t) \/ UseDeletedEntry(t) \/ TemplateReturns(t)

TemplateSpec == TemplateInit /\ [][TemplateNext]_templateVars
-----------------------------------------------------------------------------
(***************************************************************************)
(* The template that a thread gets is the best one: each name before it in *)
(* the order of the documentation was looked up, once, and had no document *)
(* then, or less than cacheTime before if there is a cache; the one it     *)
(* gets had this document then, unless there is none at all.  Other        *)
(* threads and the files go on meanwhile.  (order is kept for this.)       *)
(***************************************************************************)
HadDocument(name, version, since) ==
  \/ documents[name] = version
  \/ \E i \in DOMAIN replaced :
       replaced[i].name = name /\ replaced[i].version = version /\ replaced[i].at >= since

BestTemplateFound ==
  \A t \in Loaders :
    LET tried == loader[t].tried
        n == Len(tried)
    IN
    /\ \A i \in 1 .. n :
         HadDocument(tried[i].name, tried[i].document,
                     IF ~ caching THEN tried[i].now
                     ELSE IF TemplateCacheTime = 0 THEN 0
                     ELSE tried[i].now - TemplateCacheTime)
    /\ \A i \in 1 .. n - 1 : tried[i].document = 0
    /\ \A i, j \in 1 .. n : tried[i].name = tried[j].name => i = j
    /\ loader[t].at = "found" => tried[n].document # 0 \/ tried[n].name = Default
    /\ loader[t].at = "found" =>
         \A k \in 1 .. SelectInSeq(loader[t].order, LAMBDA name : name = loader[t].found) :
           \E i \in 1 .. n : tried[i].name = loader[t].order[k]

(***************************************************************************)
(* getTemplate "is thread safe": the entry whose document a thread is      *)
(* about to return has not been deleted, by its own insertion or by that   *)
(* of another thread.                                                      *)
(***************************************************************************)
EntryAlive == \A t \in Loaders : loader[t].at = "use" => Alive(loader[t].entry)
=============================================================================
