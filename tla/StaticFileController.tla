------------------------ MODULE StaticFileController ------------------------
(***************************************************************************)
(* StaticFileController: threads that serve files from one cache, while    *)
(* the files change, grow and shrink, are removed and made again.  The     *)
(* cache is looked up and changed under a mutex, the file is read in       *)
(* between, piece by piece, without it.                                    *)
(*                                                                         *)
(* The contents of a piece of a file is the number of its version.  The    *)
(* names of the operators are those of the class with "Static" where other *)
(* modules have the same.                                                  *)
(***************************************************************************)
EXTENDS Integers, QCache

CONSTANTS
  Readers,            \* handler threads
  Paths,              \* paths that clients ask for
  Directories,        \* those that are directories
  FileTypes,          \* of each path, the suffix of the name
  Forbidden,          \* those with "/.."
  Pieces,             \* of each path, the number of blocks of 64 kB of its file, at first
  FileSizes,          \* the sizes that files change to
  FirstState,         \* of each path: "present", "unreadable" or "absent" in the beginning
  MaxCachedFileSize,  \* in blocks
  CacheSize,          \* the setting cacheSize, in blocks
  CacheTime,          \* the setting cacheTime, 0 for no timeout
  Changing,           \* bound: paths of files that change
  MaxRequests,        \* bound: requests
  MaxVersions,        \* bound: changes of files
  MaxTime             \* bound: ticks of the clock

(* Times in ticks, sizes in blocks.  A negative cacheTime is a time, too: *)
(* with it no entry is ever fresh that was created before the request.    *)
ASSUME StaticAssumption ==
  /\ CacheSize \in Nat /\ CacheTime \in Int
  /\ Pieces \in [Paths -> Nat] /\ FileSizes \subseteq Nat
  /\ Changing \subseteq Paths

VARIABLES
  clock,
  files,   \* of each path: [version, state, size]
  left,    \* of each version that was replaced or removed: when
  cached,  \* the entries, [key, cost, document, created, suffix]
  reader,  \* where a thread is in service, its local variables and its response
  requests \* number of requests so far

staticVars == <<clock, files, left, cached, reader, requests>>

StaticIdle == [at |-> "idle", path |-> "", now |-> 0, suffix |-> "", document |-> << >>,
               keep |-> FALSE, status |-> 0, hit |-> FALSE, type |-> ""]

StaticInit ==
  /\ clock = 1
  /\ files = [p \in Paths |-> [version |-> 0, state |-> FirstState[p], size |-> Pieces[p]]]
  /\ left = << >>
  /\ cached = << >>
  /\ reader = [t \in Readers |-> StaticIdle]
  /\ requests = 0
-----------------------------------------------------------------------------
(* The environment. *)
StaticTick ==
  /\ clock < MaxTime
  /\ clock' = clock + 1
  /\ UNCHANGED <<files, left, cached, reader, requests>>

NewVersion(n) == [version |-> Len(left) + 1, state |-> "present", size |-> n]
Leaving(p) == Append(left, [path |-> p, version |-> files[p].version, at |-> clock])

(* In place: who has opened the file reads on in the new version. *)
ReplaceFile(p, n) ==
  /\ Len(left) < MaxVersions /\ files[p].state # "absent"
  /\ files' = [files EXCEPT ![p] = NewVersion(n)]
  /\ left' = Leaving(p)
  /\ UNCHANGED <<clock, cached, reader, requests>>

(* Who has opened the file reads on. *)
RemoveFile(p) ==
  /\ Len(left) < MaxVersions /\ files[p].state # "absent"
  /\ files' = [files EXCEPT ![p].state = "absent"]
  /\ left' = Leaving(p)
  /\ UNCHANGED <<clock, cached, reader, requests>>

(* Bound: not before the last thread has read the file that was removed. *)
CreateFile(p, n) ==
  /\ files[p].state = "absent"
  /\ \A t \in Readers : reader[t].at = "reading" => reader[t].path # p
  /\ files' = [files EXCEPT ![p] = NewVersion(n)]
  /\ UNCHANGED <<clock, left, cached, reader, requests>>
-----------------------------------------------------------------------------
(* The suffix of the file that is opened; in a directory it is index.html. *)
SuffixOf(p) == IF p \in Directories THEN "html" ELSE FileTypes[p]

(* The header Content-Type, none for other suffixes. *)
ContentTypes ==
  [png |-> "image/png", jpg |-> "image/jpeg", gif |-> "image/gif", pdf |-> "application/pdf",
   txt |-> "text/plain; charset", html |-> "text/html; charset", htm |-> "text/html; charset",
   css |-> "text/css", js |-> "text/javascript", svg |-> "image/svg+xml",
   woff |-> "font/woff", woff2 |-> "font/woff2", ttf |-> "application/x-font-ttf",
   eot |-> "application/vnd.ms-fontobject", otf |-> "application/font-otf"]
setContentType(suffix) == IF suffix \in DOMAIN ContentTypes THEN ContentTypes[suffix] ELSE "none"

Respond(t, status) ==
  reader' = [reader EXCEPT ![t] = [StaticIdle EXCEPT !.status = status]]

(* The response is complete: the rest of the headers was sent before. *)
Sent(t) ==
  reader' = [reader EXCEPT ![t] = [StaticIdle EXCEPT !.status = 200, !.type = reader[t].type]]

(* The clock is read before the mutex is taken. *)
StaticService(t, p) ==
  /\ reader[t].at = "idle"
  /\ reader' = [reader EXCEPT ![t] = [StaticIdle EXCEPT !.at = "lookup", !.path = p, !.now = clock]]
  /\ requests < MaxRequests /\ requests' = requests + 1
  /\ UNCHANGED <<clock, files, left, cached>>

IsFresh(e, now) == CacheTime = 0 \/ e.created > now - CacheTime

CacheHit(t) ==
  /\ reader[t].at = "lookup"
  /\ \E e \in EntriesOf(cached, reader[t].path) :
       /\ IsFresh(e, reader[t].now)
       /\ cached' = Used(cached, e.key)
       /\ reader' = [reader EXCEPT ![t] =
            [@ EXCEPT !.at = "idle", !.hit = TRUE,
                      !.document = e.document, !.type = setContentType(e.suffix)]]
  /\ UNCHANGED <<clock, files, left, requests>>

(* An entry that has expired stays, as the one that was used last. *)
CacheMiss(t) ==
  LET p == reader[t].path
  IN
  /\ reader[t].at = "lookup"
  /\ \A e \in EntriesOf(cached, p) : ~ IsFresh(e, reader[t].now)
  /\ cached' = Used(cached, p)
  /\ IF p \in Forbidden THEN Respond(t, 403)
     ELSE IF files[p].state = "absent" THEN Respond(t, 404)
     ELSE IF files[p].state = "unreadable" THEN Respond(t, 403)
     ELSE reader' = [reader EXCEPT ![t] =
            [@ EXCEPT !.at = "reading",
                      !.suffix = SuffixOf(p), !.type = setContentType(SuffixOf(p)),
                      !.keep = files[p].size <= MaxCachedFileSize]]
  /\ UNCHANGED <<clock, files, left, requests>>

(* One turn of either loop; each piece is sent, too. *)
ReadPiece(t) ==
  /\ reader[t].at = "reading"
  /\ Len(reader[t].document) < files[reader[t].path].size
  /\ reader' = [reader EXCEPT ![t].document = Append(@, files[reader[t].path].version)]
  /\ UNCHANGED <<clock, files, left, cached, requests>>

\* Mutant: an entry is as young as its insertion.
EntryCreatedLate(t) ==
  [key |-> reader[t].path, cost |-> Len(reader[t].document), document |-> reader[t].document,
   created |-> clock, suffix |-> reader[t].suffix]

(* The entry that service keeps of what it has read. *)
NewEntry(t) ==
  [key |-> reader[t].path, cost |-> Len(reader[t].document), document |-> reader[t].document,
   created |-> reader[t].now, suffix |-> reader[t].suffix]

(* atEnd compares with the size that the file has now. *)
FileRead(t) ==
  /\ reader[t].at = "reading"
  /\ Len(reader[t].document) >= files[reader[t].path].size
  /\ cached' = IF reader[t].keep THEN Insert(cached, NewEntry(t), CacheSize) ELSE cached
  /\ Sent(t)
  /\ UNCHANGED <<clock, files, left, requests>>

(* The error ends the loop, and what was read is kept as the document. *)
ReadError(t) ==
  /\ reader[t].at = "reading"
  /\ Len(reader[t].document) < files[reader[t].path].size
  /\ cached' = IF reader[t].keep THEN Insert(cached, NewEntry(t), CacheSize) ELSE cached
  /\ Sent(t)
  /\ UNCHANGED <<clock, files, left, requests>>

StaticNext ==
  \/ StaticTick
  \/ \E p \in Changing :
       RemoveFile(p) \/ \E n \in FileSizes : ReplaceFile(p, n) \/ CreateFile(p, n)
  \/ \E t \in Readers :
       \/ \E p \in Paths : StaticService(t, p)
       \/ CacheHit(t) \/ CacheMiss(t) \/ ReadPiece(t) \/ FileRead(t) \/ ReadError(t)

StaticSpec == StaticInit /\ [][StaticNext]_staticVars
-----------------------------------------------------------------------------
(***************************************************************************)
(* "Files are cached as long as possible, when cacheTime=0", else for the  *)
(* cacheTime: all that a hit serves was the contents of the file less than *)
(* cacheTime before the request, although the thread that read it was slow *)
(* and others have stored newer contents meanwhile.  The document is that  *)
(* of the path, and of the type that the first response had.               *)
(***************************************************************************)
WasCurrent(p, version, since) ==
  \/ files[p].state # "absent" /\ files[p].version = version
  \/ \E i \in DOMAIN left :
       left[i].path = p /\ left[i].version = version /\ left[i].at >= since

HitsAreRecent ==
  \A t \in Readers : reader[t].hit =>
    /\ reader[t].type = setContentType(SuffixOf(reader[t].path))
    /\ \A i \in DOMAIN reader[t].document :
         WasCurrent(reader[t].path, reader[t].document[i],
                    IF CacheTime = 0 THEN 0 ELSE reader[t].now - CacheTime)
=============================================================================
