-------------------------- MODULE FileLogger_proofs --------------------------
(***************************************************************************)
(* Proofs about the loggers: nobody is stuck, the backups are limited,     *)
(* important messages are kept, the buffers of the threads are apart, and  *)
(* messages stand in the files in the order in which they were logged.     *)
(***************************************************************************)
EXTENDS FileLogger, FiniteSetTheorems, SequenceTheorems, TLAPS

-----------------------------------------------------------------------------
(* Types. *)

Shown == Values \cup {NoValue}
Messages == [n : Nat, from : Writers, level : Levels, had : Shown, logVars : Shown]
Lines == [n : Nat, from : Writers, level : Levels, had : Shown, thread : Writers, shows : Shown]
NoMessage == {<< >>, [n |-> 0, from |-> Main, level |-> 1]}
Backups == UNION {[numbers -> Seq(Lines)] : numbers \in SUBSET (1 .. Files)}

WriterPlaces == {"idle", "handler", "log", "writing", "abort"}
MutexPlaces == {"open", "count", "remove", "rename", "handler", "log"}
MainPlaces == {"idle", "refresh", "flush"} \cup MutexPlaces

Places == WriterPlaces \cup MainPlaces

ThreadStates == [at : Places, message : Messages \cup NoMessage, queue : Seq(Messages)]
DiskStates == [log : Seq(Lines), unflushed : Nat, backup : Backups]
Budgets == [calls : Nat, changes : Nat, faults : Nat]
Histories == [important : SUBSET Lines, removed : SUBSET Lines, faulty : BOOLEAN,
              disabled : BOOLEAN, rotated : BOOLEAN, largest : Nat]

TypeOK ==
  /\ program \in {"running", "aborted", "crashed"}
  /\ settings \in Configs
  /\ handler \in Threads \cup {None} /\ mutex \in Threads \cup {None}
  /\ thread \in [Threads -> ThreadStates]
  /\ buffers \in [Writers -> Seq(Messages)]
  /\ logVars \in [Writers -> Shown]
  /\ file \in BOOLEAN
  /\ disk \in [Names -> DiskStates]
  /\ count \in Nat
  /\ budget \in Budgets
  /\ history \in Histories

-----------------------------------------------------------------------------
(* Who holds a mutex is at a place where it waits for none, but for the    *)
(* timers while they warn.                                                 *)
LocksFit ==
  /\ handler # None => thread[handler].at \in {"log", "writing", "abort"}
  /\ \A t \in Writers : thread[t].at \in WriterPlaces /\ (mutex = t <=> thread[t].at = "writing")
  /\ mutex = Main => thread[Main].at \in MutexPlaces
  /\ thread[Main].at \in MainPlaces
  /\ thread[Main].at \in {"open", "count", "remove", "rename"} => mutex = Main

(* The counted backups are there, and nothing is written meanwhile. *)
Rotates ==
  /\ thread[Main].at \in {"remove", "rename"} => 1 .. count \subseteq DOMAIN Backup
  /\ thread[Main].at \in {"count", "remove", "rename"} => disk[settings.name].unflushed = 0

(* Without failures the backups have the numbers from 1 on, but for one    *)
(* number while they are renamed.                                          *)
NumbersFit ==
  ~ history.faulty =>
    /\ \A name \in Names : \A i \in DOMAIN disk[name].backup : \A j \in 1 .. i :
         \/ j \in DOMAIN disk[name].backup
         \/ name = settings.name /\ thread[Main].at = "rename" /\ j = count + 1
    /\ thread[Main].at = "remove" => \A i \in DOMAIN Backup : i <= count
    /\ settings.maxBackups > 0 /\ (thread[Main].at = "rename" \/ history.rotated) =>
         \A i \in DOMAIN Backup : i <= settings.maxBackups
    /\ settings.maxBackups > 0 /\ thread[Main].at = "rename" => count < settings.maxBackups

-----------------------------------------------------------------------------
(* What is in the files, and what of it is flushed or in a backup.         *)

Stored(name) == ToSet(disk[name].log)
                  \cup UNION {ToSet(disk[name].backup[i]) : i \in DOMAIN disk[name].backup}
SafePart(name) == Len(disk[name].log) - disk[name].unflushed
Safe(name) == {disk[name].log[p] : p \in 1 .. SafePart(name)}
                \cup UNION {ToSet(disk[name].backup[i]) : i \in DOMAIN disk[name].backup}

UnflushedFits == \A name \in Names : disk[name].unflushed <= Len(disk[name].log)

ImportantFit ==
  \A m \in history.important : m \in history.removed \/ \E name \in Names : m \in Safe(name)

-----------------------------------------------------------------------------
(* A message that is not yet in a file is the message of a thread that is  *)
(* about to log it, or in the buffer or the queue of a thread.             *)

Active(t) == IF thread[t].at \in {"handler", "log"} THEN {thread[t].message} ELSE {}
Unwritten(t) == Active(t) \cup ToSet(buffers[t]) \cup ToSet(thread[t].queue)
Numbers(t) == {m.n : m \in Unwritten(t)}

Rising(s) == \A i, j \in DOMAIN s : i < j => s[i].n < s[j].n

(* The thread's own messages, in the order of their numbers. *)
OwnMessages(t) ==
  /\ thread[t].at \in {"handler", "log"} =>
       /\ thread[t].message \in Messages
       /\ thread[t].message.from = t /\ thread[t].message.had = logVars[t]
       /\ \A i \in DOMAIN buffers[t] : buffers[t][i].n < thread[t].message.n
  /\ \A m \in ToSet(buffers[t]) \cup ToSet(thread[t].queue) : m.from = t /\ m.logVars = m.had
  /\ Rising(buffers[t]) /\ Rising(thread[t].queue)
  /\ \A i \in DOMAIN buffers[t], j \in DOMAIN thread[t].queue :
       buffers[t][i].n # thread[t].queue[j].n
  /\ thread[t].queue # << >> => thread[t].at = "writing"
  /\ Len(buffers[t]) <= history.largest

(* No number is given twice. *)
NumbersApart ==
  /\ \A t \in Writers : \A n \in Numbers(t) :
       /\ n <= budget.calls
       /\ \A u \in Writers : n \in Numbers(u) => u = t
       /\ \A name \in Names : \A line \in Stored(name) : line.n # n
  /\ \A name \in Names : \A line \in Stored(name) :
       line.n <= budget.calls /\ line.thread = line.from /\ line.shows = line.had
  /\ settings.bufferSize <= history.largest

BuffersFit == NumbersApart /\ \A t \in Writers : OwnMessages(t)

-----------------------------------------------------------------------------
(* The order of the messages. *)

Ordered(s) == \A i, j \in DOMAIN s : i < j /\ s[i].from = s[j].from => s[i].n < s[j].n
Before(lines, later) == \A x \in lines, y \in later : x.from = y.from => x.n < y.n

FilesOrdered(name) ==
  /\ Ordered(disk[name].log)
  /\ \A i \in DOMAIN disk[name].backup :
       /\ Ordered(disk[name].backup[i])
       /\ Before(ToSet(disk[name].backup[i]), ToSet(disk[name].log))
       /\ \A j \in DOMAIN disk[name].backup :
            j < i => Before(ToSet(disk[name].backup[i]), ToSet(disk[name].backup[j]))

OrderFits ==
  ~ history.disabled =>
    /\ \A name \in Names :
         FilesOrdered(name) /\ \A t \in Writers : Before(Stored(name), Unwritten(t))
    /\ settings.bufferSize = 0 => \A t \in Writers : buffers[t] = << >>
    /\ \A t \in Writers : thread[t].queue # << >> => buffers[t] = << >>

-----------------------------------------------------------------------------
(* Sequences and the file system. *)

LEMMA ToSetIs ==
  ASSUME NEW S, NEW s \in Seq(S)
  PROVE  ToSet(s) \subseteq S /\ \A x : x \in ToSet(s) <=> \E i \in 1 .. Len(s) : s[i] = x
BY DEF ToSet

LEMMA BackupsAre ==
  ASSUME NEW b \in Backups
  PROVE  /\ DOMAIN b \subseteq 1 .. Files
         /\ b = [i \in DOMAIN b |-> b[i]]
         /\ \A i \in DOMAIN b : b[i] \in Seq(Lines)
BY DEF Backups

LEMMA AreBackups ==
  ASSUME NEW b, DOMAIN b \subseteq 1 .. Files, b = [i \in DOMAIN b |-> b[i]],
         \A i \in DOMAIN b : b[i] \in Seq(Lines)
  PROVE  b \in Backups
<1>1. b \in [DOMAIN b -> Seq(Lines)]
  OBVIOUS
<1> QED
  BY <1>1 DEF Backups

LEMMA CurrentFiles ==
  ASSUME TypeOK
  PROVE  /\ settings.name \in Names /\ Backup \in Backups
         /\ disk[settings.name].log \in Seq(Lines) /\ disk[settings.name].unflushed \in Nat
         /\ settings \in [name : Names, maxSize : Nat, maxBackups : Nat, minLevel : Nat,
                          bufferSize : Nat]
BY SettingsAssumption DEF TypeOK, ThreadStates, DiskStates, Budgets, Backup

LEMMA WithoutIs ==
  ASSUME TypeOK, NEW i
  PROVE  /\ Without(i) \in Backups /\ DOMAIN Without(i) = DOMAIN Backup \ {i}
         /\ \A j \in DOMAIN Without(i) : Without(i)[j] = Backup[j]
<1>1. /\ DOMAIN Without(i) = DOMAIN Backup \ {i}
      /\ \A j \in DOMAIN Without(i) : Without(i)[j] = Backup[j]
      /\ Without(i) = [j \in DOMAIN Without(i) |-> Without(i)[j]]
  BY DEF Without, Restrict
<1> QED
  BY <1>1, CurrentFiles, BackupsAre, AreBackups

LEMMA WithIs ==
  ASSUME NEW b \in Backups, NEW i \in 1 .. Files, NEW lines \in Seq(Lines)
  PROVE  /\ With(b, i, lines) \in Backups /\ DOMAIN With(b, i, lines) = DOMAIN b \cup {i}
         /\ With(b, i, lines)[i] = lines
         /\ \A j \in DOMAIN b : j # i => With(b, i, lines)[j] = b[j]
<1>1. /\ DOMAIN With(b, i, lines) = DOMAIN b \cup {i}
      /\ \A j \in DOMAIN With(b, i, lines) :
           With(b, i, lines)[j] = IF j = i THEN lines ELSE b[j]
      /\ With(b, i, lines) = [j \in DOMAIN With(b, i, lines) |-> With(b, i, lines)[j]]
  BY DEF With
<1> QED
  BY <1>1, BackupsAre, AreBackups

LEMMA WrittenIs ==
  ASSUME TypeOK, NEW m \in Lines
  PROVE  LET d == Written(m)[settings.name] IN
         /\ Written(m) \in [Names -> DiskStates]
         /\ \A name \in Names \ {settings.name} : Written(m)[name] = disk[name]
         /\ d.backup = Backup /\ d.log = Append(disk[settings.name].log, m)
         /\ d.unflushed = IF m.level >= Critical THEN 0 ELSE disk[settings.name].unflushed + 1
<1>1. Append(disk[settings.name].log, m) \in Seq(Lines)
  BY CurrentFiles
<1>2. disk[settings.name] \in DiskStates
  BY CurrentFiles DEF TypeOK, ThreadStates, DiskStates, Budgets
<1>3. ASSUME NEW d \in DiskStates,
             NEW log \in Seq(Lines), NEW unflushed \in Nat
      PROVE  LET e == [d EXCEPT !.log = log, !.unflushed = unflushed] IN
             /\ e \in DiskStates
             /\ e.log = log /\ e.unflushed = unflushed /\ e.backup = d.backup
  BY DEF DiskStates
<1>4. (IF m.level >= Critical THEN 0 ELSE disk[settings.name].unflushed + 1) \in Nat
  BY CurrentFiles
<1> DEFINE unflushed == IF m.level >= Critical THEN 0 ELSE disk[settings.name].unflushed + 1
           d == [disk[settings.name] EXCEPT !.log = Append(disk[settings.name].log, m),
                                            !.unflushed = unflushed]
<1>5. Written(m) = [disk EXCEPT ![settings.name] = d]
  BY <1>2 DEF Written
<1> HIDE DEF unflushed
<1>6. /\ d \in DiskStates
      /\ d.log = Append(disk[settings.name].log, m) /\ d.unflushed = unflushed
      /\ d.backup = Backup
  BY <1>1, <1>2, <1>3, <1>4 DEF unflushed, Backup, DiskStates
<1> HIDE DEF d
<1>7. /\ Written(m) \in [Names -> DiskStates]
      /\ \A name \in Names \ {settings.name} : Written(m)[name] = disk[name]
      /\ Written(m)[settings.name] = d
  BY <1>5, <1>6, CurrentFiles DEF TypeOK, ThreadStates, DiskStates, Budgets
<1> QED
  BY <1>6, <1>7 DEF unflushed

LEMMA FlushedIs ==
  ASSUME TypeOK, NEW name \in Names
  PROVE  /\ Flushed(name) \in [Names -> DiskStates]
         /\ \A other \in Names : /\ Flushed(name)[other].log = disk[other].log
                                /\ Flushed(name)[other].backup = disk[other].backup
                                /\ Flushed(name)[other].unflushed \in {disk[other].unflushed, 0}
         /\ Flushed(name)[name].unflushed = 0
BY DEF TypeOK, ThreadStates, DiskStates, Budgets, Flushed

LEMMA LostIs ==
  ASSUME TypeOK, UnflushedFits
  PROVE  /\ Lost \in [Names -> DiskStates]
         /\ \A name \in Names :
              /\ Lost[name].backup = disk[name].backup /\ Lost[name].unflushed = 0
              /\ Len(Lost[name].log) = SafePart(name)
              /\ \A p \in 1 .. SafePart(name) : Lost[name].log[p] = disk[name].log[p]
<1>1. ASSUME NEW name \in Names
      PROVE  LET log == SubSeq(disk[name].log, 1, Len(disk[name].log) - disk[name].unflushed) IN
             /\ log \in Seq(Lines) /\ Len(log) = SafePart(name)
             /\ \A p \in 1 .. SafePart(name) : log[p] = disk[name].log[p]
  <2>1. /\ disk[name].log \in Seq(Lines) /\ disk[name].unflushed \in Nat
        /\ disk[name].unflushed <= Len(disk[name].log)
    BY DEF TypeOK, ThreadStates, DiskStates, UnflushedFits
  <2>2. Len(disk[name].log) \in Nat
    BY <2>1
  <2> QED
    BY SMTT(20), <2>1, <2>2 DEF SafePart
<1>2. ASSUME NEW name \in Names
      PROVE  /\ Lost[name] \in DiskStates
             /\ Lost[name].log = SubSeq(disk[name].log, 1, Len(disk[name].log) - disk[name].unflushed)
             /\ Lost[name].backup = disk[name].backup /\ Lost[name].unflushed = 0
  BY <1>1 DEF Lost, TypeOK, ThreadStates, DiskStates, Budgets
<1>3. Lost = [name \in Names |-> Lost[name]]
  BY DEF Lost
<1> QED
  BY <1>1, <1>2, <1>3

-----------------------------------------------------------------------------
(* Where the threads are. *)

LEMMA GotoIs ==
  ASSUME TypeOK, NEW t \in Threads, NEW place \in Places, Goto(t, place)
  PROVE  /\ thread' \in [Threads -> ThreadStates]
         /\ \A u \in Threads : thread'[u].at = IF u = t THEN place ELSE thread[u].at
         /\ \A u \in Threads : /\ thread'[u].message = thread[u].message
                               /\ thread'[u].queue = thread[u].queue
BY DEF TypeOK, ThreadStates, DiskStates, Budgets, Goto, Places

LEMMA ReturnIs ==
  ASSUME TypeOK, NEW t \in Threads, Return(t)
  PROVE  /\ thread' \in [Threads -> ThreadStates]
         /\ \A u \in Threads \ {t} : thread'[u] = thread[u]
         /\ thread'[t].at = "idle" /\ thread'[t].message = << >> /\ thread'[t].queue = << >>
<1>1. Idle \in ThreadStates
  BY DEF Idle, ThreadStates, Places, WriterPlaces, NoMessage
<1> QED
  BY <1>1 DEF TypeOK, ThreadStates, DiskStates, Budgets, Return, Places, Idle

LEMMA CalledIs ==
  ASSUME TypeOK, NEW t \in Writers, NEW level \in Levels, NEW place \in {"handler", "log"},
         Call(t, level, place)
  PROVE  /\ thread' \in [Threads -> ThreadStates]
         /\ \A u \in Threads \ {t} : thread'[u] = thread[u]
         /\ thread'[t].at = place /\ thread'[t].queue = << >>
         /\ thread'[t].message \in Messages /\ thread'[t].message.n = budget.calls + 1
         /\ thread'[t].message.from = t /\ thread'[t].message.had = logVars[t]
         /\ budget' \in Budgets
         /\ budget'.calls = budget.calls + 1
<1> DEFINE m == [n |-> budget.calls + 1, from |-> t, level |-> level, had |-> logVars[t],
                 logVars |-> NoValue]
           r == [at |-> place, queue |-> << >>, message |-> m]
<1>1. m \in Messages /\ m.n = budget.calls + 1 /\ m.from = t /\ m.had = logVars[t]
  BY DEF TypeOK, ThreadStates, DiskStates, Budgets, Messages, Shown
<1>2. thread' = [thread EXCEPT ![t] = r]
  BY DEF Call
<1>3. budget' = [budget EXCEPT !.calls = @ + 1]
  BY DEF Call
<1>4. budget' \in Budgets /\ budget'.calls = budget.calls + 1
  <2>1. ASSUME NEW b \in Budgets, NEW calls \in Nat
        PROVE  /\ [b EXCEPT !.calls = calls] \in Budgets
               /\ [b EXCEPT !.calls = calls].calls = calls
    BY DEF Budgets
  <2>2. budget \in Budgets /\ budget.calls + 1 \in Nat
    BY DEF TypeOK, ThreadStates, DiskStates, Budgets
  <2> QED
    BY <1>3, <2>1, <2>2
<1> HIDE DEF m
<1>5. r \in ThreadStates
  BY <1>1 DEF ThreadStates, Places, WriterPlaces
<1> QED
  BY <1>1, <1>2, <1>4, <1>5 DEF TypeOK, ThreadStates, DiskStates, Budgets, Threads, Places

LEMMA LogMessageIs ==
  ASSUME TypeOK, NEW t \in Writers, thread[t].message \in Messages
  PROVE  /\ LogMessage(t) \in Messages
         /\ LogMessage(t).n = thread[t].message.n /\ LogMessage(t).from = thread[t].message.from
         /\ LogMessage(t).had = thread[t].message.had /\ LogMessage(t).logVars = logVars[t]
         /\ LogMessage(t).level = thread[t].message.level
BY DEF TypeOK, ThreadStates, DiskStates, Budgets, LogMessage, Messages

LEMMA BufferedIs ==
  ASSUME TypeOK, NEW t \in Writers, thread[t].message \in Messages
  PROVE  LET long == Append(buffers[t], LogMessage(t)) IN
         /\ Buffered(t) \in Seq(Messages)
         /\ \/ Buffered(t) = long /\ Len(long) <= settings.bufferSize
            \/ Buffered(t) = Tail(long)
         /\ long \in Seq(Messages) /\ Len(long) = Len(buffers[t]) + 1
         /\ Len(Tail(long)) = Len(buffers[t])
<1>1. buffers[t] \in Seq(Messages) /\ LogMessage(t) \in Messages
  BY LogMessageIs DEF TypeOK, ThreadStates, DiskStates, Budgets
<1>2. settings.bufferSize \in Nat
  BY CurrentFiles
<1> DEFINE long == Append(buffers[t], LogMessage(t))
<1>3. long \in Seq(Messages) /\ Len(long) = Len(buffers[t]) + 1 /\ long # << >>
  BY <1>1
<1>4. Len(Tail(long)) = Len(buffers[t]) /\ Tail(long) \in Seq(Messages)
  <2> HIDE DEF long
  <2> QED
    BY <1>1, <1>3
<1>5. Buffered(t) = IF Len(long) > settings.bufferSize THEN Tail(long) ELSE long
  BY DEF Buffered
<1> HIDE DEF long
<1>6. Len(long) \in Nat
  BY <1>3
<1>7. (Buffered(t) = long /\ Len(long) <= settings.bufferSize) \/ Buffered(t) = Tail(long)
  BY <1>5, <1>6, <1>2
<1> QED
  BY <1>3, <1>4, <1>7 DEF long

LEMMA LoggedIs ==
  ASSUME TypeOK, NEW t \in Writers, thread[t].message \in Messages, Log(t)
  PROVE  /\ thread' \in [Threads -> ThreadStates]
         /\ buffers' \in [Writers -> Seq(Messages)]
         /\ \A u \in Threads \ {t} : thread'[u] = thread[u]
         /\ \A u \in Writers \ {t} : buffers'[u] = buffers[u]
         /\ thread'[t].at = "writing" /\ thread'[t].message = thread[t].message
         /\ LET writes == thread[t].message.level >= settings.minLevel IN
            IF settings.bufferSize > 0
            THEN /\ buffers'[t] = IF writes THEN << >> ELSE Buffered(t)
                 /\ thread'[t].queue = IF writes THEN Buffered(t) ELSE << >>
            ELSE /\ buffers'[t] = buffers[t]
                 /\ thread'[t].queue = IF writes THEN <<LogMessage(t)>> ELSE << >>
<1>1. Buffered(t) \in Seq(Messages) /\ LogMessage(t) \in Messages
      /\ LogMessage(t).level = thread[t].message.level
  BY BufferedIs, LogMessageIs
<1>2. <<LogMessage(t)>> \in Seq(Messages) /\ << >> \in Seq(Messages)
  BY <1>1
<1> DEFINE writes == thread[t].message.level >= settings.minLevel
           Queued(queue) == thread' = [thread EXCEPT ![t].at = "writing", ![t].queue = queue]
<1>3. ASSUME NEW queue \in Seq(Messages), Queued(queue)
      PROVE  /\ thread' \in [Threads -> ThreadStates]
             /\ \A u \in Threads \ {t} : thread'[u] = thread[u]
             /\ thread'[t].at = "writing" /\ thread'[t].message = thread[t].message
             /\ thread'[t].queue = queue
  BY <1>3 DEF TypeOK, ThreadStates, DiskStates, Budgets, Threads, Places, WriterPlaces
<1>4. CASE settings.bufferSize > 0
  <2>1. buffers' = [buffers EXCEPT ![t] = IF writes THEN << >> ELSE Buffered(t)]
    BY <1>1, <1>4 DEF Log
  <2>2. Queued(IF writes THEN Buffered(t) ELSE << >>)
    BY <1>1, <1>4 DEF Log
  <2> HIDE DEF Queued
  <2> QED
    BY <1>1, <1>2, <1>3, <1>4, <2>1, <2>2 DEF TypeOK, ThreadStates, DiskStates, Budgets
<1>5. CASE ~ (settings.bufferSize > 0)
  <2>1. buffers' = buffers
    BY <1>5 DEF Log
  <2>2. Queued(IF writes THEN <<LogMessage(t)>> ELSE << >>)
    BY <1>1, <1>5 DEF Log
  <2> HIDE DEF Queued
  <2> QED
    BY <1>1, <1>2, <1>3, <1>5, <2>1, <2>2 DEF TypeOK, ThreadStates, DiskStates, Budgets
<1> QED
  BY <1>4, <1>5

LEMMA LineIs ==
  ASSUME NEW t \in Writers, NEW m \in Messages
  PROVE  /\ toString(m, t) \in Lines /\ toString(m, t).n = m.n /\ toString(m, t).from = m.from
         /\ toString(m, t).had = m.had /\ toString(m, t).thread = t
         /\ toString(m, t).shows = m.logVars /\ toString(m, t).level = m.level
BY DEF toString, Lines, Messages

LEMMA WriteMessageIs ==
  ASSUME TypeOK, NEW t \in Writers, WriteMessage(t)
  PROVE  LET m == toString(Head(thread[t].queue), t) IN
         /\ thread' \in [Threads -> ThreadStates]
         /\ \A u \in Threads \ {t} : thread'[u] = thread[u]
         /\ thread[t].at = "writing" /\ thread'[t].at = "writing"
         /\ thread[t].queue # << >> /\ thread'[t].queue = Tail(thread[t].queue)
         /\ Head(thread[t].queue) \in Messages /\ m \in Lines
         /\ thread'[t].message = thread[t].message
         /\ \/ disk' = disk /\ history' = history
            \/ /\ disk' = Written(m)
               /\ history' \in {history, [history EXCEPT !.important = @ \cup {m}]}
               /\ history' # history => m.level >= Critical
<1>1. /\ Head(thread[t].queue) \in Messages /\ Tail(thread[t].queue) \in Seq(Messages)
      /\ thread[t].at = "writing" /\ thread[t].queue # << >>
  BY DEF TypeOK, ThreadStates, DiskStates, Budgets, WriteMessage, Running, Threads
<1>2. toString(Head(thread[t].queue), t) \in Lines
  BY <1>1, LineIs
<1>3. thread' = [thread EXCEPT ![t].queue = Tail(@)]
  BY DEF WriteMessage
<1>4. /\ thread' \in [Threads -> ThreadStates]
      /\ \A u \in Threads \ {t} : thread'[u] = thread[u]
      /\ thread'[t].at = "writing" /\ thread'[t].message = thread[t].message
      /\ thread'[t].queue = Tail(thread[t].queue)
  BY <1>1, <1>3 DEF TypeOK, ThreadStates, DiskStates, Budgets, Threads, Places
<1> DEFINE m == toString(Head(thread[t].queue), t)
<1>5. \/ disk' = disk /\ history' = history
      \/ /\ disk' = Written(m)
         /\ history' = IF m.level >= Critical
                       THEN [history EXCEPT !.important = @ \cup {m}] ELSE history
  BY DEF WriteMessage
<1> HIDE DEF m
<1> QED
  BY <1>1, <1>2, <1>4, <1>5 DEF m

LEMMA BudgetIs ==
  ASSUME TypeOK, Fault
  PROVE  budget' \in Budgets /\ budget'.calls = budget.calls
BY DEF TypeOK, Fault, Budgets

LEMMA HistoryIs ==
  ASSUME TypeOK
  PROVE  /\ LET h == [history EXCEPT !.faulty = TRUE] IN
            h \in Histories /\ h = [history EXCEPT !.faulty = h.faulty] /\ h.faulty
         /\ LET h == [history EXCEPT !.rotated = TRUE] IN
            h \in Histories /\ h = [history EXCEPT !.rotated = h.rotated]
         /\ \A m \in Lines :
              LET h == [history EXCEPT !.important = @ \cup {m}] IN
              h \in Histories /\ h.important = history.important \cup {m}
         /\ \A lines \in SUBSET Lines :
              LET h == [history EXCEPT !.removed = @ \cup lines] IN
              h \in Histories /\ h.removed = history.removed \cup lines
BY DEF TypeOK, Histories

-----------------------------------------------------------------------------
(* Types, and who holds the mutexes. *)

LEMMA BaseInstallMsgHandler ==
  ASSUME TypeOK, UnflushedFits, LocksFit, InstallMsgHandler
  PROVE  TypeOK' /\ LocksFit'
<1>u. UNCHANGED <<program, settings, handler, mutex, thread, buffers, logVars, file, disk, count, budget, history>>
      /\ defaultLogger' \in BOOLEAN
  BY DEF InstallMsgHandler
<1>1. TypeOK'
  BY <1>u DEF TypeOK
<1>2. LocksFit'
  BY <1>u, ConstantsAssumption DEF LocksFit, TypeOK, Threads, WriterPlaces, MainPlaces, MutexPlaces
<1> QED
  BY <1>1, <1>2

LEMMA BaseMsgHandler ==
  ASSUME TypeOK, UnflushedFits, LocksFit, NEW t \in Threads, MsgHandler(t)
  PROVE  TypeOK' /\ LocksFit'
<1>t. /\ thread' \in [Threads -> ThreadStates]
      /\ \A u \in Threads : thread'[u].at = IF u = t THEN "log" ELSE thread[u].at
  BY GotoIs DEF MsgHandler, Threads, Places, WriterPlaces, MainPlaces, MutexPlaces
<1>u. UNCHANGED <<program, settings, defaultLogger, mutex, buffers, logVars, file, disk, count, budget, history>>
      /\ handler' = t /\ thread[t].at = "handler"
  BY DEF MsgHandler, Running
<1>1. TypeOK'
  BY <1>t, <1>u DEF TypeOK
<1>2. LocksFit'
  BY <1>t, <1>u, ConstantsAssumption DEF LocksFit, TypeOK, Threads, WriterPlaces, MainPlaces, MutexPlaces
<1> QED
  BY <1>1, <1>2

LEMMA BaseCall ==
  ASSUME TypeOK, UnflushedFits, LocksFit, NEW t \in Writers, NEW level \in Levels,
         CallQt(t, level) \/ CallLog(t, level)
  PROVE  TypeOK' /\ LocksFit'
<1>1. PICK place \in {"handler", "log"} : Call(t, level, place)
  BY DEF CallQt, CallLog
<1>2. /\ thread' \in [Threads -> ThreadStates]
      /\ \A u \in Threads \ {t} : thread'[u] = thread[u]
      /\ thread'[t].at = place
      /\ budget' \in Budgets
  BY <1>1, CalledIs
<1>3. /\ UNCHANGED <<program, settings, defaultLogger, handler, mutex, buffers, logVars, file,
                     disk, count, history>>
      /\ thread[t].at = "idle"
  BY <1>1 DEF Call, Running
<1>4. TypeOK'
  BY <1>2, <1>3 DEF TypeOK
<1>5. LocksFit'
  BY <1>2, <1>3, ConstantsAssumption DEF LocksFit, TypeOK, Threads, WriterPlaces
<1> QED
  BY <1>4, <1>5

LEMMA BaseLog ==
  ASSUME TypeOK, UnflushedFits, LocksFit, NEW t \in Writers, Log(t), thread[t].message \in Messages
  PROVE  TypeOK' /\ LocksFit'
<1>1. /\ thread' \in [Threads -> ThreadStates] /\ buffers' \in [Writers -> Seq(Messages)]
      /\ \A u \in Threads \ {t} : thread'[u] = thread[u]
      /\ thread'[t].at = "writing"
  BY LoggedIs
<1>2. /\ UNCHANGED <<program, settings, defaultLogger, handler, logVars, file,
                     disk, count, budget, history>>
      /\ mutex = None /\ mutex' = t
  BY DEF Log
<1>3. TypeOK'
  BY <1>1, <1>2 DEF TypeOK, Threads
<1>4. LocksFit'
  BY <1>1, <1>2, ConstantsAssumption DEF LocksFit, TypeOK, Threads, WriterPlaces
<1> QED
  BY <1>3, <1>4

LEMMA BaseWriteMessage ==
  ASSUME TypeOK, UnflushedFits, LocksFit, NEW t \in Writers, WriteMessage(t)
  PROVE  TypeOK' /\ LocksFit'
<1> DEFINE m == toString(Head(thread[t].queue), t)
<1>1. /\ thread' \in [Threads -> ThreadStates] /\ m \in Lines
      /\ \A u \in Threads \ {t} : thread'[u] = thread[u]
      /\ thread[t].at = "writing" /\ thread'[t].at = "writing"
      /\ \/ disk' = disk /\ history' = history
         \/ /\ disk' = Written(m)
            /\ history' \in {history, [history EXCEPT !.important = @ \cup {m}]}
  BY WriteMessageIs
<1>2. UNCHANGED <<program, settings, defaultLogger, handler, mutex, buffers, logVars, file, count,
                  budget>>
  BY DEF WriteMessage
<1> HIDE DEF m
<1>3. disk' \in [Names -> DiskStates]
  BY <1>1, WrittenIs DEF TypeOK
<1>4. history' \in Histories
  BY <1>1, HistoryIs DEF TypeOK
<1>5. TypeOK'
  BY <1>1, <1>2, <1>3, <1>4 DEF TypeOK
<1>6. LocksFit'
  BY <1>1, <1>2, ConstantsAssumption DEF LocksFit, TypeOK, Threads, WriterPlaces
<1> QED
  BY <1>5, <1>6

LEMMA BaseWriteFails ==
  ASSUME TypeOK, UnflushedFits, LocksFit, NEW t \in Writers, WriteFails(t)
  PROVE  TypeOK' /\ LocksFit'
<1>d. disk' \in [Names -> DiskStates]
  BY LostIs DEF WriteFails
<1>b. budget' \in Budgets
  BY BudgetIs DEF WriteFails
<1>h. history' \in Histories
  BY HistoryIs DEF WriteFails
<1>u. UNCHANGED <<settings, defaultLogger, handler, mutex, thread, buffers, logVars, count>>
      /\ file' = FALSE /\ program' = "crashed"
  BY DEF WriteFails
<1>1. TypeOK'
  BY <1>d, <1>b, <1>h, <1>u DEF TypeOK
<1>2. LocksFit'
  BY <1>u, ConstantsAssumption DEF LocksFit, TypeOK, Threads, WriterPlaces, MainPlaces, MutexPlaces
<1> QED
  BY <1>1, <1>2

LEMMA BaseLogReturns ==
  ASSUME TypeOK, UnflushedFits, LocksFit, NEW t \in Writers, LogReturns(t)
  PROVE  TypeOK' /\ LocksFit'
<1>1. /\ thread[t].at = "writing" /\ mutex' = None
      /\ \/ handler = t /\ Goto(t, "abort") /\ UNCHANGED handler
         \/ Return(t) /\ handler' = IF handler = t THEN None ELSE handler
      /\ UNCHANGED <<program, settings, defaultLogger, buffers, logVars, file, disk, count, budget,
                     history>>
  BY DEF LogReturns, Running
<1>2. /\ thread' \in [Threads -> ThreadStates]
      /\ \A u \in Threads \ {t} : thread'[u].at = thread[u].at
      /\ \/ thread'[t].at = "abort" /\ handler' = handler
         \/ thread'[t].at = "idle" /\ handler' = IF handler = t THEN None ELSE handler
  <2>1. t \in Threads /\ "abort" \in Places
    BY DEF Threads, Places, WriterPlaces
  <2> QED
    BY <1>1, <2>1, GotoIs, ReturnIs
<1>3. TypeOK'
  BY <1>1, <1>2 DEF TypeOK
<1>4. mutex = t
  BY <1>1 DEF LocksFit
<1>5. LocksFit'
  BY <1>1, <1>2, <1>4, ConstantsAssumption DEF LocksFit, TypeOK, Threads, WriterPlaces
<1> QED
  BY <1>3, <1>5

LEMMA BaseAbort ==
  ASSUME TypeOK, UnflushedFits, LocksFit, NEW t \in Writers, Abort(t)
  PROVE  TypeOK' /\ LocksFit'
<1>d. disk' \in [Names -> DiskStates]
  BY LostIs DEF Abort
<1>u. UNCHANGED <<settings, defaultLogger, handler, mutex, thread, buffers, logVars, file, count, budget, history>>
      /\ program' = "aborted"
  BY DEF Abort
<1>1. TypeOK'
  BY <1>d, <1>u DEF TypeOK
<1>2. LocksFit'
  BY <1>u, ConstantsAssumption DEF LocksFit, TypeOK, Threads, WriterPlaces, MainPlaces, MutexPlaces
<1> QED
  BY <1>1, <1>2

LEMMA BaseSet ==
  ASSUME TypeOK, UnflushedFits, LocksFit, NEW t \in Writers, NEW value \in Values, Set(t, value)
  PROVE  TypeOK' /\ LocksFit'
<1>b. budget' \in Budgets
  <2>1. ASSUME NEW b \in Budgets, NEW calls \in Nat PROVE [b EXCEPT !.calls = calls] \in Budgets
    BY DEF Budgets
  <2>2. budget \in Budgets /\ budget.calls + 1 \in Nat
    BY DEF TypeOK, Budgets
  <2> QED
    BY <2>1, <2>2 DEF Set
<1>l. logVars' \in [Writers -> Shown]
  BY DEF Set, TypeOK, Shown
<1>u. UNCHANGED <<program, settings, defaultLogger, handler, mutex, thread, buffers, file, disk, count, history>>
  BY DEF Set
<1>1. TypeOK'
  BY <1>b, <1>l, <1>u DEF TypeOK
<1>2. LocksFit'
  BY <1>u, ConstantsAssumption DEF LocksFit, TypeOK, Threads, WriterPlaces, MainPlaces, MutexPlaces
<1> QED
  BY <1>1, <1>2

LEMMA BaseClear ==
  ASSUME TypeOK, UnflushedFits, LocksFit, NEW t \in Writers, NEW buffer \in BOOLEAN, NEW variables \in BOOLEAN, Clear(t, buffer, variables)
  PROVE  TypeOK' /\ LocksFit'
<1>b. buffers' \in [Writers -> Seq(Messages)]
  BY DEF Clear, TypeOK
<1>l. logVars' \in [Writers -> Shown]
  BY DEF Clear, TypeOK, Shown
<1>u. UNCHANGED <<program, settings, defaultLogger, handler, mutex, thread, file, disk, count, budget, history>>
  BY DEF Clear
<1>1. TypeOK'
  BY <1>b, <1>l, <1>u DEF TypeOK
<1>2. LocksFit'
  BY <1>u, ConstantsAssumption DEF LocksFit, TypeOK, Threads, WriterPlaces, MainPlaces, MutexPlaces
<1> QED
  BY <1>1, <1>2

LEMMA BaseTimerEvent ==
  ASSUME TypeOK, UnflushedFits, LocksFit, TimerEvent
  PROVE  TypeOK' /\ LocksFit'
<1>t. \E place \in {"refresh", "flush"} :
        /\ thread' \in [Threads -> ThreadStates]
        /\ \A u \in Threads : thread'[u].at = IF u = Main THEN place ELSE thread[u].at
  BY GotoIs DEF TimerEvent, Threads, Places, MainPlaces
<1>u. UNCHANGED <<program, settings, defaultLogger, handler, mutex, buffers, logVars, file, disk, count, budget, history>>
      /\ thread[Main].at = "idle"
  BY DEF TimerEvent, Running
<1>1. TypeOK'
  BY <1>t, <1>u DEF TypeOK
<1>2. LocksFit'
  BY <1>t, <1>u, ConstantsAssumption DEF LocksFit, TypeOK, Threads, WriterPlaces, MainPlaces, MutexPlaces
<1> QED
  BY <1>1, <1>2

LEMMA BaseRefreshSettings ==
  ASSUME TypeOK, UnflushedFits, LocksFit, RefreshSettings
  PROVE  /\ TypeOK' /\ LocksFit' /\ mutex = None /\ thread[Main].at = "refresh"
         /\ history'.largest \in {history.largest, settings'.bufferSize}
         /\ history.largest <= history'.largest /\ settings'.bufferSize <= history'.largest
         /\ history'.disabled =
              (history.disabled \/ (settings'.bufferSize = 0 /\ \E t \in Writers : buffers[t] # << >>))
         /\ history'.important = history.important /\ history'.removed = history.removed
         /\ history'.faulty = history.faulty /\ ~ history'.rotated
         /\ \A t \in Writers : thread'[t] = thread[t]
         /\ thread'[Main].at \in {"open", "idle"} /\ budget'.calls = budget.calls
<1>1. /\ mutex = None /\ thread[Main].at = "refresh" /\ settings' \in Configs
      /\ \/ /\ mutex' = Main /\ file' = FALSE /\ Goto(Main, "open")
            /\ disk' = IF file THEN Flushed(settings.name) ELSE disk
         \/ Return(Main) /\ UNCHANGED <<mutex, file, disk>>
      /\ UNCHANGED <<program, defaultLogger, handler, buffers, logVars, count>>
      /\ budget' = [budget EXCEPT !.changes = @ + 1]
  BY DEF RefreshSettings, Running
<1>2. /\ thread' \in [Threads -> ThreadStates]
      /\ \A u \in Threads \ {Main} : thread'[u].at = thread[u].at
      /\ \/ thread'[Main].at = "open" /\ mutex' = Main
         \/ thread'[Main].at = "idle" /\ mutex' = None
  <2>1. Main \in Threads /\ "open" \in Places
    BY DEF Threads, Places, MainPlaces, MutexPlaces
  <2> QED
    BY <1>1, <2>1, GotoIs, ReturnIs
<1>3. disk' \in [Names -> DiskStates]
  BY <1>1, FlushedIs, CurrentFiles DEF TypeOK
<1>4. budget' \in Budgets /\ budget'.calls = budget.calls
  BY <1>1 DEF TypeOK, Budgets
<1>5. settings'.bufferSize \in Nat /\ history.largest \in Nat
  BY <1>1, SettingsAssumption DEF TypeOK, Histories
<1> DEFINE disabled == history.disabled \/ (settings'.bufferSize = 0 /\ \E t \in Writers : buffers[t] # << >>)
           largest == IF settings'.bufferSize > history.largest THEN settings'.bufferSize ELSE history.largest
<1>6. history' = [history EXCEPT !.disabled = disabled, !.rotated = FALSE, !.largest = largest]
  BY DEF RefreshSettings
<1>7. disabled \in BOOLEAN
  BY DEF TypeOK, Histories
<1>8. /\ largest \in Nat /\ largest \in {history.largest, settings'.bufferSize}
      /\ history.largest <= largest /\ settings'.bufferSize <= largest
  BY <1>5
<1> HIDE DEF disabled, largest
<1>9. /\ history' \in Histories /\ history'.largest = largest /\ history'.disabled = disabled
      /\ history'.important = history.important /\ history'.removed = history.removed
      /\ history'.faulty = history.faulty /\ ~ history'.rotated
  BY <1>6, <1>7, <1>8 DEF TypeOK, Histories
<1>10. TypeOK'
  BY <1>1, <1>2, <1>3, <1>4, <1>9 DEF TypeOK, Threads
<1>11. LocksFit'
  <2>1. /\ mutex = None /\ mutex' \in {Main, None} /\ thread[Main].at = "refresh"
        /\ handler' = handler /\ handler \in Threads \cup {None}
        /\ thread'[Main].at \in {"open", "idle"} /\ (thread'[Main].at = "open" <=> mutex' = Main)
    BY <1>1, <1>2, ConstantsAssumption DEF TypeOK
  <2>2. \A t \in Writers : thread'[t].at = thread[t].at /\ thread[t].at \in WriterPlaces \ {"writing"}
    BY <1>2, <2>1, ConstantsAssumption DEF LocksFit, Threads
  <2> QED
    BY <2>1, <2>2, ConstantsAssumption DEF LocksFit, Threads, MainPlaces, MutexPlaces
<1>12. \A t \in Writers : thread'[t] = thread[t]
  BY <1>1, ConstantsAssumption DEF TypeOK, Goto, Return, Threads
<1> QED
  BY <1>1, <1>2, <1>4, <1>8, <1>9, <1>10, <1>11, <1>12 DEF disabled

LEMMA BaseFlush ==
  ASSUME TypeOK, UnflushedFits, LocksFit, Flush
  PROVE  TypeOK' /\ LocksFit'
<1>1. /\ mutex = None /\ thread[Main].at = "flush" /\ disk' = Flushed(settings.name)
      /\ \/ mutex' = Main /\ file' = FALSE /\ Goto(Main, "count")
         \/ Return(Main) /\ UNCHANGED <<mutex, file>>
      /\ UNCHANGED <<program, settings, defaultLogger, handler, buffers, logVars, count, budget,
                     history>>
  BY DEF Flush, Running
<1>2. /\ thread' \in [Threads -> ThreadStates]
      /\ \A u \in Threads \ {Main} : thread'[u].at = thread[u].at
      /\ \/ thread'[Main].at = "count" /\ mutex' = Main
         \/ thread'[Main].at = "idle" /\ mutex' = None
  <2>1. Main \in Threads /\ "count" \in Places
    BY DEF Threads, Places, MainPlaces, MutexPlaces
  <2> QED
    BY <1>1, <2>1, GotoIs, ReturnIs
<1>3. disk' \in [Names -> DiskStates]
  BY <1>1, FlushedIs, CurrentFiles
<1>4. TypeOK'
  BY <1>1, <1>2, <1>3 DEF TypeOK, Threads
<1>5. LocksFit'
  <2>1. /\ mutex = None /\ mutex' \in {Main, None} /\ thread[Main].at = "flush"
        /\ handler' = handler /\ handler \in Threads \cup {None}
        /\ thread'[Main].at \in {"count", "idle"} /\ (thread'[Main].at = "count" <=> mutex' = Main)
    BY <1>1, <1>2, ConstantsAssumption DEF TypeOK
  <2>2. \A t \in Writers : thread'[t].at = thread[t].at /\ thread[t].at \in WriterPlaces \ {"writing"}
    BY <1>2, <2>1, ConstantsAssumption DEF LocksFit, Threads
  <2> QED
    BY <2>1, <2>2, ConstantsAssumption DEF LocksFit, Threads, MainPlaces, MutexPlaces
<1> QED
  BY <1>4, <1>5

LEMMA BaseOpenFile ==
  ASSUME TypeOK, UnflushedFits, LocksFit, OpenFile
  PROVE  TypeOK' /\ LocksFit'
<1>r. Main \in Threads /\ Return(Main)
  BY DEF OpenFile, Threads
<1>t. /\ thread' \in [Threads -> ThreadStates]
      /\ \A u \in Threads : thread'[u].at = IF u = Main THEN "idle" ELSE thread[u].at
  BY <1>r, ReturnIs
<1>u. UNCHANGED <<program, settings, defaultLogger, handler, buffers, logVars, disk, count, budget, history>>
      /\ file' = TRUE /\ mutex' = None /\ thread[Main].at = "open"
  BY DEF OpenFile, Running
<1>1. TypeOK'
  BY <1>t, <1>u DEF TypeOK
<1>2. LocksFit'
  BY <1>t, <1>u, ConstantsAssumption DEF LocksFit, TypeOK, Threads, WriterPlaces, MainPlaces, MutexPlaces
<1> QED
  BY <1>1, <1>2

LEMMA BaseOpenFails ==
  ASSUME TypeOK, UnflushedFits, LocksFit, OpenFails
  PROVE  TypeOK' /\ LocksFit'
<1>1. /\ thread[Main].at = "open"
      /\ \/ /\ thread' = [thread EXCEPT ![Main].at = "handler",
                              ![Main].message = [n |-> 0, from |-> Main, level |-> 1]]
            /\ UNCHANGED mutex
         \/ Return(Main) /\ mutex' = None
      /\ UNCHANGED <<program, settings, defaultLogger, handler, buffers, logVars, file, disk, count>>
  BY DEF OpenFails, Running
<1>2. /\ thread' \in [Threads -> ThreadStates]
      /\ \A u \in Threads \ {Main} : thread'[u].at = thread[u].at
      /\ \/ thread'[Main].at = "handler" /\ mutex' = mutex
         \/ thread'[Main].at = "idle" /\ mutex' = None
  <2>1. CASE thread' = [thread EXCEPT ![Main].at = "handler",
                          ![Main].message = [n |-> 0, from |-> Main, level |-> 1]]
    <3>1. [n |-> 0, from |-> Main, level |-> 1] \in Messages \cup NoMessage
      BY DEF NoMessage
    <3>2. ASSUME NEW r \in ThreadStates, NEW m \in Messages \cup NoMessage
          PROVE  /\ [r EXCEPT !.at = "handler", !.message = m] \in ThreadStates
                 /\ [r EXCEPT !.at = "handler", !.message = m].at = "handler"
      BY DEF ThreadStates, Places, WriterPlaces
    <3> DEFINE r == [thread[Main] EXCEPT !.at = "handler",
                       !.message = [n |-> 0, from |-> Main, level |-> 1]]
    <3>3. r \in ThreadStates /\ r.at = "handler"
      BY <3>1, <3>2 DEF TypeOK, Threads
    <3>4. thread' = [thread EXCEPT ![Main] = r]
      BY <2>1 DEF TypeOK, Threads
    <3> HIDE DEF r
    <3>5. mutex' = mutex
      BY <1>1, <2>1, <3>3, <3>4, ConstantsAssumption DEF TypeOK, Threads, Return, Idle
    <3> QED
      BY <3>3, <3>4, <3>5 DEF TypeOK, Threads
  <2>2. CASE Return(Main) /\ mutex' = None
    BY <2>2, ReturnIs DEF Threads
  <2> QED
    BY <1>1, <2>1, <2>2
<1>3. budget' \in Budgets /\ history' \in Histories
  BY BudgetIs, HistoryIs DEF OpenFails
<1>4. TypeOK'
  BY <1>1, <1>2, <1>3 DEF TypeOK
<1>5. LocksFit'
  BY <1>1, <1>2, ConstantsAssumption DEF LocksFit, TypeOK, Threads, WriterPlaces, MainPlaces, MutexPlaces
<1> QED
  BY <1>4, <1>5

-----------------------------------------------------------------------------
(* The rotation. *)

LEMMA NaturalsFollow ==
  ASSUME NEW T, 0 \in T, \A n \in Nat : n \in T => n + 1 \in T
  PROVE  Nat \subseteq T
<1> DEFINE R == {p \in Nat \X Nat : p[1] < p[2]}
           U == Nat \ T
<1>1. SUFFICES ASSUME U # {} PROVE FALSE
  OBVIOUS
<1>2. IsWellFoundedOn(R, Nat)
  BY NatLessThanWellFounded DEF OpToRel
<1>3. PICK x \in U : \A y \in U : ~ (<<y, x>> \in R)
  <2> HIDE DEF R
  <2>1. U \subseteq Nat
    OBVIOUS
  <2> HIDE DEF U
  <2> QED
    BY <1>1, <1>2, <2>1, WFMin
<1>4. x \in Nat /\ x # 0
  OBVIOUS
<1>5. x - 1 \in Nat /\ x - 1 < x /\ (x - 1) + 1 = x
  BY <1>4
<1>6. x - 1 \notin U
  BY <1>3, <1>4, <1>5
<1>7. x \in T
  BY <1>5, <1>6
<1> QED
  BY <1>7

(* The number of the first backup that is missing. *)
LEMMA CountIs ==
  ASSUME TypeOK, CountBackups
  PROVE  /\ count' \in Nat /\ count' + 1 \notin DOMAIN Backup
         /\ 1 .. count' \subseteq DOMAIN Backup
<1>1. DOMAIN Backup \subseteq 1 .. Files /\ Files \in Nat
  BY CurrentFiles, BackupsAre, ConstantsAssumption
<1>2. \E n \in 0 .. Files : ~ Exists(n + 1) /\ \A i \in 1 .. n : Exists(i)
  <2> SUFFICES ASSUME \A n \in 0 .. Files : (\A i \in 1 .. n : Exists(i)) => Exists(n + 1)
               PROVE  FALSE
    OBVIOUS
  <2> DEFINE T == {n \in Nat : 1 .. n \subseteq DOMAIN Backup}
  <2>1. 0 \in T
    OBVIOUS
  <2>2. ASSUME NEW n \in Nat, n \in T PROVE n + 1 \in T
    <3>1. n \in 0 .. Files
      BY <2>2, <1>1
    <3>2. n + 1 \in DOMAIN Backup
      BY <2>2, <3>1 DEF Exists
    <3> QED
      BY <2>2, <3>2
  <2>3. Nat \subseteq T
    <3> HIDE DEF T
    <3> QED
      BY <2>1, <2>2, NaturalsFollow
  <2>4. Files + 1 \in T
    BY <1>1, <2>3
  <2> QED
    BY <1>1, <2>4
<1>3. count' = CHOOSE n \in 0 .. Files : ~ Exists(n + 1) /\ \A i \in 1 .. n : Exists(i)
  BY DEF CountBackups
<1>4. count' \in 0 .. Files /\ ~ Exists(count' + 1) /\ \A i \in 1 .. count' : Exists(i)
  <2> DEFINE P(n) == ~ Exists(n + 1) /\ \A i \in 1 .. n : Exists(i)
  <2>1. (\E n \in 0 .. Files : P(n)) /\ count' = CHOOSE n \in 0 .. Files : P(n)
    BY <1>2, <1>3
  <2>2. count' \in 0 .. Files /\ P(count')
    <3> HIDE DEF P
    <3> QED
      BY <2>1
  <2> QED
    BY <2>2
<1> QED
  BY <1>1, <1>4 DEF Exists

LEMMA BackupChanges ==
  ASSUME TypeOK, NEW b \in Backups, disk' = [disk EXCEPT ![settings.name].backup = b]
  PROVE  /\ disk' \in [Names -> DiskStates]
         /\ \A name \in Names :
              /\ disk'[name].log = disk[name].log
              /\ disk'[name].unflushed = disk[name].unflushed
              /\ disk'[name].backup = IF name = settings.name THEN b ELSE disk[name].backup
BY CurrentFiles DEF TypeOK, DiskStates

LEMMA RemoveIs ==
  ASSUME TypeOK, Rotates, RemoveBackup
  PROVE  /\ thread[Main].at = "remove" /\ settings.maxBackups > 0 /\ count >= settings.maxBackups
         /\ count' = count - 1 /\ count' \in Nat /\ count \in DOMAIN Backup
         /\ disk' \in [Names -> DiskStates]
         /\ \A name \in Names :
              /\ disk'[name].log = disk[name].log
              /\ disk'[name].unflushed = disk[name].unflushed
              /\ name # settings.name => disk'[name].backup = disk[name].backup
         /\ LET b == disk'[settings.name].backup IN
            DOMAIN b = DOMAIN Backup \ {count} /\ \A i \in DOMAIN b : b[i] = Backup[i]
         /\ history' \in Histories
         /\ history' = [history EXCEPT !.removed = @ \cup ToSet(Backup[count])]
<1>1. /\ thread[Main].at = "remove" /\ settings.maxBackups > 0 /\ count >= settings.maxBackups
      /\ count' = count - 1
      /\ disk' = [disk EXCEPT ![settings.name].backup = Without(count)]
      /\ history' = [history EXCEPT !.removed = @ \cup ToSet(Backup[count])]
  BY DEF RemoveBackup, Running, ExceedsLimit
<1>2. count \in Nat /\ count # 0 /\ count - 1 \in Nat
  BY <1>1, CurrentFiles DEF TypeOK
<1>3. count \in DOMAIN Backup
  BY <1>1, <1>2 DEF Rotates
<1>4. ToSet(Backup[count]) \subseteq Lines
  BY <1>3, CurrentFiles, BackupsAre, ToSetIs
<1>5. Without(count) \in Backups
  BY WithoutIs
<1>6. history' \in Histories
  BY <1>1, <1>4, HistoryIs
<1> DEFINE b == Without(count)
<1>7. /\ b \in Backups /\ DOMAIN b = DOMAIN Backup \ {count}
      /\ \A i \in DOMAIN b : b[i] = Backup[i]
      /\ disk' = [disk EXCEPT ![settings.name].backup = b]
  BY <1>1, WithoutIs
<1> HIDE DEF b
<1>8. /\ disk' \in [Names -> DiskStates]
      /\ \A name \in Names :
           /\ disk'[name].log = disk[name].log
           /\ disk'[name].unflushed = disk[name].unflushed
           /\ disk'[name].backup = IF name = settings.name THEN b ELSE disk[name].backup
  BY <1>7, BackupChanges
<1> QED
  BY <1>1, <1>2, <1>3, <1>6, <1>7, <1>8, CurrentFiles

LEMMA RenameIs ==
  ASSUME TypeOK, Rotates, RenameBackup
  PROVE  /\ thread[Main].at = "rename" /\ count' = count - 1 /\ count' \in Nat
         /\ count \in DOMAIN Backup
         /\ disk' \in [Names -> DiskStates]
         /\ \A name \in Names :
              /\ disk'[name].log = disk[name].log
              /\ disk'[name].unflushed = disk[name].unflushed
              /\ name # settings.name => disk'[name].backup = disk[name].backup
         /\ LET b == disk'[settings.name].backup IN
            \/ b = Backup /\ (count + 1 \in DOMAIN Backup \/ count + 1 > Files)
            \/ /\ count + 1 \notin DOMAIN Backup
               /\ DOMAIN b = (DOMAIN Backup \ {count}) \cup {count + 1}
               /\ b[count + 1] = Backup[count]
               /\ \A i \in DOMAIN Backup \ {count} : b[i] = Backup[i]
<1>1. /\ thread[Main].at = "rename" /\ count > 0 /\ count' = count - 1
      /\ disk' = IF CanRename(count + 1)
                 THEN [disk EXCEPT ![settings.name].backup =
                                     With(Without(count), count + 1, Backup[count])]
                 ELSE disk
  BY DEF RenameBackup, Running
<1>2. count \in Nat /\ count # 0 /\ count - 1 \in Nat /\ count + 1 # count /\ Files \in Nat
  BY <1>1, ConstantsAssumption DEF TypeOK
<1>3. count \in DOMAIN Backup /\ Backup[count] \in Seq(Lines)
  BY <1>1, <1>2, CurrentFiles, BackupsAre DEF Rotates
<1>4. CASE CanRename(count + 1)
  <2> DEFINE b == With(Without(count), count + 1, Backup[count])
  <2>1. count + 1 \in 1 .. Files /\ count + 1 \notin DOMAIN Backup
    BY <1>4 DEF CanRename, Exists
  <2>2. /\ b \in Backups /\ DOMAIN b = DOMAIN Without(count) \cup {count + 1}
        /\ b[count + 1] = Backup[count]
        /\ \A j \in DOMAIN Without(count) : j # count + 1 => b[j] = Without(count)[j]
    <3>1. Without(count) \in Backups
      BY WithoutIs
    <3>2. count + 1 \in 1 .. Files /\ Backup[count] \in Seq(Lines)
      BY <1>3, <2>1
    <3> QED
      BY <3>1, <3>2, WithIs
  <2>3. /\ DOMAIN b = (DOMAIN Backup \ {count}) \cup {count + 1}
        /\ \A i \in DOMAIN Backup \ {count} : b[i] = Backup[i]
    BY <2>1, <2>2, WithoutIs
  <2>4. disk' = [disk EXCEPT ![settings.name].backup = b]
    BY <1>1, <1>4
  <2> HIDE DEF b
  <2>5. /\ disk' \in [Names -> DiskStates]
        /\ \A name \in Names :
              /\ disk'[name].log = disk[name].log
              /\ disk'[name].unflushed = disk[name].unflushed
              /\ disk'[name].backup = IF name = settings.name THEN b ELSE disk[name].backup
    BY <2>2, <2>4, BackupChanges
  <2> QED
    BY <1>1, <1>2, <1>3, <2>1, <2>2, <2>3, <2>5, CurrentFiles
<1>5. CASE ~ CanRename(count + 1)
  <2>1. count + 1 \in DOMAIN Backup \/ count + 1 > Files
    BY <1>2, <1>5 DEF CanRename, Exists
  <2>2. disk' = disk
    BY <1>1, <1>5
  <2> QED
    BY <1>1, <1>2, <1>3, <2>1, <2>2 DEF Backup, TypeOK
<1> QED
  BY <1>4, <1>5

LEMMA RenameLogIs ==
  ASSUME TypeOK, Rotates, RenameLog
  PROVE  /\ thread[Main].at = "rename" /\ count = 0
         /\ disk' \in [Names -> DiskStates]
         /\ \A name \in Names :
              /\ disk'[name].unflushed = disk[name].unflushed
              /\ name # settings.name => /\ disk'[name].backup = disk[name].backup
                                         /\ disk'[name].log = disk[name].log
         /\ LET d == disk'[settings.name] IN
            \/ d = disk[settings.name] /\ (1 \in DOMAIN Backup \/ 1 > Files)
            \/ /\ 1 \notin DOMAIN Backup /\ DOMAIN d.backup = DOMAIN Backup \cup {1}
               /\ d.backup[1] = disk[settings.name].log /\ d.log = << >>
               /\ \A i \in DOMAIN Backup : d.backup[i] = Backup[i]
<1>1. /\ thread[Main].at = "rename" /\ count = 0
      /\ disk' = IF CanRename(1)
                 THEN [disk EXCEPT ![settings.name].backup = With(Backup, 1, disk[settings.name].log),
                                   ![settings.name].log = << >>]
                 ELSE disk
  BY DEF RenameLog, Running
<1>2. CASE CanRename(1)
  <2> DEFINE b == With(Backup, 1, disk[settings.name].log)
  <2>1. 1 \in 1 .. Files /\ 1 \notin DOMAIN Backup
    BY <1>2 DEF CanRename, Exists
  <2>2. /\ b \in Backups /\ DOMAIN b = DOMAIN Backup \cup {1}
        /\ b[1] = disk[settings.name].log
        /\ \A j \in DOMAIN Backup : b[j] = Backup[j]
    <3>1. /\ Backup \in Backups /\ disk[settings.name].log \in Seq(Lines)
          /\ \A j \in DOMAIN Backup : j # 1
      BY <2>1, CurrentFiles
    <3>2. /\ b \in Backups /\ DOMAIN b = DOMAIN Backup \cup {1}
          /\ b[1] = disk[settings.name].log
          /\ \A j \in DOMAIN Backup : j # 1 => b[j] = Backup[j]
      BY <2>1, <3>1, WithIs, ZenonT(40)
    <3> QED
      BY <3>1, <3>2
  <2>3. disk' = [disk EXCEPT ![settings.name].backup = b, ![settings.name].log = << >>]
    BY <1>1, <1>2
  <2> HIDE DEF b
  <2> DEFINE e == [disk[settings.name] EXCEPT !.backup = b, !.log = << >>]
  <2>5. disk' = [disk EXCEPT ![settings.name] = e]
    BY <2>3, CurrentFiles DEF TypeOK
  <2>6. /\ e \in DiskStates /\ e.log = << >> /\ e.backup = b
        /\ e.unflushed = disk[settings.name].unflushed
    <3>1. disk[settings.name] \in DiskStates /\ << >> \in Seq(Lines) /\ b \in Backups
      BY <2>2, CurrentFiles DEF TypeOK
    <3> QED
      BY <3>1 DEF DiskStates
  <2> HIDE DEF e
  <2>7. /\ disk' \in [Names -> DiskStates] /\ disk'[settings.name] = e
        /\ \A name \in Names \ {settings.name} : disk'[name] = disk[name]
    BY <2>5, <2>6, CurrentFiles DEF TypeOK
  <2> QED
    BY <1>1, <2>1, <2>2, <2>6, <2>7
<1>3. CASE ~ CanRename(1)
  <2>1. 1 \in DOMAIN Backup \/ 1 > Files
    BY <1>3, ConstantsAssumption DEF CanRename, Exists
  <2>2. disk' = disk
    BY <1>1, <1>3
  <2> QED
    BY <1>1, <2>1, <2>2 DEF TypeOK
<1> QED
  BY <1>2, <1>3

LEMMA BaseCountBackups ==
  ASSUME TypeOK, UnflushedFits, LocksFit, CountBackups
  PROVE  TypeOK' /\ LocksFit'
<1>t. /\ thread' \in [Threads -> ThreadStates]
      /\ \A u \in Threads : thread'[u].at = IF u = Main THEN "remove" ELSE thread[u].at
  BY GotoIs DEF CountBackups, Threads, Places, WriterPlaces, MainPlaces, MutexPlaces
<1>c. count' \in Nat
  BY CountIs
<1>u. UNCHANGED <<program, settings, defaultLogger, handler, mutex, buffers, logVars, file, disk, budget, history>>
      /\ thread[Main].at = "count"
  BY DEF CountBackups, Running
<1>1. TypeOK'
  BY <1>t, <1>c, <1>u DEF TypeOK
<1>2. LocksFit'
  BY <1>t, <1>u, ConstantsAssumption DEF LocksFit, TypeOK, Threads, WriterPlaces, MainPlaces, MutexPlaces
<1> QED
  BY <1>1, <1>2

LEMMA BaseRemoveBackup ==
  ASSUME TypeOK, LocksFit, Rotates, RemoveBackup
  PROVE  TypeOK' /\ LocksFit'
<1>1. /\ count' \in Nat /\ disk' \in [Names -> DiskStates] /\ history' \in Histories
  BY RemoveIs
<1>2. UNCHANGED <<program, settings, defaultLogger, handler, mutex, thread, buffers, logVars,
                  file, budget>>
  BY DEF RemoveBackup
<1> QED
  BY <1>1, <1>2 DEF TypeOK, LocksFit

LEMMA BaseRenameBackup ==
  ASSUME TypeOK, LocksFit, Rotates, RenameBackup
  PROVE  TypeOK' /\ LocksFit'
<1>1. /\ count' \in Nat /\ disk' \in [Names -> DiskStates]
  BY RenameIs
<1>2. UNCHANGED <<program, settings, defaultLogger, handler, mutex, thread, buffers, logVars,
                  file, budget, history>>
  BY DEF RenameBackup
<1> QED
  BY <1>1, <1>2 DEF TypeOK, LocksFit

LEMMA BaseRemoveFails ==
  ASSUME TypeOK, LocksFit, RemoveFails
  PROVE  TypeOK' /\ LocksFit' /\ count' = count - 1 /\ count > 0
<1>1. /\ settings.maxBackups > 0 /\ count >= settings.maxBackups /\ count' = count - 1
      /\ UNCHANGED <<program, settings, defaultLogger, handler, mutex, thread, buffers, logVars,
                     file, disk>>
  BY DEF RemoveFails, ExceedsLimit
<1>2. count' \in Nat /\ count > 0
  BY <1>1, CurrentFiles DEF TypeOK
<1>3. budget' \in Budgets /\ history' \in Histories
  BY BudgetIs, HistoryIs DEF RemoveFails
<1> QED
  BY <1>1, <1>2, <1>3 DEF TypeOK, LocksFit

LEMMA BaseRenameFails ==
  ASSUME TypeOK, LocksFit, RenameFails
  PROVE  TypeOK' /\ LocksFit' /\ count' = count - 1 /\ count > 0
<1>1. /\ count > 0 /\ count' = count - 1
      /\ UNCHANGED <<program, settings, defaultLogger, handler, mutex, thread, buffers, logVars,
                     file, disk>>
  BY DEF RenameFails, ExceedsLimit
<1>2. count' \in Nat /\ count > 0
  BY <1>1, CurrentFiles DEF TypeOK
<1>3. budget' \in Budgets /\ history' \in Histories
  BY BudgetIs, HistoryIs DEF RenameFails
<1> QED
  BY <1>1, <1>2, <1>3 DEF TypeOK, LocksFit

LEMMA BaseRemovalEnds ==
  ASSUME TypeOK, UnflushedFits, LocksFit, RemovalEnds
  PROVE  TypeOK' /\ LocksFit'
<1>t. /\ thread' \in [Threads -> ThreadStates]
      /\ \A u \in Threads : thread'[u].at = IF u = Main THEN "rename" ELSE thread[u].at
  BY GotoIs DEF RemovalEnds, Threads, Places, WriterPlaces, MainPlaces, MutexPlaces
<1>u. UNCHANGED <<program, settings, defaultLogger, handler, mutex, buffers, logVars, file, disk, count, budget, history>>
      /\ thread[Main].at = "remove"
  BY DEF RemovalEnds, Running
<1>1. TypeOK'
  BY <1>t, <1>u DEF TypeOK
<1>2. LocksFit'
  BY <1>t, <1>u, ConstantsAssumption DEF LocksFit, TypeOK, Threads, WriterPlaces, MainPlaces, MutexPlaces
<1> QED
  BY <1>1, <1>2

LEMMA BaseRenameLog ==
  ASSUME TypeOK, UnflushedFits, LocksFit, Rotates, RenameLog
  PROVE  TypeOK' /\ LocksFit'
<1>t. /\ thread' \in [Threads -> ThreadStates]
      /\ \A u \in Threads : thread'[u].at = IF u = Main THEN "open" ELSE thread[u].at
  BY GotoIs DEF RenameLog, Threads, Places, WriterPlaces, MainPlaces, MutexPlaces
<1>d. disk' \in [Names -> DiskStates]
  BY RenameLogIs
<1>h. history' \in Histories
  BY HistoryIs DEF RenameLog
<1>u. UNCHANGED <<program, settings, defaultLogger, handler, mutex, buffers, logVars, file, count, budget>>
      /\ thread[Main].at = "rename"
  BY DEF RenameLog, Running
<1>1. TypeOK'
  BY <1>t, <1>d, <1>h, <1>u DEF TypeOK
<1>2. LocksFit'
  BY <1>t, <1>u, ConstantsAssumption DEF LocksFit, TypeOK, Threads, WriterPlaces, MainPlaces, MutexPlaces
<1> QED
  BY <1>1, <1>2

LEMMA BaseRestart ==
  ASSUME TypeOK, Restart
  PROVE  /\ TypeOK' /\ LocksFit' /\ disk' = disk /\ history'.faulty /\ budget'.calls = budget.calls
         /\ \A t \in Threads : thread'[t].at = "idle" /\ thread'[t].queue = << >>
         /\ \A t \in Writers : buffers'[t] = << >>
         /\ history'.largest = settings'.bufferSize
         /\ history'.important = history.important /\ history'.removed = history.removed
         /\ history'.disabled = history.disabled
<1>1. PICK change \in {0, 1} :
        /\ settings' \in IF change = 1 THEN Configs \ {settings} ELSE {settings}
        /\ budget' = [budget EXCEPT !.faults = @ + 1, !.changes = @ + change]
  BY DEF Restart
<1>2. settings' \in Configs
  BY <1>1 DEF TypeOK
<1>3. budget' \in Budgets /\ budget'.calls = budget.calls
  <2>1. ASSUME NEW b \in Budgets, NEW faults \in Nat, NEW changes \in Nat
        PROVE  LET c == [b EXCEPT !.faults = faults, !.changes = changes] IN
               c \in Budgets /\ c.calls = b.calls
    BY DEF Budgets
  <2>2. budget \in Budgets /\ budget.faults + 1 \in Nat /\ budget.changes + change \in Nat
    BY DEF TypeOK, Budgets
  <2> QED
    BY <1>1, <2>1, <2>2
<1>4. settings'.bufferSize \in Nat
  BY <1>2, SettingsAssumption
<1>5. /\ history' \in Histories /\ history'.faulty /\ history'.largest = settings'.bufferSize
      /\ history'.important = history.important /\ history'.removed = history.removed
      /\ history'.disabled = history.disabled
  BY <1>4 DEF Restart, TypeOK, Histories
<1>6. /\ thread' = [t \in Threads |-> Idle] /\ buffers' = [t \in Writers |-> << >>]
      /\ logVars' = [t \in Writers |-> NoValue]
      /\ program' = "running" /\ file' \in BOOLEAN /\ defaultLogger' = FALSE
      /\ handler' = None /\ mutex' = None /\ count' = 0 /\ disk' = disk
  BY DEF Restart
<1>7. Idle \in ThreadStates /\ Idle.at = "idle" /\ Idle.queue = << >>
  BY DEF Idle, ThreadStates, Places, WriterPlaces, NoMessage
<1>8. /\ thread' \in [Threads -> ThreadStates]
      /\ \A t \in Threads : thread'[t].at = "idle" /\ thread'[t].queue = << >>
  BY <1>6, <1>7
<1>9. buffers' \in [Writers -> Seq(Messages)] /\ logVars' \in [Writers -> Shown]
  BY <1>6 DEF Shown
<1>10. TypeOK'
  BY <1>2, <1>3, <1>5, <1>6, <1>8, <1>9 DEF TypeOK
<1>11. LocksFit'
  BY <1>6, <1>8, ConstantsAssumption DEF LocksFit, Threads, WriterPlaces, MainPlaces
<1> QED
  BY <1>3, <1>5, <1>6, <1>8, <1>10, <1>11

LEMMA BaseInit ==
  ASSUME Init
  PROVE  /\ TypeOK /\ LocksFit /\ history.important = {} /\ history.largest = settings.bufferSize
         /\ \A name \in Names : /\ disk[name].log = << >> /\ disk[name].unflushed = 0
                               /\ DOMAIN disk[name].backup = {}
         /\ \A t \in Threads : thread[t].at = "idle" /\ thread[t].queue = << >>
         /\ \A t \in Writers : buffers[t] = << >>
<1>1. /\ program = "running" /\ settings \in Configs /\ defaultLogger = FALSE
      /\ handler = None /\ mutex = None /\ thread = [t \in Threads |-> Idle]
      /\ buffers = [t \in Writers |-> << >>] /\ logVars = [t \in Writers |-> NoValue]
      /\ file \in BOOLEAN /\ disk = [name \in Names |-> NewDisk] /\ count = 0
      /\ budget = [calls |-> 0, changes |-> 0, faults |-> 0]
      /\ history = [important |-> {}, removed |-> {}, faulty |-> FALSE, disabled |-> FALSE,
                    rotated |-> FALSE, largest |-> settings.bufferSize]
  BY DEF Init
<1>2. settings.bufferSize \in Nat
  BY <1>1, SettingsAssumption
<1>3. Idle \in ThreadStates /\ Idle.at = "idle" /\ Idle.queue = << >>
  BY DEF Idle, ThreadStates, Places, WriterPlaces, NoMessage
<1>4. << >> \in Backups /\ DOMAIN << >> = {}
  <2>1. DOMAIN << >> = {} /\ << >> = [i \in DOMAIN << >> |-> << >>[i]]
    OBVIOUS
  <2> QED
    BY <2>1, AreBackups
<1>5. /\ NewDisk \in DiskStates /\ NewDisk.log = << >> /\ NewDisk.unflushed = 0
      /\ DOMAIN NewDisk.backup = {}
  <2>1. << >> \in Seq(Lines)
    OBVIOUS
  <2> QED
    BY <1>4, <2>1 DEF NewDisk, DiskStates
<1>6. history \in Histories /\ history.important = {} /\ history.largest = settings.bufferSize
  BY <1>1, <1>2 DEF Histories
<1>7. thread \in [Threads -> ThreadStates] /\ disk \in [Names -> DiskStates]
  BY <1>1, <1>3, <1>5
<1>8. budget \in Budgets /\ buffers \in [Writers -> Seq(Messages)] /\ logVars \in [Writers -> Shown]
  BY <1>1 DEF Budgets, Shown
<1>9. TypeOK
  BY <1>1, <1>6, <1>7, <1>8 DEF TypeOK
<1>10. LocksFit
  BY <1>1, <1>3, ConstantsAssumption DEF LocksFit, Threads, WriterPlaces, MainPlaces
<1> QED
  BY <1>1, <1>3, <1>5, <1>6, <1>9, <1>10

-----------------------------------------------------------------------------
(* What is on the disk: numbers of backups, and what is safe there.        *)

DiskInv == Rotates /\ UnflushedFits /\ NumbersFit /\ ImportantFit
Rotating == {"count", "remove", "rename"}

LEMMA SafeIs ==
  ASSUME NEW name, NEW m
  PROVE  m \in Safe(name) <=> \/ \E p \in 1 .. SafePart(name) : disk[name].log[p] = m
                             \/ \E i \in DOMAIN disk[name].backup : m \in ToSet(disk[name].backup[i])
BY DEF Safe

(* The numbers of the backups do not depend on the logs. *)
LEMMA NumbersKept ==
  ASSUME TypeOK, TypeOK', NumbersFit,
         \A name \in Names : DOMAIN disk'[name].backup = DOMAIN disk[name].backup,
         settings' = settings, count' = count, thread[Main].at # "rename" \/ thread'[Main].at = "rename",
         thread'[Main].at \in {"remove", "rename"} => thread'[Main].at = thread[Main].at,
         history.faulty => history'.faulty, history'.rotated => history.rotated
  PROVE  NumbersFit'
<1> SUFFICES ASSUME ~ history'.faulty PROVE NumbersFit'
  BY DEF NumbersFit
<1>1. settings.name \in Names
  BY CurrentFiles
<1>2. DOMAIN Backup' = DOMAIN Backup
  BY <1>1 DEF Backup
<1> QED
  BY <1>2 DEF NumbersFit

LEMMA DiskUnchanged ==
  ASSUME TypeOK, TypeOK', DiskInv, disk' = disk, settings' = settings, count' = count,
         \/ thread'[Main].at = thread[Main].at
         \/ thread[Main].at # "rename" /\ thread'[Main].at \notin Rotating,
         history.faulty => history'.faulty, history'.rotated => history.rotated,
         history'.important = history.important, history'.removed = history.removed
  PROVE  DiskInv'
<1>1. Rotates'
  BY DEF DiskInv, Rotates, Rotating, Backup
<1>2. UnflushedFits'
  BY DEF DiskInv, UnflushedFits
<1>3. NumbersFit'
  BY NumbersKept DEF DiskInv, Rotating
<1>4. ImportantFit'
  BY DEF DiskInv, ImportantFit, Safe, SafePart
<1> QED
  BY <1>1, <1>2, <1>3, <1>4 DEF DiskInv

LEMMA DiskWriteMessage ==
  ASSUME TypeOK, TypeOK', LocksFit, DiskInv, NEW t \in Writers, WriteMessage(t)
  PROVE  DiskInv'
<1> DEFINE m == toString(Head(thread[t].queue), t)
<1>1. /\ m \in Lines /\ thread[t].at = "writing"
      /\ \A u \in Threads \ {t} : thread'[u] = thread[u]
      /\ \/ disk' = disk /\ history' = history
         \/ /\ disk' = Written(m)
            /\ history' \in {history, [history EXCEPT !.important = @ \cup {m}]}
            /\ history' # history => m.level >= Critical
      /\ UNCHANGED <<settings, count>>
  BY WriteMessageIs DEF WriteMessage
<1> HIDE DEF m
<1>2. thread'[Main].at = thread[Main].at /\ thread[Main].at \notin Rotating
  BY <1>1, ConstantsAssumption DEF LocksFit, Threads, Rotating
<1>3. CASE disk' = disk /\ history' = history
  BY <1>1, <1>2, <1>3, DiskUnchanged
<1>4. CASE /\ disk' = Written(m)
           /\ history' \in {history, [history EXCEPT !.important = @ \cup {m}]}
           /\ history' # history => m.level >= Critical
  <2> DEFINE log == disk[settings.name].log
  <2>1. /\ \A name \in Names \ {settings.name} : disk'[name] = disk[name]
        /\ \A name \in Names : disk'[name].backup = disk[name].backup
        /\ disk'[settings.name].log = Append(log, m)
        /\ disk'[settings.name].unflushed = IF m.level >= Critical THEN 0
                                            ELSE disk[settings.name].unflushed + 1
        /\ log \in Seq(Lines) /\ settings.name \in Names /\ disk[settings.name].unflushed \in Nat
    BY <1>1, <1>4, WrittenIs, CurrentFiles DEF Backup
  <2>2. /\ history'.important \subseteq history.important \cup {m}
        /\ m \in history'.important /\ m \notin history.important => m.level >= Critical
        /\ history'.removed = history.removed /\ history'.faulty = history.faulty
        /\ history'.rotated = history.rotated
    BY <1>4 DEF TypeOK, Histories
  <2>3. /\ Len(Append(log, m)) = Len(log) + 1 /\ Append(log, m)[Len(log) + 1] = m
        /\ \A p \in 1 .. Len(log) : Append(log, m)[p] = log[p]
        /\ Len(log) \in Nat
    BY <1>1, <2>1
  <2> DEFINE unflushed == IF m.level >= Critical THEN 0 ELSE disk[settings.name].unflushed + 1
  <2>4. /\ unflushed \in Nat /\ unflushed <= Len(log) + 1
        /\ unflushed \in {0, disk[settings.name].unflushed + 1}
        /\ disk[settings.name].unflushed <= Len(log)
    BY <2>1, <2>3 DEF DiskInv, UnflushedFits
  <2>5. Rotates' /\ UnflushedFits' /\ NumbersFit'
    <3>1. Rotates'
      BY <1>2 DEF Rotates, Rotating
    <3>2. UnflushedFits'
      BY <2>1, <2>3, <2>4 DEF DiskInv, UnflushedFits
    <3>3. NumbersFit'
      BY <1>1, <1>2, <2>1, <2>2, NumbersKept DEF DiskInv, Rotating
    <3> QED
      BY <3>1, <3>2, <3>3
  <2>6. ASSUME NEW name \in Names, NEW x \in Safe(name) PROVE x \in Safe(name)'
    <3>1. CASE name # settings.name
      BY <2>1, <2>6, <3>1 DEF Safe, SafePart
    <3>2. CASE name = settings.name
      <4>1. SafePart(name) <= SafePart(name)' /\ SafePart(name) <= Len(log) /\ SafePart(name) \in Int
            /\ SafePart(name)' \in Int
        <5>1. disk'[name].unflushed = unflushed /\ Len(disk'[name].log) = Len(log) + 1
          BY <2>1, <2>3, <3>2
        <5> HIDE DEF unflushed
        <5>2. /\ SafePart(name) = Len(log) - disk[settings.name].unflushed
              /\ SafePart(name)' = (Len(log) + 1) - unflushed
          BY <5>1, <3>2 DEF SafePart
        <5> DEFINE u == disk[settings.name].unflushed
        <5>3. u \in Nat /\ u <= Len(log) /\ unflushed \in {0, u + 1} /\ Len(log) \in Nat
          BY <2>1, <2>3, <2>4
        <5>4. SafePart(name) = Len(log) - u
          BY <5>2
        <5> HIDE DEF u, log
        <5>5. CASE unflushed = 0
          BY <5>2, <5>3, <5>4, <5>5
        <5>6. CASE unflushed = u + 1
          BY <5>2, <5>3, <5>4, <5>6
        <5> QED
          BY <5>3, <5>5, <5>6
      <4>2. CASE \E p \in 1 .. SafePart(name) : log[p] = x
        <5>1. PICK p \in 1 .. SafePart(name) : log[p] = x
          BY <4>2
        <5>2. p \in 1 .. SafePart(name)' /\ disk'[name].log[p] = x
          <6>1. p \in 1 .. Len(log)
            BY <5>1, <4>1, <2>3
          <6>2. Append(log, m)[p] = x
            BY <6>1, <5>1, <2>3
          <6>3. disk'[name].log[p] = x
            BY <6>2, <2>1, <3>2
          <6>4. p \in 1 .. SafePart(name)'
            <7> DEFINE before == SafePart(name)
                       after == SafePart(name)'
            <7>1. before \in Int /\ after \in Int /\ before <= after /\ p \in 1 .. before
              BY <4>1, <5>1
            <7> HIDE DEF before, after
            <7>2. p \in 1 .. after
              BY <7>1
            <7> QED
              BY <7>2 DEF after
          <6> QED
            BY <6>3, <6>4
        <5> QED
          BY <5>2 DEF Safe
      <4>3. CASE \E i \in DOMAIN disk[name].backup : x \in ToSet(disk[name].backup[i])
        BY <4>3, <2>1 DEF Safe
      <4> QED
        BY <2>6, <3>2, <4>2, <4>3, SafeIs
    <3> QED
      BY <3>1, <3>2
  <2>7. m \in history'.important /\ m \notin history.important => m \in Safe(settings.name)'
    <3> SUFFICES ASSUME m.level >= Critical PROVE m \in Safe(settings.name)'
      BY <2>2
    <3>1. SafePart(settings.name)' = Len(log) + 1
      BY <2>1, <2>3, <1>1 DEF SafePart
    <3>2. Len(log) + 1 \in 1 .. SafePart(settings.name)' /\ disk'[settings.name].log[Len(log) + 1] = m
      BY <2>1, <2>3, <3>1
    <3>3. settings'.name = settings.name
      BY <1>1
    <3> QED
      BY <3>2, <3>3 DEF Safe
  <2>8. ImportantFit'
    <3> SUFFICES ASSUME NEW x \in history'.important
                 PROVE  x \in history'.removed \/ \E name \in Names : x \in Safe(name)'
      BY DEF ImportantFit
    <3>1. CASE x \in history.important
      BY <3>1, <2>2, <2>6 DEF DiskInv, ImportantFit
    <3>2. CASE x = m /\ m \notin history.important
      <4>1. m \in history'.important /\ m \notin history.important
        BY <3>2
      <4>2. m \in Safe(settings.name)'
        BY <4>1, <2>7
      <4>3. settings.name \in Names
        BY <2>1
      <4>4. \E name \in Names : m \in Safe(name)'
        BY <4>2, <4>3, <1>1 DEF Safe, SafePart
      <4> QED
        BY <3>2, <4>4
    <3> QED
      BY <2>2, <3>1, <3>2
  <2> QED
    BY <2>5, <2>8 DEF DiskInv
<1> QED
  BY <1>1, <1>3, <1>4

LEMMA DiskLost ==
  ASSUME TypeOK, TypeOK', DiskInv, disk' = Lost, UNCHANGED <<settings, count, thread>>,
         history.faulty => history'.faulty, history'.rotated => history.rotated,
         history'.important = history.important, history'.removed = history.removed
  PROVE  DiskInv'
<1>1. \A name \in Names :
        /\ disk'[name].backup = disk[name].backup /\ disk'[name].unflushed = 0
        /\ Len(disk'[name].log) = SafePart(name) /\ disk'[name].log \in Seq(Lines)
        /\ \A p \in 1 .. SafePart(name) : disk'[name].log[p] = disk[name].log[p]
  BY LostIs DEF DiskInv, TypeOK, DiskStates
<1>2. settings.name \in Names
  BY CurrentFiles
<1>3. Rotates' /\ UnflushedFits'
  BY <1>1, <1>2 DEF DiskInv, Rotates, UnflushedFits, Backup
<1>4. NumbersFit'
  BY <1>1, NumbersKept DEF DiskInv
<1>5. ASSUME NEW name \in Names PROVE SafePart(name)' = SafePart(name)
  <2>1. SafePart(name)' = Len(disk'[name].log) - 0 /\ Len(disk'[name].log) \in Nat
    BY <1>1 DEF SafePart
  <2> QED
    BY <1>1, <2>1
<1>6. \A name \in Names : Safe(name)' = Safe(name)
  BY <1>1, <1>5 DEF Safe
<1>7. ImportantFit'
  BY <1>6 DEF DiskInv, ImportantFit
<1> QED
  BY <1>3, <1>4, <1>7 DEF DiskInv

LEMMA DiskFlushed ==
  ASSUME TypeOK, TypeOK', DiskInv, disk' \in {disk, Flushed(settings.name)}, count' = count,
         thread[Main].at \notin Rotating,
         \/ thread'[Main].at \notin Rotating
         \/ /\ thread'[Main].at = "count" /\ disk' = Flushed(settings.name)
            /\ settings'.name = settings.name,
         \/ settings' = settings /\ history'.rotated = history.rotated
         \/ ~ history'.rotated,
         history'.faulty = history.faulty,
         history'.important = history.important, history'.removed = history.removed
  PROVE  DiskInv'
<1>0. settings.name \in Names
  BY CurrentFiles
<1>1. \A name \in Names :
        /\ disk'[name].backup = disk[name].backup /\ disk'[name].log = disk[name].log
        /\ disk'[name].unflushed \in {disk[name].unflushed, 0}
  BY <1>0, FlushedIs
<1>2. Rotates'
  <2>1. CASE thread'[Main].at \notin Rotating
    BY <2>1 DEF Rotates, Rotating
  <2>2. CASE thread'[Main].at = "count" /\ disk' = Flushed(settings.name) /\ settings'.name = settings.name
    BY <2>2, <1>0, FlushedIs DEF Rotates
  <2> QED
    BY <2>1, <2>2
<1>3. ASSUME NEW name \in Names
      PROVE  /\ disk'[name].unflushed <= Len(disk'[name].log)
             /\ SafePart(name) <= SafePart(name)' /\ SafePart(name) \in Int /\ SafePart(name)' \in Int
  <2>1. /\ disk[name].unflushed \in Nat /\ Len(disk[name].log) \in Nat
        /\ disk[name].unflushed <= Len(disk[name].log)
    BY DEF TypeOK, DiskStates, DiskInv, UnflushedFits
  <2> DEFINE u == disk[name].unflushed
             l == Len(disk[name].log)
             v == disk'[name].unflushed
  <2>2. SafePart(name) = l - u /\ SafePart(name)' = l - v /\ Len(disk'[name].log) = l /\ v \in {u, 0}
    BY <1>1 DEF SafePart
  <2>3. u \in Nat /\ l \in Nat /\ u <= l
    BY <2>1
  <2> HIDE DEF u, l, v
  <2>4. v <= l /\ l - u <= l - v /\ l - u \in Int /\ l - v \in Int
    BY <2>2, <2>3
  <2> QED
    BY <2>2, <2>4 DEF v
<1>4. UnflushedFits'
  BY <1>3 DEF UnflushedFits
<1>5. NumbersFit'
  <2> SUFFICES ASSUME ~ history'.faulty PROVE NumbersFit'
    BY DEF NumbersFit
  <2>1. thread'[Main].at \notin {"remove", "rename"}
    BY DEF Rotating
  <2>2. \A name \in Names : \A i \in DOMAIN disk[name].backup : \A j \in 1 .. i :
          j \in DOMAIN disk[name].backup
    BY DEF DiskInv, NumbersFit, Rotating
  <2>3. CASE ~ history'.rotated
    BY <1>1, <2>1, <2>2, <2>3 DEF NumbersFit
  <2>4. CASE settings' = settings /\ history'.rotated = history.rotated
    <3>1. Backup' = Backup
      BY <1>0, <1>1, <2>4 DEF Backup
    <3> QED
      BY <1>1, <2>1, <2>2, <2>4, <3>1 DEF DiskInv, NumbersFit
  <2> QED
    BY <2>3, <2>4
<1>6. ASSUME NEW name \in Names, NEW x \in Safe(name) PROVE x \in Safe(name)'
  <2>1. CASE \E p \in 1 .. SafePart(name) : disk[name].log[p] = x
    <3>1. PICK p \in 1 .. SafePart(name) : disk[name].log[p] = x
      BY <2>1
    <3>2. p \in 1 .. SafePart(name)' /\ disk'[name].log[p] = x
      BY <1>1, <1>3, <3>1
    <3> QED
      BY <3>2 DEF Safe
  <2>2. CASE \E i \in DOMAIN disk[name].backup : x \in ToSet(disk[name].backup[i])
    BY <1>1, <2>2 DEF Safe
  <2> QED
    BY <1>6, <2>1, <2>2, SafeIs
<1>7. ImportantFit'
  BY <1>6 DEF DiskInv, ImportantFit
<1> QED
  BY <1>2, <1>4, <1>5, <1>7 DEF DiskInv

(* What the rotation does with the logs and backups. *)
LEMMA DiskCountBackups ==
  ASSUME TypeOK, TypeOK', DiskInv, CountBackups
  PROVE  DiskInv'
<1>1. /\ thread[Main].at = "count" /\ Goto(Main, "remove")
      /\ UNCHANGED <<settings, disk, history>>
  BY DEF CountBackups, Running
<1>2. thread'[Main].at = "remove"
  BY <1>1, GotoIs DEF Threads, Places, MainPlaces, MutexPlaces
<1>3. /\ count' \in Nat /\ count' + 1 \notin DOMAIN Backup /\ 1 .. count' \subseteq DOMAIN Backup
      /\ DOMAIN Backup \subseteq Nat
  BY CountIs, CurrentFiles, BackupsAre, ConstantsAssumption
<1>4. Rotates' /\ UnflushedFits' /\ ImportantFit' /\ Backup' = Backup
  BY <1>1, <1>2, <1>3 DEF DiskInv, Rotates, UnflushedFits, ImportantFit, Safe, SafePart, Backup
<1>5. ASSUME ~ history'.faulty, NEW i \in DOMAIN Backup PROVE i <= count'
  <2> SUFFICES ASSUME ~ (i <= count') PROVE FALSE
    OBVIOUS
  <2>0. i \in Nat
    BY <1>3
  <2>a. count' \in Nat /\ ~ (i <= count')
    BY <1>3
  <2>b. \A c, k \in Nat : ~ (k <= c) => c + 1 \in 1 .. k
    OBVIOUS
  <2>1. count' + 1 \in 1 .. i
    BY <2>0, <2>a, <2>b
  <2>2. \A j \in 1 .. i : j \in DOMAIN Backup
    BY <1>1, <1>5, CurrentFiles DEF DiskInv, NumbersFit, Backup
  <2> QED
    BY <1>3, <2>1, <2>2
<1>6. NumbersFit'
  BY <1>1, <1>2, <1>4, <1>5 DEF DiskInv, NumbersFit
<1> QED
  BY <1>4, <1>6 DEF DiskInv

LEMMA DiskRemoveBackup ==
  ASSUME TypeOK, TypeOK', DiskInv, RemoveBackup
  PROVE  DiskInv'
<1> DEFINE b == disk'[settings.name].backup
<1>1. /\ thread[Main].at = "remove"
      /\ count' = count - 1 /\ count' \in Nat /\ count \in DOMAIN Backup
      /\ \A name \in Names :
              /\ disk'[name].log = disk[name].log
              /\ disk'[name].unflushed = disk[name].unflushed
              /\ name # settings.name => disk'[name].backup = disk[name].backup
      /\ DOMAIN b = DOMAIN Backup \ {count} /\ \A i \in DOMAIN b : b[i] = Backup[i]
      /\ history' = [history EXCEPT !.removed = @ \cup ToSet(Backup[count])]
  BY RemoveIs DEF DiskInv
<1>2. UNCHANGED <<settings, thread>>
  BY DEF RemoveBackup
<1>3. /\ history'.removed = history.removed \cup ToSet(Backup[count])
      /\ history'.important = history.important /\ history'.faulty = history.faulty
      /\ history'.rotated = history.rotated
  BY <1>1 DEF TypeOK, Histories
<1>4. settings.name \in Names /\ Backup' = b /\ count \in Nat /\ DOMAIN Backup \subseteq Nat
  BY <1>2, CurrentFiles, BackupsAre, ConstantsAssumption DEF Backup, TypeOK
<1> HIDE DEF b
<1>5. Rotates'
  BY <1>1, <1>2, <1>4 DEF DiskInv, Rotates
<1>6. UnflushedFits'
  BY <1>1 DEF DiskInv, UnflushedFits
<1>7. NumbersFit'
  <2> SUFFICES ASSUME ~ history'.faulty PROVE NumbersFit'
    BY DEF NumbersFit
  <2>1. \A i \in DOMAIN Backup : i <= count
    BY <1>1, <1>3 DEF DiskInv, NumbersFit
  <2>2. \A i \in DOMAIN b : i <= count' /\ \A j \in 1 .. i : j \in DOMAIN b
    <3>1. 1 .. count \subseteq DOMAIN Backup
      BY <1>1 DEF DiskInv, Rotates
    <3> QED
      BY <1>1, <1>4, <2>1, <3>1
  <2>3. \A name \in Names : \A i \in DOMAIN disk'[name].backup : \A j \in 1 .. i :
          j \in DOMAIN disk'[name].backup
    BY <1>1, <1>2, <1>3, <2>2 DEF DiskInv, NumbersFit, b
  <2> QED
    BY <1>1, <1>2, <1>3, <1>4, <2>2, <2>3 DEF DiskInv, NumbersFit
<1>8. ASSUME NEW name \in Names, NEW x \in Safe(name)
      PROVE  x \in Safe(name)' \/ x \in history'.removed
  <2>1. CASE \E p \in 1 .. SafePart(name) : disk[name].log[p] = x
    BY <1>1, <2>1 DEF Safe, SafePart
  <2>2. CASE \E i \in DOMAIN disk[name].backup : x \in ToSet(disk[name].backup[i])
    <3>1. PICK i \in DOMAIN disk[name].backup : x \in ToSet(disk[name].backup[i])
      BY <2>2
    <3>2. CASE name = settings.name /\ i = count
      BY <1>3, <3>1, <3>2 DEF Backup
    <3>3. CASE ~ (name = settings.name /\ i = count)
      <4>1. i \in DOMAIN disk'[name].backup /\ disk'[name].backup[i] = disk[name].backup[i]
        BY <1>1, <3>1, <3>3 DEF b, Backup
      <4> QED
        BY <3>1, <4>1 DEF Safe
    <3> QED
      BY <3>2, <3>3
  <2> QED
    BY <1>8, <2>1, <2>2, SafeIs
<1>9. ImportantFit'
  BY <1>3, <1>8 DEF DiskInv, ImportantFit
<1> QED
  BY <1>5, <1>6, <1>7, <1>9 DEF DiskInv

LEMMA DiskFails ==
  ASSUME TypeOK, TypeOK', DiskInv, RemoveFails \/ RenameFails
  PROVE  DiskInv'
<1>1. /\ count' = count - 1 /\ count > 0 /\ count \in Nat
      /\ UNCHANGED <<settings, thread, disk>>
      /\ history' = [history EXCEPT !.faulty = TRUE]
  <2>1. CASE RemoveFails
    BY <2>1, CurrentFiles DEF RemoveFails, ExceedsLimit, TypeOK
  <2>2. CASE RenameFails
    BY <2>2 DEF RenameFails, TypeOK
  <2> QED
    BY <2>1, <2>2
<1>2. /\ history'.removed = history.removed /\ history'.important = history.important
      /\ history'.faulty
  BY <1>1 DEF TypeOK, Histories
<1>3. Rotates' /\ UnflushedFits' /\ NumbersFit' /\ ImportantFit'
  BY <1>1, <1>2 DEF DiskInv, Rotates, UnflushedFits, NumbersFit, ImportantFit, Safe, SafePart, Backup
<1> QED
  BY <1>3 DEF DiskInv

LEMMA DiskRemovalEnds ==
  ASSUME TypeOK, TypeOK', DiskInv, RemovalEnds
  PROVE  DiskInv'
<1>1. /\ thread[Main].at = "remove" /\ Goto(Main, "rename") /\ ~ ExceedsLimit
      /\ UNCHANGED <<settings, disk, history, count>>
  BY DEF RemovalEnds, Running
<1>2. thread'[Main].at = "rename"
  BY <1>1, GotoIs DEF Threads, Places, MainPlaces, MutexPlaces
<1>3. /\ count \in Nat /\ settings.maxBackups \in Nat
      /\ DOMAIN Backup \subseteq Nat /\ (settings.maxBackups > 0 => count < settings.maxBackups)
  BY <1>1, CurrentFiles, BackupsAre, ConstantsAssumption DEF ExceedsLimit, TypeOK
<1>4. Rotates' /\ UnflushedFits' /\ ImportantFit' /\ Backup' = Backup
  BY <1>1, <1>2 DEF DiskInv, Rotates, UnflushedFits, ImportantFit, Safe, SafePart, Backup
<1>5. NumbersFit'
  BY <1>1, <1>2, <1>3, <1>4 DEF DiskInv, NumbersFit
<1> QED
  BY <1>4, <1>5 DEF DiskInv

LEMMA DiskRenameBackup ==
  ASSUME TypeOK, TypeOK', DiskInv, RenameBackup
  PROVE  DiskInv'
<1> DEFINE b == disk'[settings.name].backup
<1>1. /\ thread[Main].at = "rename" /\ count' = count - 1 /\ count' \in Nat
      /\ count \in DOMAIN Backup
      /\ \A name \in Names :
              /\ disk'[name].log = disk[name].log
              /\ disk'[name].unflushed = disk[name].unflushed
              /\ name # settings.name => disk'[name].backup = disk[name].backup
      /\ \/ b = Backup /\ (count + 1 \in DOMAIN Backup \/ count + 1 > Files)
         \/ /\ count + 1 \notin DOMAIN Backup
            /\ DOMAIN b = (DOMAIN Backup \ {count}) \cup {count + 1}
            /\ b[count + 1] = Backup[count]
            /\ \A i \in DOMAIN Backup \ {count} : b[i] = Backup[i]
  BY RenameIs DEF DiskInv
<1>2. UNCHANGED <<settings, thread, history>>
  BY DEF RenameBackup
<1>3. /\ settings.name \in Names /\ Backup' = b /\ count \in Nat /\ Files \in Nat
      /\ DOMAIN Backup \subseteq 1 .. Files /\ settings.maxBackups \in Nat
  BY <1>2, CurrentFiles, BackupsAre, ConstantsAssumption DEF Backup, TypeOK
<1>4. 1 .. count \subseteq DOMAIN Backup
  BY <1>1 DEF DiskInv, Rotates
<1> HIDE DEF b
<1>5. Rotates'
  <2>1. 1 .. count' \subseteq DOMAIN b
    BY <1>1, <1>3, <1>4
  <2> QED
    BY <1>1, <1>2, <1>3, <2>1 DEF DiskInv, Rotates
<1>6. UnflushedFits'
  BY <1>1 DEF DiskInv, UnflushedFits
<1>7. NumbersFit'
  <2> SUFFICES ASSUME ~ history'.faulty PROVE NumbersFit'
    BY DEF NumbersFit
  <2>1. \A i \in DOMAIN Backup : \A j \in 1 .. i : j \in DOMAIN Backup \/ j = count + 1
    BY <1>2, <1>3 DEF DiskInv, NumbersFit, Backup
  <2>2. \A i \in DOMAIN b : \A j \in 1 .. i : j \in DOMAIN b \/ j = count' + 1
    BY <1>1, <1>3, <1>4, <2>1
  <2>3. \A name \in Names : \A i \in DOMAIN disk'[name].backup : \A j \in 1 .. i :
          \/ j \in DOMAIN disk'[name].backup
          \/ name = settings'.name /\ thread'[Main].at = "rename" /\ j = count' + 1
    <3> SUFFICES ASSUME NEW name \in Names, NEW i \in DOMAIN disk'[name].backup, NEW j \in 1 .. i,
                        name # settings.name
                 PROVE  j \in DOMAIN disk'[name].backup
      BY <1>1, <1>2, <2>2 DEF b
    <3> QED
      BY <1>1, <1>2 DEF DiskInv, NumbersFit
  <2>4. settings.maxBackups > 0 => /\ \A i \in DOMAIN b : i <= settings.maxBackups
                                  /\ count' < settings.maxBackups
    <3> SUFFICES ASSUME settings.maxBackups > 0
                 PROVE  (\A i \in DOMAIN b : i <= settings.maxBackups) /\ count' < settings.maxBackups
      OBVIOUS
    <3>1. (\A i \in DOMAIN Backup : i <= settings.maxBackups) /\ count < settings.maxBackups
      BY <1>1, <1>2 DEF DiskInv, NumbersFit
    <3> QED
      BY <1>1, <1>3, <3>1
  <2> QED
    BY <1>1, <1>2, <1>3, <2>3, <2>4 DEF NumbersFit
<1>8. ASSUME NEW name \in Names, NEW x \in Safe(name) PROVE x \in Safe(name)'
  <2>1. CASE \E p \in 1 .. SafePart(name) : disk[name].log[p] = x
    BY <1>1, <2>1 DEF Safe, SafePart
  <2>2. CASE \E i \in DOMAIN disk[name].backup : x \in ToSet(disk[name].backup[i])
    <3>1. PICK i \in DOMAIN disk[name].backup : x \in ToSet(disk[name].backup[i])
      BY <2>2
    <3>2. \E j \in DOMAIN disk'[name].backup : disk'[name].backup[j] = disk[name].backup[i]
      BY <1>1, <3>1 DEF b, Backup
    <3> QED
      BY <3>1, <3>2 DEF Safe
  <2> QED
    BY <1>8, <2>1, <2>2, SafeIs
<1>9. ImportantFit'
  BY <1>2, <1>8 DEF DiskInv, ImportantFit
<1> QED
  BY <1>5, <1>6, <1>7, <1>9 DEF DiskInv

LEMMA DiskRenameLog ==
  ASSUME TypeOK, TypeOK', DiskInv, RenameLog
  PROVE  DiskInv'
<1> DEFINE d == disk'[settings.name]
<1>1. /\ thread[Main].at = "rename" /\ count = 0
      /\ \A name \in Names :
              /\ disk'[name].unflushed = disk[name].unflushed
              /\ name # settings.name => /\ disk'[name].backup = disk[name].backup
                                         /\ disk'[name].log = disk[name].log
      /\ \/ d = disk[settings.name] /\ (1 \in DOMAIN Backup \/ 1 > Files)
         \/ /\ 1 \notin DOMAIN Backup /\ DOMAIN d.backup = DOMAIN Backup \cup {1}
            /\ d.backup[1] = disk[settings.name].log /\ d.log = << >>
            /\ \A i \in DOMAIN Backup : d.backup[i] = Backup[i]
  BY RenameLogIs DEF DiskInv
<1>2. /\ settings' = settings /\ count' = count /\ Goto(Main, "open")
      /\ history' = [history EXCEPT !.rotated = TRUE]
  BY DEF RenameLog
<1>3. /\ history'.removed = history.removed /\ history'.important = history.important
      /\ history'.faulty = history.faulty
  BY <1>2 DEF TypeOK, Histories
<1>4. thread'[Main].at = "open"
  BY <1>2, GotoIs DEF Threads, Places, MainPlaces, MutexPlaces
<1>5. /\ settings.name \in Names /\ Files \in Nat
      /\ DOMAIN Backup \subseteq 1 .. Files /\ settings.maxBackups \in Nat
      /\ disk[settings.name].log \in Seq(Lines)
      /\ disk[settings.name].unflushed = 0 /\ Len(disk[settings.name].log) \in Nat
  BY <1>1, CurrentFiles, BackupsAre, ConstantsAssumption DEF Backup, DiskInv, Rotates
<1> HIDE DEF d
<1>6. Rotates'
  BY <1>4 DEF Rotates
<1>7. UnflushedFits'
  <2>1. ASSUME NEW name \in Names, name # settings.name
        PROVE  disk'[name].unflushed <= Len(disk'[name].log)
    BY <1>1, <2>1 DEF DiskInv, UnflushedFits
  <2>2. disk'[settings.name].unflushed <= Len(disk'[settings.name].log)
    <3>1. Len(<< >>) = 0 /\ disk'[settings.name].unflushed = 0
      BY <1>1, <1>5
    <3> QED
      BY <1>1, <1>5, <3>1 DEF d
  <2> QED
    BY <2>1, <2>2 DEF UnflushedFits
<1>8. NumbersFit'
  <2> SUFFICES ASSUME ~ history'.faulty PROVE NumbersFit'
    BY DEF NumbersFit
  <2>1. \A i \in DOMAIN Backup : \A j \in 1 .. i : j \in DOMAIN Backup \/ j = 1
    BY <1>1, <1>3, <1>5 DEF DiskInv, NumbersFit, Backup
  <2>2. d.backup = Backup \/ DOMAIN d.backup = DOMAIN Backup \cup {1}
    BY <1>1 DEF Backup
  <2>3. \A i \in DOMAIN d.backup : \A j \in 1 .. i : j \in DOMAIN d.backup
    <3>1. CASE d.backup = Backup /\ (1 \in DOMAIN Backup \/ 1 > Files)
      BY <1>5, <2>1, <3>1
    <3>2. CASE DOMAIN d.backup = DOMAIN Backup \cup {1}
      BY <1>5, <2>1, <3>2
    <3> QED
      BY <1>1, <3>1, <3>2 DEF Backup
  <2>4. \A name \in Names : \A i \in DOMAIN disk'[name].backup : \A j \in 1 .. i :
          j \in DOMAIN disk'[name].backup
    BY <1>1, <1>3, <2>3 DEF DiskInv, NumbersFit, d
  <2>5. settings.maxBackups > 0 => \A i \in DOMAIN d.backup : i <= settings.maxBackups
    <3> SUFFICES ASSUME settings.maxBackups > 0
                 PROVE  \A i \in DOMAIN d.backup : i <= settings.maxBackups
      OBVIOUS
    <3>1. \A i \in DOMAIN Backup : i <= settings.maxBackups
      BY <1>1, <1>3 DEF DiskInv, NumbersFit
    <3> QED
      BY <1>5, <2>2, <3>1
  <2>6. Backup' = d.backup
    BY <1>2 DEF Backup, d
  <2> QED
    BY <1>2, <1>4, <2>4, <2>5, <2>6 DEF NumbersFit
<1>9. ASSUME NEW name \in Names, NEW x \in Safe(name) PROVE x \in Safe(name)'
  <2>1. CASE name # settings.name \/ d = disk[settings.name]
    BY <1>1, <1>9, <2>1 DEF Safe, SafePart, d
  <2>2. CASE /\ name = settings.name /\ DOMAIN d.backup = DOMAIN Backup \cup {1}
             /\ d.backup[1] = disk[settings.name].log /\ 1 \notin DOMAIN Backup
             /\ \A i \in DOMAIN Backup : d.backup[i] = Backup[i]
    <3>1. CASE \E p \in 1 .. SafePart(name) : disk[name].log[p] = x
      <4>1. SafePart(name) = Len(disk[name].log)
        BY <1>5, <2>2 DEF SafePart
      <4>2. x \in ToSet(d.backup[1])
        BY <1>5, <2>2, <3>1, <4>1, ToSetIs
      <4> QED
        BY <2>2, <4>2 DEF Safe, d
    <3>2. CASE \E i \in DOMAIN disk[name].backup : x \in ToSet(disk[name].backup[i])
      BY <2>2, <3>2 DEF Safe, d, Backup
    <3> QED
      BY <1>9, <3>1, <3>2, SafeIs
  <2> QED
    BY <1>1, <2>1, <2>2
<1>10. ImportantFit'
  BY <1>3, <1>9 DEF DiskInv, ImportantFit
<1> QED
  BY <1>6, <1>7, <1>8, <1>10 DEF DiskInv

LEMMA DiskQuiet ==
  ASSUME TypeOK, TypeOK', LocksFit, DiskInv,
         \/ InstallMsgHandler \/ (\E t \in Threads : MsgHandler(t))
         \/ TimerEvent \/ OpenFile \/ OpenFails
  PROVE  DiskInv'
<1>1. CASE InstallMsgHandler
  BY <1>1, DiskUnchanged DEF InstallMsgHandler
<1>2. ASSUME NEW t \in Threads, MsgHandler(t) PROVE DiskInv'
  <2>1. /\ thread[t].at = "handler" /\ Goto(t, "log")
        /\ UNCHANGED <<settings, disk, count, history>>
    BY <1>2 DEF MsgHandler, Running
  <2>2. /\ thread'[t].at = "log" /\ \A u \in Threads \ {t} : thread'[u].at = thread[u].at
    BY <2>1, GotoIs DEF Places, WriterPlaces
  <2>3. \/ thread'[Main].at = thread[Main].at
        \/ thread[Main].at # "rename" /\ thread'[Main].at \notin Rotating
    BY <2>1, <2>2 DEF Threads, Rotating
  <2> QED
    BY <2>1, <2>3, DiskUnchanged
<1>3. CASE TimerEvent
  <2>1. /\ thread[Main].at = "idle" /\ (Goto(Main, "refresh") \/ Goto(Main, "flush"))
        /\ UNCHANGED <<settings, disk, count, history>>
    BY <1>3 DEF TimerEvent, Running
  <2>2. thread'[Main].at \in {"refresh", "flush"}
    BY <2>1, GotoIs DEF Threads, Places, MainPlaces
  <2> QED
    BY <2>1, <2>2, DiskUnchanged DEF Rotating
<1>4. CASE OpenFile
  <2>1. /\ thread[Main].at = "open" /\ Return(Main) /\ UNCHANGED <<settings, disk, count, history>>
    BY <1>4 DEF OpenFile, Running
  <2>2. thread'[Main].at = "idle"
    BY <2>1, ReturnIs DEF Threads
  <2> QED
    BY <2>1, <2>2, DiskUnchanged DEF Rotating
<1>5. CASE OpenFails
  <2>1. /\ thread[Main].at = "open" /\ UNCHANGED <<settings, disk, count>>
        /\ history' = [history EXCEPT !.faulty = TRUE]
    BY <1>5 DEF OpenFails, Running
  <2>2. thread'[Main].at \in {"idle", "handler"}
    <3>1. CASE Return(Main)
      BY <3>1, ReturnIs DEF Threads
    <3>2. CASE thread' = [thread EXCEPT ![Main].at = "handler",
                       ![Main].message = [n |-> 0, from |-> Main, level |-> 1]]
      BY <3>2 DEF TypeOK, ThreadStates, Threads
    <3> QED
      BY <1>5, <3>1, <3>2 DEF OpenFails
  <2>3. /\ history'.removed = history.removed /\ history'.important = history.important
        /\ history'.faulty /\ history'.rotated = history.rotated
    BY <2>1 DEF TypeOK, Histories
  <2> QED
    BY <2>1, <2>2, <2>3, DiskUnchanged DEF Rotating
<1> QED
  BY <1>1, <1>2, <1>3, <1>4, <1>5

LEMMA DiskWriters ==
  ASSUME TypeOK, TypeOK', LocksFit, DiskInv, NEW t \in Writers,
         \/ \E level \in Levels : CallQt(t, level) \/ CallLog(t, level)
         \/ Log(t) \/ WriteFails(t) \/ LogReturns(t) \/ Abort(t)
         \/ \E value \in Values : Set(t, value)
         \/ \E buffer, variables \in BOOLEAN : Clear(t, buffer, variables)
  PROVE  DiskInv'
<1>0. t # Main /\ t \in Threads /\ Main \in Threads
  BY ConstantsAssumption DEF Threads
<1>1. ASSUME NEW level \in Levels, CallQt(t, level) \/ CallLog(t, level) PROVE DiskInv'
  <2>1. /\ UNCHANGED <<settings, disk, count, history>>
        /\ Call(t, level, "handler") \/ Call(t, level, "log")
    BY <1>1 DEF CallQt, CallLog, Call
  <2>2. thread'[Main] = thread[Main]
    BY <2>1, <1>0, CalledIs
  <2> QED
    BY <2>1, <2>2, DiskUnchanged
<1>2. CASE Log(t)
  <2>1. UNCHANGED <<settings, disk, count, history>>
    BY <1>2 DEF Log
  <2>2. thread'[Main] = thread[Main]
    BY <1>0, <1>2 DEF Log, TypeOK
  <2> QED
    BY <2>1, <2>2, DiskUnchanged
<1>3. CASE WriteFails(t)
  <2>1. /\ disk' = Lost /\ UNCHANGED <<settings, count, thread>>
        /\ history' = [history EXCEPT !.faulty = TRUE]
    BY <1>3 DEF WriteFails
  <2>2. /\ history'.removed = history.removed /\ history'.important = history.important
        /\ history'.faulty /\ history'.rotated = history.rotated
    BY <2>1 DEF TypeOK, Histories
  <2> QED
    BY <2>1, <2>2, DiskLost
<1>4. CASE LogReturns(t)
  <2>1. /\ UNCHANGED <<settings, disk, count, history>>
        /\ Goto(t, "abort") \/ Return(t)
    BY <1>4 DEF LogReturns
  <2>2. thread'[Main].at = thread[Main].at
    <3>1. CASE Goto(t, "abort")
      BY <1>0, <3>1, GotoIs DEF Places, WriterPlaces
    <3>2. CASE Return(t)
      BY <1>0, <3>2, ReturnIs
    <3> QED
      BY <2>1, <3>1, <3>2
  <2> QED
    BY <2>1, <2>2, DiskUnchanged
<1>5. CASE Abort(t)
  BY <1>5, DiskLost DEF Abort
<1>6. ASSUME NEW value \in Values, Set(t, value) PROVE DiskInv'
  BY <1>6, DiskUnchanged DEF Set
<1>7. ASSUME NEW buffer \in BOOLEAN, NEW variables \in BOOLEAN, Clear(t, buffer, variables) PROVE DiskInv'
  BY <1>7, DiskUnchanged DEF Clear
<1> QED
  BY <1>1, <1>2, <1>3, <1>4, <1>5, <1>6, <1>7

LEMMA DiskTimers ==
  ASSUME TypeOK, TypeOK', LocksFit, DiskInv, RefreshSettings \/ Flush
  PROVE  DiskInv'
<1>0. settings.name \in Names /\ Main \in Threads
  BY CurrentFiles DEF Threads
<1>1. CASE RefreshSettings
  <2>1. /\ disk' \in {disk, Flushed(settings.name)} /\ count' = count
    BY <1>1 DEF RefreshSettings
  <2>2. /\ thread[Main].at = "refresh" /\ thread'[Main].at \in {"open", "idle"}
        /\ history'.important = history.important /\ history'.removed = history.removed
        /\ history'.faulty = history.faulty /\ ~ history'.rotated
    BY <1>1, BaseRefreshSettings DEF DiskInv
  <2> QED
    BY <2>1, <2>2, DiskFlushed DEF Rotating
<1>2. CASE Flush
  <2>1. /\ thread[Main].at = "flush" /\ disk' = Flushed(settings.name)
        /\ UNCHANGED <<settings, count, history>>
        /\ Goto(Main, "count") \/ Return(Main)
    BY <1>2 DEF Flush, Running
  <2>2. thread'[Main].at \in {"count", "idle"}
    <3>1. CASE Goto(Main, "count")
      BY <1>0, <3>1, GotoIs DEF Places, MainPlaces, MutexPlaces
    <3>2. CASE Return(Main)
      BY <1>0, <3>2, ReturnIs
    <3> QED
      BY <2>1, <3>1, <3>2
  <2> QED
    BY <2>1, <2>2, DiskFlushed DEF Rotating
<1> QED
  BY <1>1, <1>2

LEMMA DiskRestart ==
  ASSUME TypeOK, TypeOK', DiskInv, Restart
  PROVE  DiskInv'
<1>1. /\ disk' = disk /\ history'.faulty /\ Main \in Threads
      /\ \A t \in Threads : thread'[t].at = "idle" 
      /\ history'.important = history.important /\ history'.removed = history.removed
  BY BaseRestart DEF Threads
<1>2. Rotates' /\ UnflushedFits' /\ NumbersFit'
  BY <1>1 DEF DiskInv, Rotates, UnflushedFits, NumbersFit
<1>3. ImportantFit'
  BY <1>1 DEF DiskInv, ImportantFit, Safe, SafePart
<1> QED
  BY <1>2, <1>3 DEF DiskInv

(* Every step keeps types, locks and what is on the disk. *)
LEMMA FilesNext ==
  ASSUME TypeOK, LocksFit, DiskInv, [Next]_vars,
         \A t \in Writers : thread[t].at = "log" => thread[t].message \in Messages
  PROVE  TypeOK' /\ LocksFit' /\ DiskInv'
<1>1. Rotates /\ UnflushedFits
  BY DEF DiskInv
<1>2. CASE InstallMsgHandler
  BY <1>1, <1>2, BaseInstallMsgHandler, DiskQuiet
<1>3. ASSUME NEW t \in Threads, MsgHandler(t) PROVE TypeOK' /\ LocksFit' /\ DiskInv'
  BY <1>1, <1>3, BaseMsgHandler, DiskQuiet
<1>4. ASSUME NEW t \in Writers, NEW level \in Levels, CallQt(t, level) \/ CallLog(t, level)
      PROVE  TypeOK' /\ LocksFit' /\ DiskInv'
  BY <1>1, <1>4, BaseCall, DiskWriters
<1>5. ASSUME NEW t \in Writers, Log(t) PROVE TypeOK' /\ LocksFit' /\ DiskInv'
  <2>1. thread[t].message \in Messages
    BY <1>5 DEF Log, Running
  <2> QED
    BY <1>1, <1>5, <2>1, BaseLog, DiskWriters
<1>6. ASSUME NEW t \in Writers, WriteMessage(t) PROVE TypeOK' /\ LocksFit' /\ DiskInv'
  BY <1>1, <1>6, BaseWriteMessage, DiskWriteMessage
<1>7. ASSUME NEW t \in Writers, WriteFails(t) PROVE TypeOK' /\ LocksFit' /\ DiskInv'
  BY <1>1, <1>7, BaseWriteFails, DiskWriters
<1>8. ASSUME NEW t \in Writers, LogReturns(t) PROVE TypeOK' /\ LocksFit' /\ DiskInv'
  BY <1>1, <1>8, BaseLogReturns, DiskWriters
<1>9. ASSUME NEW t \in Writers, Abort(t) PROVE TypeOK' /\ LocksFit' /\ DiskInv'
  BY <1>1, <1>9, BaseAbort, DiskWriters
<1>10. ASSUME NEW t \in Writers, NEW value \in Values, Set(t, value)
       PROVE  TypeOK' /\ LocksFit' /\ DiskInv'
  BY <1>1, <1>10, BaseSet, DiskWriters
<1>11. ASSUME NEW t \in Writers, NEW buffer \in BOOLEAN, NEW variables \in BOOLEAN,
              Clear(t, buffer, variables)
       PROVE  TypeOK' /\ LocksFit' /\ DiskInv'
  BY <1>1, <1>11, BaseClear, DiskWriters
<1>12. CASE TimerEvent
  BY <1>1, <1>12, BaseTimerEvent, DiskQuiet
<1>13. CASE RefreshSettings
  BY <1>1, <1>13, BaseRefreshSettings, DiskTimers
<1>14. CASE Flush
  BY <1>1, <1>14, BaseFlush, DiskTimers
<1>15. CASE OpenFile
  BY <1>1, <1>15, BaseOpenFile, DiskQuiet
<1>16. CASE OpenFails
  BY <1>1, <1>16, BaseOpenFails, DiskQuiet
<1>17. CASE CountBackups
  BY <1>1, <1>17, BaseCountBackups, DiskCountBackups
<1>18. CASE RemoveBackup
  BY <1>1, <1>18, BaseRemoveBackup, DiskRemoveBackup
<1>19. CASE RemoveFails
  BY <1>1, <1>19, BaseRemoveFails, DiskFails
<1>20. CASE RemovalEnds
  BY <1>1, <1>20, BaseRemovalEnds, DiskRemovalEnds
<1>21. CASE RenameBackup
  BY <1>1, <1>21, BaseRenameBackup, DiskRenameBackup
<1>22. CASE RenameFails
  BY <1>1, <1>22, BaseRenameFails, DiskFails
<1>23. CASE RenameLog
  BY <1>1, <1>23, BaseRenameLog, DiskRenameLog
<1>24. CASE Restart
  BY <1>1, <1>24, BaseRestart, DiskRestart
<1>25. CASE UNCHANGED vars
  <2>1. TypeOK' /\ LocksFit'
    BY <1>25 DEF vars, TypeOK, LocksFit
  <2> QED
    BY <1>25, <2>1, DiskUnchanged DEF vars
<1> QED
  BY <1>2, <1>3, <1>4, <1>5, <1>6, <1>7, <1>8, <1>9, <1>10, <1>11, <1>12, <1>13, <1>14, <1>15,
     <1>16, <1>17, <1>18, <1>19, <1>20, <1>21, <1>22, <1>23, <1>24, <1>25 DEF Next

-----------------------------------------------------------------------------
(* What the steps do with the lines in the files and the messages that are *)
(* not yet there.                                                          *)

LEMMA StoredIs ==
  ASSUME NEW name, NEW x
  PROVE  x \in Stored(name) <=> \/ x \in ToSet(disk[name].log)
                               \/ \E i \in DOMAIN disk[name].backup : x \in ToSet(disk[name].backup[i])
BY DEF Stored

(* No line comes to the files. *)
StoredShrinks == \A name \in Names : Stored(name)' \subseteq Stored(name)

(* No message comes to those of thread t. *)
Covered(t) == \A x \in Unwritten(t)' : \E y \in Unwritten(t) : x.n = y.n /\ x.from = y.from

(* Thread t logs nothing, and its buffer and its queue are kept or emptied. *)
Shrinks(t) ==
  /\ buffers'[t] \in {buffers[t], << >>}
  /\ thread'[t].queue \in {thread[t].queue, << >>}
  /\ thread'[t].queue # << >> => thread'[t].at = "writing"
  /\ thread'[t].at \in {"handler", "log"} =>
       /\ thread[t].at \in {"handler", "log"}
       /\ thread'[t].message = thread[t].message /\ logVars'[t] = logVars[t]

LEMMA EmptyIs ==
  ToSet(<< >>) = {} /\ DOMAIN << >> = {} /\ Len(<< >>) = 0
BY DEF ToSet

LEMMA UnwrittenIs ==
  ASSUME NEW t, NEW x
  PROVE  x \in Unwritten(t) <=> \/ thread[t].at \in {"handler", "log"} /\ x = thread[t].message
                               \/ x \in ToSet(buffers[t])
                               \/ x \in ToSet(thread[t].queue)
BY DEF Unwritten, Active

LEMMA ShrinksCovers ==
  ASSUME NEW t \in Writers, Shrinks(t)
  PROVE  Covered(t)
<1>1. Unwritten(t)' \subseteq Unwritten(t)
  BY EmptyIs DEF Shrinks, Unwritten, Active
<1> QED
  BY <1>1 DEF Covered

LEMMA OwnKept ==
  ASSUME TypeOK, NEW t \in Writers, OwnMessages(t), Shrinks(t), Len(buffers'[t]) <= history'.largest
  PROVE  OwnMessages(t)'
<1>1. thread'[t].at \in {"handler", "log"} =>
        /\ thread'[t].message \in Messages
        /\ thread'[t].message.from = t /\ thread'[t].message.had = logVars'[t]
        /\ \A i \in DOMAIN buffers'[t] : buffers'[t][i].n < thread'[t].message.n
  BY EmptyIs DEF Shrinks, OwnMessages
<1>2. \A m \in ToSet(buffers'[t]) \cup ToSet(thread'[t].queue) : m.from = t /\ m.logVars = m.had
  BY EmptyIs DEF Shrinks, OwnMessages
<1>3. Rising(buffers'[t]) /\ Rising(thread'[t].queue)
  BY EmptyIs DEF Shrinks, OwnMessages, Rising
<1>4. \A i \in DOMAIN buffers'[t], j \in DOMAIN thread'[t].queue :
        buffers'[t][i].n # thread'[t].queue[j].n
  BY EmptyIs DEF Shrinks, OwnMessages
<1>5. thread'[t].queue # << >> => thread'[t].at = "writing"
  BY DEF Shrinks
<1> QED
  BY <1>1, <1>2, <1>3, <1>4, <1>5 DEF OwnMessages, Rising

LEMMA UnwrittenMessages ==
  ASSUME TypeOK, NEW t \in Writers, OwnMessages(t)
  PROVE  /\ Unwritten(t) \subseteq Messages /\ Numbers(t) \subseteq Nat
         /\ \A x \in Unwritten(t) : x.from = t /\ x.n \in Nat /\ x.n \in Numbers(t)
<1>1. buffers[t] \in Seq(Messages) /\ thread[t].queue \in Seq(Messages)
  BY DEF TypeOK, ThreadStates, Threads
<1>2. ToSet(buffers[t]) \subseteq Messages /\ ToSet(thread[t].queue) \subseteq Messages
  BY <1>1, ToSetIs
<1>3. Unwritten(t) \subseteq Messages /\ \A x \in Unwritten(t) : x.from = t
  BY <1>2 DEF OwnMessages, Unwritten, Active
<1>4. \A x \in Messages : x.n \in Nat
  BY DEF Messages
<1> QED
  BY <1>3, <1>4 DEF Numbers

LEMMA StoredLines ==
  ASSUME TypeOK, NEW name \in Names
  PROVE  Stored(name) \subseteq Lines /\ \A line \in Stored(name) : line.n \in Nat
<1>1. disk[name].log \in Seq(Lines) /\ disk[name].backup \in Backups
  BY DEF TypeOK, DiskStates
<1>2. ToSet(disk[name].log) \subseteq Lines
  BY <1>1, ToSetIs
<1>3. \A i \in DOMAIN disk[name].backup : ToSet(disk[name].backup[i]) \subseteq Lines
  BY <1>1, BackupsAre, ToSetIs
<1>4. \A x \in Lines : x.n \in Nat
  BY DEF Lines
<1> QED
  BY <1>2, <1>3, <1>4 DEF Stored

LEMMA ApartKept ==
  ASSUME TypeOK, TypeOK', BuffersFit, budget.calls <= budget'.calls, StoredShrinks,
         \A t \in Writers : Covered(t), settings'.bufferSize <= history'.largest
  PROVE  NumbersApart'
<1>1. budget.calls \in Nat /\ budget'.calls \in Nat
  BY DEF TypeOK, Budgets
<1>2. \A t \in Writers : Numbers(t)' \subseteq Numbers(t)
  BY DEF Covered, Numbers
<1>3. \A t \in Writers : Numbers(t) \subseteq Nat
  BY UnwrittenMessages DEF BuffersFit
<1>4. ASSUME NEW t \in Writers, NEW n \in Numbers(t)'
      PROVE  /\ n <= budget'.calls
             /\ \A u \in Writers : n \in Numbers(u)' => u = t
             /\ \A name \in Names : \A line \in Stored(name)' : line.n # n
  <2>1. n \in Numbers(t) /\ n \in Nat
    BY <1>2, <1>3
  <2>2. n <= budget.calls
    BY <2>1 DEF BuffersFit, NumbersApart
  <2>3. \A u \in Writers : n \in Numbers(u)' => u = t
    BY <1>2, <2>1 DEF BuffersFit, NumbersApart
  <2>4. \A name \in Names : \A line \in Stored(name)' : line.n # n
    BY <2>1 DEF BuffersFit, NumbersApart, StoredShrinks
  <2>5. n <= budget'.calls
    BY <1>1, <2>1, <2>2
  <2> QED
    BY <2>3, <2>4, <2>5
<1>5. ASSUME NEW name \in Names, NEW line \in Stored(name)'
      PROVE  line.n <= budget'.calls /\ line.thread = line.from /\ line.shows = line.had
  <2>1. line \in Stored(name)
    BY DEF StoredShrinks
  <2>2. line.n \in Nat
    BY <2>1, StoredLines
  <2>3. line.n <= budget.calls /\ line.thread = line.from /\ line.shows = line.had
    BY <2>1 DEF BuffersFit, NumbersApart
  <2> QED
    BY <1>1, <2>2, <2>3
<1> QED
  BY <1>4, <1>5 DEF NumbersApart

(* Files in order stay in order when no line comes to them. *)
FilesKept == StoredShrinks /\ \A name \in Names : FilesOrdered(name) => FilesOrdered(name)'

LEMMA FilesShorten ==
  ASSUME TypeOK, TypeOK',
         \A name \in Names :
           /\ disk'[name].backup = disk[name].backup
           /\ Len(disk'[name].log) <= Len(disk[name].log)
           /\ \A p \in 1 .. Len(disk'[name].log) : disk'[name].log[p] = disk[name].log[p]
  PROVE  FilesKept
<1> SUFFICES ASSUME NEW name \in Names
             PROVE  /\ Stored(name)' \subseteq Stored(name)
                    /\ FilesOrdered(name) => FilesOrdered(name)'
  BY DEF FilesKept, StoredShrinks
<1>1. /\ disk[name].log \in Seq(Lines) /\ disk'[name].log \in Seq(Lines)
      /\ disk'[name].backup = disk[name].backup
  BY DEF TypeOK, DiskStates
<1>2. 1 .. Len(disk'[name].log) \subseteq 1 .. Len(disk[name].log)
  <2>1. Len(disk'[name].log) \in Nat /\ Len(disk[name].log) \in Nat
    BY <1>1
  <2> QED
    BY <2>1
<1>3. ToSet(disk'[name].log) \subseteq ToSet(disk[name].log)
  BY <1>1, <1>2, ToSetIs
<1>4. Ordered(disk[name].log) => Ordered(disk'[name].log)
  <2>1. DOMAIN disk'[name].log = 1 .. Len(disk'[name].log) /\ DOMAIN disk[name].log = 1 .. Len(disk[name].log)
    BY <1>1
  <2> QED
    BY <1>2, <2>1 DEF Ordered
<1>5. Stored(name)' \subseteq Stored(name)
  BY <1>1, <1>3 DEF Stored
<1>6. FilesOrdered(name) => FilesOrdered(name)'
  BY <1>1, <1>3, <1>4 DEF FilesOrdered, Before, Ordered
<1> QED
  BY <1>5, <1>6

LEMMA FilesSame ==
  ASSUME TypeOK, TypeOK', disk' = disk \/ \E name \in Names : disk' = Flushed(name)
  PROVE  FilesKept
<1>1. \A name \in Names : disk'[name].backup = disk[name].backup /\ disk'[name].log = disk[name].log
  BY FlushedIs
<1>2. \A name \in Names : Len(disk[name].log) \in Nat
  BY DEF TypeOK, DiskStates
<1> QED
  BY <1>1, <1>2, FilesShorten

LEMMA FilesLost ==
  ASSUME TypeOK, TypeOK', UnflushedFits, disk' = Lost
  PROVE  FilesKept
<1>1. \A name \in Names :
        /\ disk'[name].backup = disk[name].backup
        /\ Len(disk'[name].log) = SafePart(name)
        /\ \A p \in 1 .. SafePart(name) : disk'[name].log[p] = disk[name].log[p]
  BY LostIs
<1>2. ASSUME NEW name \in Names PROVE SafePart(name) <= Len(disk[name].log)
  <2>1. disk[name].unflushed \in Nat /\ Len(disk[name].log) \in Nat
    BY DEF TypeOK, DiskStates
  <2> QED
    BY <2>1 DEF SafePart
<1> QED
  BY <1>1, <1>2, FilesShorten

LEMMA FilesRemove ==
  ASSUME TypeOK, TypeOK', Rotates, RemoveBackup
  PROVE  FilesKept
<1> DEFINE b == disk'[settings.name].backup
<1>1. /\ \A name \in Names :
              /\ disk'[name].log = disk[name].log
              /\ name # settings.name => disk'[name].backup = disk[name].backup
      /\ DOMAIN b = DOMAIN Backup \ {count} /\ \A i \in DOMAIN b : b[i] = Backup[i]
  BY RemoveIs
<1> SUFFICES ASSUME NEW name \in Names
             PROVE  /\ Stored(name)' \subseteq Stored(name)
                    /\ FilesOrdered(name) => FilesOrdered(name)'
  BY DEF FilesKept, StoredShrinks
<1>2. /\ DOMAIN disk'[name].backup \subseteq DOMAIN disk[name].backup
      /\ \A i \in DOMAIN disk'[name].backup : disk'[name].backup[i] = disk[name].backup[i]
  BY <1>1 DEF Backup
<1> HIDE DEF b
<1>3. disk'[name].log = disk[name].log
  BY <1>1
<1>4. Stored(name)' \subseteq Stored(name)
  BY <1>2, <1>3 DEF Stored
<1>5. FilesOrdered(name) => FilesOrdered(name)'
  BY <1>2, <1>3 DEF FilesOrdered, Ordered, Before
<1> QED
  BY <1>4, <1>5

LEMMA FilesRename ==
  ASSUME TypeOK, TypeOK', Rotates, RenameBackup
  PROVE  FilesKept
<1> DEFINE b == disk'[settings.name].backup
<1>1. /\ thread[Main].at = "rename"
      /\ \A name \in Names :
              /\ disk'[name].log = disk[name].log
              /\ name # settings.name => disk'[name].backup = disk[name].backup
      /\ count \in DOMAIN Backup
      /\ \/ b = Backup /\ (count + 1 \in DOMAIN Backup \/ count + 1 > Files)
         \/ /\ count + 1 \notin DOMAIN Backup
            /\ DOMAIN b = (DOMAIN Backup \ {count}) \cup {count + 1}
            /\ b[count + 1] = Backup[count]
            /\ \A i \in DOMAIN Backup \ {count} : b[i] = Backup[i]
  BY RenameIs
<1> SUFFICES ASSUME NEW name \in Names
             PROVE  /\ Stored(name)' \subseteq Stored(name)
                    /\ FilesOrdered(name) => FilesOrdered(name)'
  BY DEF FilesKept, StoredShrinks
<1>2. disk'[name].log = disk[name].log
  BY <1>1
<1>3. CASE disk'[name].backup = disk[name].backup
  BY <1>2, <1>3 DEF Stored, FilesOrdered, Ordered, Before
<1>4. CASE /\ name = settings.name /\ count + 1 \notin DOMAIN Backup
           /\ DOMAIN b = (DOMAIN Backup \ {count}) \cup {count + 1}
           /\ b[count + 1] = Backup[count]
           /\ \A i \in DOMAIN Backup \ {count} : b[i] = Backup[i]
  <2>1. /\ count \in Nat /\ DOMAIN Backup \subseteq Nat
    BY CurrentFiles, BackupsAre, ConstantsAssumption DEF TypeOK
  <2> DEFINE old(i) == IF i = count + 1 THEN count ELSE i
  <2>2. /\ \A i \in DOMAIN b : old(i) \in DOMAIN Backup /\ b[i] = Backup[old(i)]
        /\ \A i, j \in DOMAIN b : j < i => old(j) < old(i)
    <3>1. \A i \in DOMAIN b : old(i) \in DOMAIN Backup /\ b[i] = Backup[old(i)]
      BY <1>1, <1>4
    <3>2. ASSUME NEW i \in DOMAIN b, NEW j \in DOMAIN b, j < i PROVE old(j) < old(i)
      <4>1. i \in Nat /\ j \in Nat
        BY <1>4, <2>1
      <4>2. i # count /\ j # count
        BY <1>4, <2>1
      <4> QED
        BY <2>1, <4>1, <4>2, <3>2
    <3> QED
      BY <3>1, <3>2
  <2> HIDE DEF old
  <2>3. disk'[name].backup = b /\ disk[name].backup = Backup
    BY <1>4 DEF Backup
  <2> HIDE DEF b
  <2>4. Stored(name)' \subseteq Stored(name)
    BY <1>2, <2>2, <2>3 DEF Stored
  <2>5. ASSUME FilesOrdered(name) PROVE FilesOrdered(name)'
    BY <1>2, <2>2, <2>3, <2>5 DEF FilesOrdered, Ordered, Before
  <2> QED
    BY <2>4, <2>5
<1> QED
  BY <1>1, <1>3, <1>4 DEF Backup

LEMMA FilesRenameLog ==
  ASSUME TypeOK, TypeOK', Rotates, RenameLog
  PROVE  FilesKept
<1> DEFINE d == disk'[settings.name]
<1>1. /\ \A name \in Names :
              name # settings.name => /\ disk'[name].backup = disk[name].backup
                                      /\ disk'[name].log = disk[name].log
      /\ \/ d = disk[settings.name]
         \/ /\ 1 \notin DOMAIN Backup /\ DOMAIN d.backup = DOMAIN Backup \cup {1}
            /\ d.backup[1] = disk[settings.name].log /\ d.log = << >>
            /\ \A i \in DOMAIN Backup : d.backup[i] = Backup[i]
  BY RenameLogIs
<1> SUFFICES ASSUME NEW name \in Names
             PROVE  /\ Stored(name)' \subseteq Stored(name)
                    /\ FilesOrdered(name) => FilesOrdered(name)'
  BY DEF FilesKept, StoredShrinks
<1>2. CASE disk'[name].backup = disk[name].backup /\ disk'[name].log = disk[name].log
  BY <1>2 DEF Stored, FilesOrdered, Ordered, Before
<1>3. CASE /\ name = settings.name
           /\ 1 \notin DOMAIN Backup /\ DOMAIN d.backup = DOMAIN Backup \cup {1}
           /\ d.backup[1] = disk[settings.name].log /\ d.log = << >>
           /\ \A i \in DOMAIN Backup : d.backup[i] = Backup[i]
  <2>1. /\ DOMAIN Backup \subseteq Nat /\ \A i \in DOMAIN Backup : i >= 1
    <3>1. DOMAIN Backup \subseteq 1 .. Files /\ Files \in Nat
      BY CurrentFiles, BackupsAre, ConstantsAssumption
    <3> QED
      BY <3>1
  <2>2. disk'[name] = d /\ disk[name].backup = Backup /\ disk[name] = disk[settings.name]
    BY <1>3 DEF Backup
  <2> HIDE DEF d
  <2> DEFINE log == disk[settings.name].log
  <2>3. ToSet(d.log) = {} /\ DOMAIN d.log = {}
    BY <1>3, EmptyIs
  <2>4. Stored(name)' \subseteq Stored(name)
    <3>1. \A i \in DOMAIN d.backup :
            (i \in DOMAIN Backup /\ d.backup[i] = Backup[i]) \/ d.backup[i] = log
      BY <1>3
    <3> QED
      BY <2>2, <2>3, <3>1 DEF Stored
  <2>5. ASSUME FilesOrdered(name) PROVE FilesOrdered(name)'
    <3>1. /\ Ordered(log)
          /\ \A i \in DOMAIN Backup :
               /\ Ordered(Backup[i]) /\ Before(ToSet(Backup[i]), ToSet(log))
               /\ \A j \in DOMAIN Backup : j < i => Before(ToSet(Backup[i]), ToSet(Backup[j]))
      BY <2>2, <2>5 DEF FilesOrdered
    <3>2. Ordered(d.log)
      BY <2>3 DEF Ordered
    <3>3. ASSUME NEW i \in DOMAIN d.backup
          PROVE  /\ Ordered(d.backup[i]) /\ Before(ToSet(d.backup[i]), ToSet(d.log))
                 /\ \A j \in DOMAIN d.backup :
                      j < i => Before(ToSet(d.backup[i]), ToSet(d.backup[j]))
      <4>1. Ordered(d.backup[i])
        BY <1>3, <3>1
      <4>2. Before(ToSet(d.backup[i]), ToSet(d.log))
        BY <2>3 DEF Before
      <4>3. ASSUME NEW j \in DOMAIN d.backup, j < i
            PROVE  Before(ToSet(d.backup[i]), ToSet(d.backup[j]))
        <5>1. i \in DOMAIN Backup
          <6>1. j >= 1 /\ j \in Nat /\ i \in Nat
            BY <1>3, <2>1
          <6> QED
            BY <1>3, <4>3, <6>1
        <5>2. CASE j = 1
          BY <1>3, <3>1, <5>1, <5>2
        <5>3. CASE j \in DOMAIN Backup
          BY <1>3, <3>1, <4>3, <5>1, <5>3
        <5> QED
          BY <1>3, <5>2, <5>3
      <4> QED
        BY <4>1, <4>2, <4>3
    <3> QED
      BY <2>2, <3>2, <3>3 DEF FilesOrdered, Ordered, Before
  <2> QED
    BY <2>4, <2>5
<1> QED
  BY <1>1, <1>2, <1>3 DEF Backup

-----------------------------------------------------------------------------
(* Steps that log nothing.                                                 *)

LEMMA ShrinksKeep ==
  ASSUME TypeOK, TypeOK', BuffersFit, OrderFits, FilesKept, \A t \in Writers : Shrinks(t),
         budget.calls <= budget'.calls, settings'.bufferSize <= history'.largest,
         \A t \in Writers : Len(buffers'[t]) <= history'.largest,
         history.disabled => history'.disabled,
         ~ history'.disabled /\ settings'.bufferSize = 0 => \A t \in Writers : buffers'[t] = << >>
  PROVE  BuffersFit' /\ OrderFits'
<1>1. \A t \in Writers : Covered(t)
  BY ShrinksCovers
<1>2. NumbersApart'
  BY <1>1, ApartKept DEF FilesKept
<1>3. \A t \in Writers : OwnMessages(t)'
  BY OwnKept DEF BuffersFit
<1>4. BuffersFit'
  BY <1>2, <1>3 DEF BuffersFit
<1>5. ASSUME ~ history'.disabled, NEW name \in Names, NEW t \in Writers
      PROVE  Before(Stored(name)', Unwritten(t)')
  <2>1. Before(Stored(name), Unwritten(t))
    BY <1>5 DEF OrderFits
  <2> QED
    BY <1>1, <2>1 DEF Before, Covered, FilesKept, StoredShrinks
<1>6. ASSUME ~ history'.disabled, NEW t \in Writers, thread'[t].queue # << >>
      PROVE  buffers'[t] = << >>
  BY <1>6 DEF OrderFits, Shrinks
<1>7. ASSUME ~ history'.disabled, NEW name \in Names PROVE FilesOrdered(name)'
  BY <1>7 DEF OrderFits, FilesKept
<1>8. OrderFits'
  BY <1>5, <1>6, <1>7 DEF OrderFits, Before
<1> QED
  BY <1>4, <1>8

(* The same with unchanged settings. *)
LEMMA QuietKeeps ==
  ASSUME TypeOK, TypeOK', BuffersFit, OrderFits, FilesKept, \A t \in Writers : Shrinks(t),
         budget'.calls \in {budget.calls, budget.calls + 1}, settings' = settings,
         history'.largest = history.largest, history'.disabled = history.disabled
  PROVE  BuffersFit' /\ OrderFits'
<1>1. budget.calls <= budget'.calls
  BY DEF TypeOK, Budgets
<1>2. settings'.bufferSize <= history'.largest
  BY DEF BuffersFit, NumbersApart
<1>3. ASSUME NEW t \in Writers PROVE Len(buffers'[t]) <= history'.largest
  <2>1. Len(buffers[t]) <= history.largest
    BY DEF BuffersFit, OwnMessages
  <2>2. history.largest \in Nat
    BY DEF TypeOK, Histories
  <2> QED
    BY <2>1, <2>2, EmptyIs DEF Shrinks
<1>4. ~ history'.disabled /\ settings'.bufferSize = 0 => \A t \in Writers : buffers'[t] = << >>
  BY DEF OrderFits, Shrinks
<1> QED
  BY <1>1, <1>2, <1>3, <1>4, ShrinksKeep

LEMMA SameShrinks ==
  ASSUME NEW t \in Writers, OwnMessages(t), thread'[t] = thread[t],
         buffers'[t] \in {buffers[t], << >>}, logVars'[t] = logVars[t]
  PROVE  Shrinks(t)
BY DEF OwnMessages, Shrinks

(* A thread that returns or goes on without logging. *)
LEMMA GotoShrinks ==
  ASSUME TypeOK, NEW t \in Writers, BuffersFit, thread[t].queue = << >>,
         UNCHANGED <<buffers, logVars>>,
         \/ Return(t)
         \/ \E place \in Places :
              /\ Goto(t, place)
              /\ place \in {"handler", "log"} => thread[t].at \in {"handler", "log"}
  PROVE  \A u \in Writers : Shrinks(u)
<1>1. ASSUME NEW u \in Writers, u # t PROVE Shrinks(u)
  <2>1. thread'[u] = thread[u]
    BY <1>1 DEF TypeOK, Return, Goto, Threads
  <2> QED
    BY <2>1, SameShrinks DEF BuffersFit
<1>2. CASE Return(t)
  <2>1. thread'[t].at = "idle" /\ thread'[t].queue = << >>
    BY <1>2, ReturnIs DEF Threads
  <2> QED
    BY <1>1, <2>1 DEF Shrinks
<1>3. ASSUME NEW place \in Places, Goto(t, place),
             place \in {"handler", "log"} => thread[t].at \in {"handler", "log"}
      PROVE  \A u \in Writers : Shrinks(u)
  <2>1. /\ thread'[t].at = place /\ thread'[t].queue = << >>
        /\ thread'[t].message = thread[t].message
    BY <1>3, GotoIs DEF Threads
  <2> QED
    BY <1>1, <1>3, <2>1 DEF Shrinks
<1> QED
  BY <1>2, <1>3

LEMMA MainShrinks ==
  ASSUME BuffersFit, \A t \in Writers : thread'[t] = thread[t], UNCHANGED <<buffers, logVars>>
  PROVE  \A t \in Writers : Shrinks(t)
BY SameShrinks DEF BuffersFit

LEMMA OthersUnchanged ==
  ASSUME TypeOK, Return(Main) \/ \E place : Goto(Main, place)
  PROVE  \A t \in Writers : thread'[t] = thread[t]
BY ConstantsAssumption DEF Return, Goto, TypeOK, Threads

LEMMA QuietMain ==
  ASSUME TypeOK, TypeOK', BuffersFit, OrderFits,
         \/ InstallMsgHandler \/ TimerEvent \/ Flush \/ OpenFile \/ OpenFails \/ CountBackups
         \/ RemovalEnds \/ UNCHANGED vars
  PROVE  BuffersFit' /\ OrderFits'
<1>1. /\ UNCHANGED <<buffers, logVars, settings>>
      /\ history' \in {history, [history EXCEPT !.faulty = TRUE]}
      /\ disk' = disk \/ disk' = Flushed(settings.name)
      /\ budget' = budget \/ Fault
  BY DEF InstallMsgHandler, TimerEvent, Flush, OpenFile, OpenFails, CountBackups, RemovalEnds, vars
<1>2. history'.largest = history.largest /\ history'.disabled = history.disabled
  BY <1>1 DEF TypeOK, Histories
<1>3. budget'.calls \in {budget.calls, budget.calls + 1}
  BY <1>1, BudgetIs
<1>4. \A t \in Writers : thread'[t] = thread[t]
  <2>1. \/ thread' = thread \/ Return(Main) \/ \E place : Goto(Main, place)
        \/ thread' = [thread EXCEPT ![Main].at = "handler",
                       ![Main].message = [n |-> 0, from |-> Main, level |-> 1]]
    BY DEF InstallMsgHandler, TimerEvent, Flush, OpenFile, OpenFails, CountBackups, RemovalEnds, vars
  <2>2. ASSUME thread' = [thread EXCEPT ![Main].at = "handler",
                          ![Main].message = [n |-> 0, from |-> Main, level |-> 1]]
        PROVE  \A t \in Writers : thread'[t] = thread[t]
    BY <2>2, ConstantsAssumption DEF TypeOK, Threads
  <2> QED
    BY <2>1, <2>2, OthersUnchanged
<1>5. \A t \in Writers : Shrinks(t)
  BY <1>1, <1>4, MainShrinks
<1>6. FilesKept
  BY <1>1, FilesSame, CurrentFiles
<1> QED
  BY <1>1, <1>2, <1>3, <1>5, <1>6, QuietKeeps

LEMMA QuietRotation ==
  ASSUME TypeOK, TypeOK', Rotates, BuffersFit, OrderFits,
         RemoveBackup \/ RemoveFails \/ RenameBackup \/ RenameFails \/ RenameLog
  PROVE  BuffersFit' /\ OrderFits'
<1>1. /\ UNCHANGED <<buffers, logVars, settings>>
      /\ budget' = budget \/ Fault
      /\ thread' = thread \/ Goto(Main, "open")
  BY DEF RemoveBackup, RemoveFails, RenameBackup, RenameFails, RenameLog
<1>2. history'.largest = history.largest /\ history'.disabled = history.disabled
  <2>1. \/ history' \in {history, [history EXCEPT !.faulty = TRUE], [history EXCEPT !.rotated = TRUE]}
        \/ history' = [history EXCEPT !.removed = @ \cup ToSet(Backup[count])]
    BY DEF RemoveBackup, RemoveFails, RenameBackup, RenameFails, RenameLog
  <2> QED
    BY <2>1 DEF TypeOK, Histories
<1>3. budget'.calls \in {budget.calls, budget.calls + 1}
  BY <1>1, BudgetIs
<1>4. \A t \in Writers : Shrinks(t)
  <2>1. \A t \in Writers : thread'[t] = thread[t]
    BY <1>1, OthersUnchanged
  <2> QED
    BY <1>1, <2>1, MainShrinks
<1>5. FilesKept
  <2>1. CASE RemoveFails \/ RenameFails
    BY <2>1, FilesSame DEF RemoveFails, RenameFails
  <2> QED
    BY <2>1, FilesRemove, FilesRename, FilesRenameLog
<1> QED
  BY <1>1, <1>2, <1>3, <1>4, <1>5, QuietKeeps

LEMMA QuietWriters ==
  ASSUME TypeOK, TypeOK', UnflushedFits, BuffersFit, OrderFits, NEW t \in Writers,
         \/ MsgHandler(t) \/ WriteFails(t) \/ LogReturns(t) \/ Abort(t)
         \/ \E value \in Values : Set(t, value)
         \/ \E buffer, variables \in BOOLEAN : Clear(t, buffer, variables)
  PROVE  BuffersFit' /\ OrderFits'
<1>1. /\ settings' = settings
      /\ history' \in {history, [history EXCEPT !.faulty = TRUE]}
      /\ disk' = disk \/ disk' = Lost
      /\ budget' \in {budget, [budget EXCEPT !.calls = @ + 1]} \/ Fault
  BY DEF MsgHandler, WriteFails, LogReturns, Abort, Set, Clear
<1>2. history'.largest = history.largest /\ history'.disabled = history.disabled
  BY <1>1 DEF TypeOK, Histories
<1>3. budget'.calls \in {budget.calls, budget.calls + 1}
  <2>1. CASE budget' = [budget EXCEPT !.calls = @ + 1]
    BY <2>1 DEF TypeOK, Budgets
  <2> QED
    BY <1>1, <2>1, BudgetIs
<1>4. FilesKept
  BY <1>1, FilesSame, FilesLost
<1>5. \A u \in Writers : Shrinks(u)
  <2>1. CASE MsgHandler(t)
    <3>1. thread[t].at = "handler" /\ Goto(t, "log") /\ UNCHANGED <<buffers, logVars>>
      BY <2>1 DEF MsgHandler, Running
    <3>2. thread[t].queue = << >> /\ "log" \in Places
      BY <3>1 DEF BuffersFit, OwnMessages, Places, WriterPlaces
    <3> QED
      BY <3>1, <3>2, GotoShrinks
  <2>2. CASE WriteFails(t) \/ Abort(t)
    BY <2>2, MainShrinks DEF WriteFails, Abort
  <2>3. CASE LogReturns(t)
    <3>1. /\ thread[t].queue = << >> /\ UNCHANGED <<buffers, logVars>>
          /\ Goto(t, "abort") \/ Return(t)
      BY <2>3 DEF LogReturns
    <3>2. "abort" \in Places /\ "abort" \notin {"handler", "log"}
      BY DEF Places, WriterPlaces
    <3> QED
      BY <3>1, <3>2, GotoShrinks
  <2>4. ASSUME NEW value \in Values, Set(t, value) PROVE \A u \in Writers : Shrinks(u)
    <3>1. /\ thread[t].at = "idle" /\ UNCHANGED <<thread, buffers>>
          /\ \A u \in Writers \ {t} : logVars'[u] = logVars[u]
      BY <2>4 DEF Set, Running, TypeOK
    <3>2. ASSUME NEW u \in Writers, u # t PROVE Shrinks(u)
      BY <3>1, <3>2, SameShrinks DEF BuffersFit
    <3>3. Shrinks(t)
      BY <3>1 DEF Shrinks, BuffersFit, OwnMessages
    <3> QED
      BY <3>2, <3>3
  <2>5. ASSUME NEW buffer \in BOOLEAN, NEW variables \in BOOLEAN, Clear(t, buffer, variables)
        PROVE  \A u \in Writers : Shrinks(u)
    <3>1. /\ thread[t].at = "idle" /\ UNCHANGED thread
          /\ \A u \in Writers : buffers'[u] \in {buffers[u], << >>}
          /\ \A u \in Writers \ {t} : logVars'[u] = logVars[u]
      BY <2>5 DEF Clear, Running, TypeOK
    <3>2. ASSUME NEW u \in Writers, u # t PROVE Shrinks(u)
      BY <3>1, <3>2, SameShrinks DEF BuffersFit
    <3>3. Shrinks(t)
      BY <3>1 DEF Shrinks, BuffersFit, OwnMessages
    <3> QED
      BY <3>2, <3>3
  <2> QED
    BY <2>1, <2>2, <2>3, <2>4, <2>5
<1> QED
  BY <1>1, <1>2, <1>3, <1>4, <1>5, QuietKeeps

LEMMA RefreshKeeps ==
  ASSUME TypeOK, TypeOK', UnflushedFits, LocksFit, BuffersFit, OrderFits, RefreshSettings
  PROVE  BuffersFit' /\ OrderFits'
<1>1. /\ UNCHANGED <<buffers, logVars>>
      /\ disk' = disk \/ disk' = Flushed(settings.name)
  BY DEF RefreshSettings
<1>2. /\ history.largest <= history'.largest /\ settings'.bufferSize <= history'.largest
      /\ history'.disabled =
           (history.disabled \/ (settings'.bufferSize = 0 /\ \E t \in Writers : buffers[t] # << >>))
      /\ \A t \in Writers : thread'[t] = thread[t]
      /\ budget'.calls = budget.calls
  BY BaseRefreshSettings
<1>3. \A t \in Writers : Shrinks(t)
  BY <1>1, <1>2, MainShrinks
<1>4. FilesKept
  BY <1>1, FilesSame, CurrentFiles
<1>5. budget.calls <= budget'.calls
  BY <1>2 DEF TypeOK, Budgets
<1>6. ASSUME NEW t \in Writers PROVE Len(buffers'[t]) <= history'.largest
  <2>1. /\ Len(buffers[t]) <= history.largest /\ history.largest \in Nat /\ history'.largest \in Nat
        /\ Len(buffers[t]) \in Nat
    BY DEF BuffersFit, OwnMessages, TypeOK, Histories
  <2> QED
    BY <1>1, <1>2, <2>1
<1> QED
  BY <1>1, <1>2, <1>3, <1>4, <1>5, <1>6, ShrinksKeep

LEMMA RestartKeeps ==
  ASSUME TypeOK, TypeOK', BuffersFit, OrderFits, Restart
  PROVE  BuffersFit' /\ OrderFits'
<1>1. /\ disk' = disk /\ budget'.calls = budget.calls
      /\ \A t \in Writers : thread'[t].at = "idle" /\ thread'[t].queue = << >>
      /\ \A t \in Writers : buffers'[t] = << >>
      /\ history'.largest = settings'.bufferSize
      /\ history'.disabled = history.disabled
  BY BaseRestart DEF Threads
<1>2. \A t \in Writers : Shrinks(t)
  BY <1>1 DEF Shrinks
<1>3. FilesKept
  BY <1>1, FilesSame
<1>4. /\ budget.calls <= budget'.calls /\ settings'.bufferSize <= history'.largest
      /\ \A t \in Writers : Len(buffers'[t]) <= history'.largest
  BY <1>1, EmptyIs DEF TypeOK, Budgets, Histories
<1> QED
  BY <1>1, <1>2, <1>3, <1>4, ShrinksKeep

-----------------------------------------------------------------------------
(* The steps that log: the call, log and the writing of a message.         *)

LEMMA StoredUnchanged ==
  ASSUME disk' = disk
  PROVE  /\ \A name \in Names : Stored(name)' = Stored(name)
         /\ \A name \in Names : FilesOrdered(name) => FilesOrdered(name)'
BY DEF Stored, FilesOrdered, Ordered, Before

LEMMA CallKeeps ==
  ASSUME TypeOK, TypeOK', BuffersFit, OrderFits, NEW t \in Writers, NEW level \in Levels,
         CallQt(t, level) \/ CallLog(t, level)
  PROVE  BuffersFit' /\ OrderFits'
<1> DEFINE m == thread'[t].message
<1>1. PICK place \in {"handler", "log"} : Call(t, level, place)
  BY DEF CallQt, CallLog
<1>2. /\ \A u \in Threads \ {t} : thread'[u] = thread[u]
      /\ thread'[t].at = place /\ thread'[t].queue = << >>
      /\ m \in Messages /\ m.n = budget.calls + 1
      /\ m.from = t /\ m.had = logVars[t]
      /\ budget'.calls = budget.calls + 1 /\ budget.calls \in Nat
  BY <1>1, CalledIs DEF TypeOK, Budgets
<1>3. /\ UNCHANGED <<buffers, logVars, disk, settings, history>> /\ thread[t].at = "idle"
      /\ thread[t].queue = << >>
  BY <1>1 DEF Call, Running, BuffersFit, OwnMessages
<1> HIDE DEF m
<1>4. ASSUME NEW u \in Writers, u # t
      PROVE  /\ Unwritten(u)' = Unwritten(u) /\ Numbers(u)' = Numbers(u) /\ OwnMessages(u)'
  <2>1. thread'[u] = thread[u]
    BY <1>2, <1>4 DEF Threads
  <2>2. Unwritten(u)' = Unwritten(u)
    BY <1>3, <2>1 DEF Unwritten, Active
  <2>3. Numbers(u)' = Numbers(u)
    BY <2>2 DEF Numbers
  <2>4. Shrinks(u)
    BY <1>3, <2>1, SameShrinks DEF BuffersFit
  <2>5. OwnMessages(u)'
    BY <1>3, <2>4, OwnKept DEF BuffersFit, OwnMessages
  <2> QED
    BY <2>2, <2>3, <2>5
<1>5. /\ Unwritten(t) = ToSet(buffers[t])
      /\ \A x \in Unwritten(t)' : x = m \/ x \in Unwritten(t)
  BY <1>2, <1>3, EmptyIs DEF Unwritten, Active, m
<1>6. \A n \in Numbers(t)' : n = budget.calls + 1 \/ n \in Numbers(t)
  BY <1>2, <1>5 DEF Numbers
<1>7. \A u \in Writers : Numbers(u) \subseteq Nat /\ \A n \in Numbers(u) : n <= budget.calls
  BY UnwrittenMessages DEF BuffersFit, NumbersApart
<1>8. \A name \in Names : \A line \in Stored(name) : line.n \in Nat /\ line.n <= budget.calls
  BY StoredLines DEF BuffersFit, NumbersApart
<1>9. OwnMessages(t)'
  <2>1. \A i \in DOMAIN buffers[t] : buffers[t][i].n < m.n
    <3> SUFFICES ASSUME NEW i \in DOMAIN buffers[t] PROVE buffers[t][i].n < m.n
      OBVIOUS
    <3>1. buffers[t][i] \in ToSet(buffers[t])
      BY DEF ToSet
    <3>2. buffers[t][i].n \in Numbers(t)
      BY <1>5, <3>1 DEF Numbers
    <3>3. buffers[t][i].n \in Nat /\ buffers[t][i].n <= budget.calls
      BY <1>7, <3>2
    <3> QED
      BY <1>2, <3>3
  <2>2. /\ \A x \in ToSet(buffers[t]) \cup ToSet(thread'[t].queue) : x.from = t /\ x.logVars = x.had
        /\ Rising(buffers[t]) /\ Rising(thread'[t].queue) /\ DOMAIN thread'[t].queue = {}
        /\ Len(buffers[t]) <= history.largest
    BY <1>2, EmptyIs DEF BuffersFit, OwnMessages, Rising
  <2> QED
    BY <1>2, <1>3, <2>1, <2>2 DEF OwnMessages, Rising, m
<1>10. NumbersApart'
  <2>1. ASSUME NEW u \in Writers, NEW n \in Numbers(u)'
        PROVE  /\ n <= budget'.calls
               /\ \A v \in Writers : n \in Numbers(v)' => v = u
               /\ \A name \in Names : \A line \in Stored(name)' : line.n # n
    <3>1. CASE n = budget.calls + 1 /\ u = t
      <4>1. \A v \in Writers : n \notin Numbers(v)
        BY <1>2, <1>7, <3>1
      <4>2. \A v \in Writers : n \in Numbers(v)' => v = u
        BY <1>4, <3>1, <4>1
      <4>3. \A name \in Names : \A line \in Stored(name) : line.n # n
        BY <1>2, <1>8, <3>1
      <4> QED
        BY <1>2, <1>3, <3>1, <4>2, <4>3, StoredUnchanged
    <3>2. CASE n \in Numbers(u)
      <4>1. n \in Nat /\ n <= budget.calls /\ n # budget.calls + 1
        BY <1>2, <1>7, <3>2
      <4>2. \A v \in Writers : n \in Numbers(v)' => v = u
        BY <1>4, <1>6, <3>2, <4>1 DEF BuffersFit, NumbersApart
      <4>3. \A name \in Names : \A line \in Stored(name) : line.n # n
        BY <3>2 DEF BuffersFit, NumbersApart
      <4> QED
        BY <1>2, <1>3, <4>1, <4>2, <4>3, StoredUnchanged
    <3> QED
      BY <1>4, <1>6, <3>1, <3>2
  <2>2. ASSUME NEW name \in Names, NEW line \in Stored(name)'
        PROVE  line.n <= budget'.calls /\ line.thread = line.from /\ line.shows = line.had
    <3>1. line \in Stored(name)
      BY <1>3, StoredUnchanged
    <3>2. line.n <= budget.calls + 1
      BY <1>2, <1>8, <3>1
    <3> QED
      BY <1>2, <3>1, <3>2 DEF BuffersFit, NumbersApart
  <2>3. settings'.bufferSize <= history'.largest
    BY <1>3 DEF BuffersFit, NumbersApart
  <2> QED
    BY <2>1, <2>2, <2>3 DEF NumbersApart
<1>11. BuffersFit'
  BY <1>4, <1>9, <1>10 DEF BuffersFit
<1>12. OrderFits'
  <2> SUFFICES ASSUME ~ history.disabled
               PROVE  /\ \A name \in Names :
                           FilesOrdered(name)' /\ \A u \in Writers : Before(Stored(name), Unwritten(u))'
                      /\ settings.bufferSize = 0 => \A u \in Writers : buffers[u] = << >>
                      /\ \A u \in Writers : thread'[u].queue # << >> => buffers[u] = << >>
    BY <1>3 DEF OrderFits
  <2>1. \A name \in Names : FilesOrdered(name)' /\ Stored(name)' = Stored(name)
    BY <1>3, StoredUnchanged DEF OrderFits
  <2>2. ASSUME NEW name \in Names, NEW u \in Writers PROVE Before(Stored(name)', Unwritten(u)')
    <3>1. Before(Stored(name), Unwritten(u))
      BY DEF OrderFits
    <3>2. CASE u # t
      BY <1>4, <2>1, <3>1, <3>2
    <3>3. CASE u = t
      <4>1. \A x \in Stored(name) : x.n < m.n
        BY <1>2, <1>8
      <4> QED
        BY <1>5, <2>1, <3>1, <3>3, <4>1 DEF Before
    <3> QED
      BY <3>2, <3>3
  <2>3. settings.bufferSize = 0 => \A u \in Writers : buffers[u] = << >>
    BY DEF OrderFits
  <2>4. \A u \in Writers : thread'[u].queue # << >> => buffers[u] = << >>
    BY <1>2 DEF OrderFits, Threads
  <2> QED
    BY <2>1, <2>2, <2>3, <2>4 DEF Before
<1> QED
  BY <1>11, <1>12

LEMMA TailIs ==
  ASSUME NEW S, NEW q \in Seq(S), q # << >>
  PROVE  /\ Tail(q) \in Seq(S) /\ Len(Tail(q)) = Len(q) - 1 /\ Len(q) \in Nat /\ Len(q) > 0
         /\ DOMAIN q = 1 .. Len(q) /\ DOMAIN Tail(q) = 1 .. (Len(q) - 1)
         /\ \A i \in DOMAIN Tail(q) : i + 1 \in DOMAIN q /\ i \in Nat /\ Tail(q)[i] = q[i + 1]
         /\ Head(q) = q[1] /\ 1 \in DOMAIN q
OBVIOUS

LEMMA RisingTail ==
  ASSUME NEW S, NEW q \in Seq(S), q # << >>, Rising(q)
  PROVE  Rising(Tail(q))
<1> SUFFICES ASSUME NEW i \in DOMAIN Tail(q), NEW j \in DOMAIN Tail(q), i < j
             PROVE  Tail(q)[i].n < Tail(q)[j].n
  BY DEF Rising
<1>1. /\ i \in Nat /\ j \in Nat /\ i + 1 \in DOMAIN q /\ j + 1 \in DOMAIN q
      /\ Tail(q)[i] = q[i + 1] /\ Tail(q)[j] = q[j + 1]
  BY TailIs
<1>2. i + 1 < j + 1
  BY <1>1
<1> QED
  BY <1>1, <1>2 DEF Rising

LEMMA BufferedOwn ==
  ASSUME TypeOK, NEW t \in Writers, OwnMessages(t), thread[t].at = "log"
  PROVE  /\ Buffered(t) \in Seq(Messages) /\ Rising(Buffered(t))
         /\ Len(Buffered(t)) <= settings.bufferSize \/ Len(Buffered(t)) = Len(buffers[t])
         /\ \A x \in ToSet(Buffered(t)) \cup {LogMessage(t)} :
              /\ x.from = t /\ x.logVars = x.had
              /\ \E y \in Unwritten(t) : x.n = y.n /\ x.from = y.from
<1> DEFINE m == LogMessage(t)
           long == Append(buffers[t], m)
<1>1. /\ thread[t].message \in Messages
      /\ thread[t].message.from = t /\ thread[t].message.had = logVars[t]
      /\ \A i \in DOMAIN buffers[t] : buffers[t][i].n < thread[t].message.n
      /\ Rising(buffers[t]) /\ \A x \in ToSet(buffers[t]) : x.from = t /\ x.logVars = x.had
  BY DEF OwnMessages
<1>2. /\ m \in Messages /\ m.n = thread[t].message.n /\ m.from = t /\ m.logVars = m.had
  BY <1>1, LogMessageIs
<1>3. /\ Buffered(t) \in Seq(Messages)
      /\ \/ Buffered(t) = long /\ Len(long) <= settings.bufferSize
         \/ Buffered(t) = Tail(long)
      /\ long \in Seq(Messages) /\ Len(long) = Len(buffers[t]) + 1
      /\ Len(Tail(long)) = Len(buffers[t])
  BY <1>1, BufferedIs
<1> HIDE DEF m
<1>4. buffers[t] \in Seq(Messages)
  BY DEF TypeOK
<1>5. /\ DOMAIN buffers[t] = 1 .. Len(buffers[t]) /\ DOMAIN long = 1 .. (Len(buffers[t]) + 1)
      /\ \A i \in 1 .. Len(buffers[t]) : long[i] = buffers[t][i]
      /\ long[Len(buffers[t]) + 1] = m /\ Len(buffers[t]) \in Nat /\ long # << >>
  BY <1>2, <1>4
<1>6. Rising(long)
  <2> SUFFICES ASSUME NEW i \in DOMAIN long, NEW j \in DOMAIN long, i < j
               PROVE  long[i].n < long[j].n
    BY DEF Rising
  <2>1. i \in 1 .. Len(buffers[t])
    BY <1>5
  <2>2. CASE j = Len(buffers[t]) + 1
    BY <1>1, <1>2, <1>5, <2>1, <2>2
  <2>3. CASE j \in 1 .. Len(buffers[t])
    BY <1>1, <1>5, <2>1, <2>3 DEF Rising
  <2> QED
    BY <1>5, <2>2, <2>3
<1>7. ASSUME NEW x \in ToSet(long)
      PROVE  x \in ToSet(buffers[t]) \/ x = m
  <2>1. PICK i \in 1 .. Len(long) : long[i] = x
    BY <1>3, <1>7, ToSetIs
  <2>2. CASE i \in 1 .. Len(buffers[t])
    BY <1>4, <1>5, <2>1, <2>2, ToSetIs
  <2>3. CASE i = Len(buffers[t]) + 1
    BY <1>5, <2>1, <2>3
  <2> QED
    BY <1>3, <1>5, <2>2, <2>3
<1>8. ASSUME NEW x \in ToSet(Tail(long))
      PROVE  x \in ToSet(long)
  <2>1. Tail(long) \in Seq(Messages)
    BY <1>3, <1>5, TailIs
  <2>2. PICK i \in 1 .. Len(Tail(long)) : Tail(long)[i] = x
    BY <1>8, <2>1, ToSetIs
  <2>3. i \in DOMAIN Tail(long)
    BY <1>3, <1>5, <2>2, TailIs
  <2>4. i + 1 \in DOMAIN long /\ long[i + 1] = x
    BY <1>3, <1>5, <2>2, <2>3, TailIs
  <2> QED
    BY <2>4 DEF ToSet
<1>9. \A x \in ToSet(Buffered(t)) : x \in ToSet(buffers[t]) \/ x = m
  BY <1>3, <1>7, <1>8
<1>10. Rising(Buffered(t))
  BY <1>3, <1>5, <1>6, RisingTail
<1>11. \E y \in Unwritten(t) : m.n = y.n /\ m.from = y.from
  BY <1>1, <1>2 DEF Unwritten, Active
<1>12. \A x \in ToSet(buffers[t]) : x \in Unwritten(t)
  BY DEF Unwritten
<1>13. Len(Buffered(t)) <= settings.bufferSize \/ Len(Buffered(t)) = Len(buffers[t])
  BY <1>3
<1>14. \A x \in ToSet(Buffered(t)) \cup {m} :
              /\ x.from = t /\ x.logVars = x.had
              /\ \E y \in Unwritten(t) : x.n = y.n /\ x.from = y.from
  BY <1>1, <1>2, <1>9, <1>11, <1>12
<1> QED
  BY <1>3, <1>10, <1>13, <1>14 DEF m

LEMMA SingleIs ==
  ASSUME NEW x
  PROVE  ToSet(<<x>>) = {x} /\ Rising(<<x>>) /\ DOMAIN <<x>> = {1} /\ <<x>>[1] = x
<1>1. DOMAIN <<x>> = {1} /\ <<x>>[1] = x
  OBVIOUS
<1>2. ToSet(<<x>>) = {x}
  BY <1>1 DEF ToSet
<1>3. Rising(<<x>>)
  BY <1>1 DEF Rising
<1> QED
  BY <1>1, <1>2, <1>3

LEMMA LogKeeps ==
  ASSUME TypeOK, TypeOK', BuffersFit, OrderFits, NEW t \in Writers, Log(t)
  PROVE  BuffersFit' /\ OrderFits'
<1> DEFINE b == buffers'[t]
           q == thread'[t].queue
<1>1. /\ thread[t].at = "log" /\ UNCHANGED <<settings, logVars, disk, budget, history>>
  BY DEF Log, Running
<1>2. /\ OwnMessages(t) /\ thread[t].message \in Messages
  BY <1>1 DEF BuffersFit, OwnMessages
<1>3. /\ \A u \in Threads \ {t} : thread'[u] = thread[u]
      /\ \A u \in Writers \ {t} : buffers'[u] = buffers[u]
      /\ thread'[t].at = "writing"
      /\ \/ b = << >> /\ q = Buffered(t)
         \/ b = Buffered(t) /\ q = << >>
         \/ b = buffers[t] /\ settings.bufferSize = 0 /\ q = <<LogMessage(t)>>
         \/ b = buffers[t] /\ settings.bufferSize = 0 /\ q = << >>
      /\ settings.bufferSize = 0 => b = buffers[t]
  <2>1. settings.bufferSize \in Nat
    BY CurrentFiles
  <2>2. /\ \A u \in Threads \ {t} : thread'[u] = thread[u]
        /\ \A u \in Writers \ {t} : buffers'[u] = buffers[u]
        /\ thread'[t].at = "writing"
    BY <1>2, LoggedIs
  <2>3. LET writes == thread[t].message.level >= settings.minLevel IN
        IF settings.bufferSize > 0
        THEN /\ buffers'[t] = IF writes THEN << >> ELSE Buffered(t)
             /\ thread'[t].queue = IF writes THEN Buffered(t) ELSE << >>
        ELSE /\ buffers'[t] = buffers[t]
             /\ thread'[t].queue = IF writes THEN <<LogMessage(t)>> ELSE << >>
    BY <1>2, LoggedIs
  <2>4. CASE settings.bufferSize > 0
    BY <2>1, <2>2, <2>3, <2>4
  <2>5. CASE settings.bufferSize = 0
    <3>1. ~ (settings.bufferSize > 0)
      BY <2>5
    <3> QED
      BY <2>2, <2>3, <2>5, <3>1
  <2> QED
    BY <2>1, <2>4, <2>5
<1> HIDE DEF b, q
<1>4. /\ Buffered(t) \in Seq(Messages) /\ Rising(Buffered(t))
      /\ Len(Buffered(t)) <= settings.bufferSize \/ Len(Buffered(t)) = Len(buffers[t])
      /\ \A x \in ToSet(Buffered(t)) \cup {LogMessage(t)} :
              /\ x.from = t /\ x.logVars = x.had
              /\ \E y \in Unwritten(t) : x.n = y.n /\ x.from = y.from
  BY <1>1, <1>2, BufferedOwn
<1>5. \A u \in Writers \ {t} : Shrinks(u)
  BY <1>1, <1>3, SameShrinks DEF BuffersFit, Threads
<1>6. /\ \A x \in ToSet(b) \cup ToSet(q) :
           x \in ToSet(Buffered(t)) \cup {LogMessage(t)} \/ x \in ToSet(buffers[t])
      /\ Rising(b) /\ Rising(q)
  <2>1. Rising(buffers[t]) /\ Rising(<< >>) /\ ToSet(<< >>) = {}
    BY <1>2, EmptyIs DEF OwnMessages, Rising
  <2>2. ToSet(<<LogMessage(t)>>) = {LogMessage(t)} /\ Rising(<<LogMessage(t)>>)
    BY SingleIs
  <2>3. /\ b \in {<< >>, Buffered(t), buffers[t]}
        /\ q \in {<< >>, Buffered(t), <<LogMessage(t)>>}
    BY <1>3
  <2>4. Rising(b)
    BY <1>4, <2>1, <2>3
  <2>5. Rising(q)
    BY <1>4, <2>1, <2>2, <2>3
  <2>6. ToSet(b) \subseteq ToSet(Buffered(t)) \cup ToSet(buffers[t])
    BY <2>1, <2>3
  <2>7. ToSet(q) \subseteq ToSet(Buffered(t)) \cup {LogMessage(t)}
    BY <2>1, <2>2, <2>3
  <2> QED
    BY <2>4, <2>5, <2>6, <2>7
<1>7. Covered(t)
  <2>1. Unwritten(t)' = ToSet(b) \cup ToSet(q)
    BY <1>3 DEF Unwritten, Active, b, q
  <2>2. ToSet(buffers[t]) \subseteq Unwritten(t)
    BY DEF Unwritten
  <2> QED
    BY <1>4, <1>6, <2>1, <2>2 DEF Covered
<1>8. \A u \in Writers : Covered(u)
  BY <1>5, <1>7, ShrinksCovers
<1>9. StoredShrinks
  BY <1>1, StoredUnchanged DEF StoredShrinks
<1>10. NumbersApart'
  <2>1. budget.calls <= budget'.calls /\ settings'.bufferSize <= history'.largest
    BY <1>1 DEF TypeOK, Budgets, BuffersFit, NumbersApart
  <2> QED
    BY <1>8, <1>9, <2>1, ApartKept
<1>11. OwnMessages(t)'
  <2>1. \A x \in ToSet(b) \cup ToSet(q) : x.from = t /\ x.logVars = x.had
    BY <1>2, <1>4, <1>6 DEF OwnMessages
  <2>2. \A i \in DOMAIN b, j \in DOMAIN q : b[i].n # q[j].n
    <3>1. CASE b = << >> \/ q = << >>
      BY <3>1, EmptyIs
    <3>2. CASE b = buffers[t] /\ q = <<LogMessage(t)>>
      <4>1. LogMessage(t).n = thread[t].message.n /\ thread[t].message.n \in Nat
        BY <1>2, LogMessageIs DEF Messages
      <4>2. \A i \in DOMAIN b : b[i].n < thread[t].message.n
        BY <1>1, <1>2, <3>2 DEF OwnMessages
      <4>3. \A i \in DOMAIN b : b[i].n \in Nat
        <5>1. b \in Seq(Messages)
          BY <3>2 DEF TypeOK
        <5> QED
          <6>1. \A i \in DOMAIN b : b[i] \in Messages
            BY <5>1
          <6> QED
            BY <6>1 DEF Messages
      <4>4. \A i \in DOMAIN b : b[i].n # thread[t].message.n
        BY <4>1, <4>2, <4>3
      <4> QED
        BY <3>2, <4>1, <4>4, SingleIs
    <3> QED
      BY <1>3, <3>1, <3>2
  <2>3. Len(b) <= history.largest
    <3>1. /\ Len(buffers[t]) <= history.largest /\ settings.bufferSize <= history.largest
          /\ history.largest \in Nat /\ settings.bufferSize \in Nat
      BY <1>2, CurrentFiles DEF OwnMessages, BuffersFit, NumbersApart, TypeOK, Histories
    <3>2. Len(Buffered(t)) \in Nat
      BY <1>4
    <3>3. Len(Buffered(t)) <= history.largest
      BY <1>4, <3>1, <3>2
    <3> QED
      BY <1>3, <3>1, <3>3, EmptyIs
  <2> QED
    BY <1>1, <1>3, <1>6, <2>1, <2>2, <2>3 DEF OwnMessages, Rising, b, q
<1>12. ASSUME NEW u \in Writers, u # t PROVE OwnMessages(u)'
  <2>1. OwnMessages(u) /\ Shrinks(u) /\ Len(buffers[u]) <= history.largest
    BY <1>5, <1>12 DEF BuffersFit, OwnMessages
  <2>2. Len(buffers'[u]) <= history'.largest
    BY <1>1, <1>3, <1>12, <2>1
  <2> QED
    BY <2>1, <2>2, OwnKept
<1>13. BuffersFit'
  BY <1>10, <1>11, <1>12 DEF BuffersFit
<1>14. OrderFits'
  <2> SUFFICES ASSUME ~ history.disabled
               PROVE  /\ \A name \in Names :
                           FilesOrdered(name)' /\ \A u \in Writers : Before(Stored(name), Unwritten(u))'
                      /\ settings.bufferSize = 0 => \A u \in Writers : buffers'[u] = << >>
                      /\ \A u \in Writers : thread'[u].queue # << >> => buffers'[u] = << >>
    BY <1>1 DEF OrderFits
  <2>1. \A name \in Names : FilesOrdered(name)' /\ Stored(name)' = Stored(name)
    BY <1>1, StoredUnchanged DEF OrderFits
  <2>2. ASSUME NEW name \in Names, NEW u \in Writers PROVE Before(Stored(name)', Unwritten(u)')
    <3>1. Before(Stored(name), Unwritten(u))
      BY DEF OrderFits
    <3> QED
      BY <1>8, <2>1, <3>1 DEF Before, Covered
  <2>3. settings.bufferSize = 0 => \A u \in Writers : buffers'[u] = << >>
    <3> SUFFICES ASSUME settings.bufferSize = 0, NEW u \in Writers PROVE buffers'[u] = << >>
      OBVIOUS
    <3>1. buffers[u] = << >>
      BY DEF OrderFits
    <3> QED
      BY <1>3, <3>1 DEF b
  <2>4. ASSUME NEW u \in Writers, thread'[u].queue # << >> PROVE buffers'[u] = << >>
    <3>1. CASE u = t
      <4>1. q # << >>
        BY <2>4, <3>1 DEF q
      <4>2. b = << >> \/ settings.bufferSize = 0
        BY <1>3, <4>1
      <4> QED
        BY <2>3, <3>1, <4>2 DEF b
    <3>2. CASE u # t
      BY <1>3, <2>4, <3>2 DEF OrderFits, Threads
    <3> QED
      BY <3>1, <3>2
  <2> QED
    BY <2>1, <2>2, <2>3, <2>4 DEF Before
<1> QED
  BY <1>13, <1>14

LEMMA WriteMessageKeeps ==
  ASSUME TypeOK, TypeOK', BuffersFit, OrderFits, NEW t \in Writers, WriteMessage(t)
  PROVE  BuffersFit' /\ OrderFits'
<1> DEFINE q == thread[t].queue
           h == Head(q)
           m == toString(h, t)
<1>1. /\ \A u \in Threads \ {t} : thread'[u] = thread[u]
      /\ thread[t].at = "writing" /\ thread'[t].at = "writing"
      /\ q # << >> /\ thread'[t].queue = Tail(q) /\ h \in Messages /\ m \in Lines
      /\ \/ disk' = disk /\ history' = history
         \/ /\ disk' = Written(m)
            /\ history' \in {history, [history EXCEPT !.important = @ \cup {m}]}
  BY WriteMessageIs
<1>2. UNCHANGED <<buffers, logVars, settings, budget>>
  BY DEF WriteMessage
<1>3. history'.largest = history.largest /\ history'.disabled = history.disabled
  BY <1>1 DEF TypeOK, Histories
<1>4. /\ m.n = h.n /\ m.from = h.from /\ m.thread = t /\ m.shows = h.logVars /\ m.had = h.had
  BY <1>1, LineIs
<1> HIDE DEF m
<1>5. /\ q \in Seq(Messages) /\ OwnMessages(t)
  BY DEF TypeOK, ThreadStates, Threads, BuffersFit
<1>6. h \in ToSet(q) /\ h \in Unwritten(t)
  <2>1. 1 \in DOMAIN q /\ h = q[1]
    BY <1>1, <1>5, TailIs
  <2>2. h \in ToSet(q)
    BY <2>1 DEF ToSet
  <2> QED
    BY <2>2 DEF Unwritten
<1>7. /\ h.from = t /\ h.logVars = h.had /\ h.n \in Nat
  BY <1>1, <1>5, <1>6 DEF OwnMessages, Messages
<1>8. ASSUME NEW x \in ToSet(Tail(q)) PROVE x \in ToSet(q) /\ h.n < x.n /\ x.n \in Nat
  <2>1. PICK i \in DOMAIN Tail(q) : Tail(q)[i] = x
    BY <1>8 DEF ToSet
  <2>2. /\ i + 1 \in DOMAIN q /\ i \in Nat /\ i >= 1 /\ x = q[i + 1] /\ h = q[1] /\ 1 \in DOMAIN q
    <3>1. DOMAIN Tail(q) = 1 .. (Len(q) - 1) /\ Len(q) \in Nat
      BY <1>1, <1>5, TailIs
    <3> QED
      BY <1>1, <1>5, <2>1, <3>1, TailIs
  <2>3. h.n < x.n
    BY <1>5, <2>2 DEF OwnMessages, Rising
  <2>4. x \in ToSet(q)
    BY <2>2 DEF ToSet
  <2>5. x \in Messages
    BY <1>5, <2>4, ToSetIs
  <2> QED
    BY <2>3, <2>4, <2>5 DEF Messages
<1>9. \A x \in ToSet(buffers[t]) : x.n # h.n
  <2>1. 1 \in DOMAIN q /\ h = q[1]
    BY <1>1, <1>5, TailIs
  <2>2. \A i \in DOMAIN buffers[t] : buffers[t][i].n # h.n
    BY <1>5, <2>1 DEF OwnMessages
  <2> QED
    BY <2>2 DEF ToSet
<1>10. /\ Unwritten(t)' = ToSet(buffers[t]) \cup ToSet(Tail(q))
       /\ \A u \in Writers \ {t} : Unwritten(u)' = Unwritten(u)
       /\ \A u \in Writers : Unwritten(u)' \subseteq Unwritten(u)
  <2>1. Unwritten(t)' = ToSet(buffers[t]) \cup ToSet(Tail(q))
    BY <1>1, <1>2 DEF Unwritten, Active
  <2>2. Unwritten(t)' \subseteq Unwritten(t)
    BY <1>8, <2>1 DEF Unwritten
  <2>3. \A u \in Writers \ {t} : Unwritten(u)' = Unwritten(u)
    BY <1>1, <1>2 DEF Unwritten, Active, Threads
  <2> QED
    BY <2>1, <2>2, <2>3
<1>11. /\ h.n \in Numbers(t) /\ h.n \notin Numbers(t)'
       /\ \A u \in Writers : Numbers(u)' \subseteq Numbers(u)
  <2>1. h.n \in Numbers(t)
    BY <1>6 DEF Numbers
  <2>2. \A x \in Unwritten(t)' : x.n # h.n
    BY <1>7, <1>8, <1>9, <1>10
  <2>3. \A u \in Writers : Numbers(u)' \subseteq Numbers(u)
    BY <1>10 DEF Numbers
  <2> QED
    BY <2>1, <2>2, <2>3 DEF Numbers
<1>12. ASSUME NEW name \in Names
       PROVE  /\ \A x \in Stored(name)' : x \in Stored(name) \/ x = m
              /\ (~ history.disabled => FilesOrdered(name)')
  <2>1. CASE disk'[name] = disk[name]
    BY <2>1 DEF Stored, FilesOrdered, Ordered, Before, OrderFits
  <2>2. CASE disk' = Written(m) /\ name = settings.name
    <3> DEFINE log == disk[name].log
    <3>1. /\ disk'[name].backup = disk[name].backup /\ disk'[name].log = Append(log, m)
          /\ log \in Seq(Lines)
      BY <1>1, <2>2, WrittenIs, CurrentFiles DEF Backup
    <3>2. /\ Len(log) \in Nat /\ DOMAIN Append(log, m) = 1 .. (Len(log) + 1)
          /\ \A i \in 1 .. Len(log) : Append(log, m)[i] = log[i]
          /\ Append(log, m)[Len(log) + 1] = m /\ DOMAIN log = 1 .. Len(log)
      BY <1>1, <3>1
    <3> HIDE DEF log
    <3>3. ToSet(Append(log, m)) = ToSet(log) \cup {m}
      <4>1. \A x \in ToSet(Append(log, m)) : \E i \in 1 .. (Len(log) + 1) : x = Append(log, m)[i]
        BY <3>2 DEF ToSet
      <4>2. \A x \in ToSet(Append(log, m)) : x \in ToSet(log) \cup {m}
        BY <3>2, <4>1 DEF ToSet
      <4>3. \A x \in ToSet(log) \cup {m} : x \in ToSet(Append(log, m))
        BY <3>2 DEF ToSet
      <4> QED
        BY <4>2, <4>3
    <3>4. \A x \in Stored(name)' : x \in Stored(name) \/ x = m
      BY <3>1, <3>3 DEF Stored, log
    <3>5. ASSUME ~ history.disabled PROVE FilesOrdered(name)'
      <4>1. FilesOrdered(name) /\ Before(Stored(name), Unwritten(t))
        BY <3>5 DEF OrderFits
      <4>2. \A x \in Stored(name) : x.from = m.from => x.n < m.n
        BY <1>4, <1>6, <4>1 DEF Before
      <4>3. ToSet(log) \subseteq Stored(name)
        BY DEF Stored, log
      <4>4. Ordered(Append(log, m))
        <5> SUFFICES ASSUME NEW i \in 1 .. (Len(log) + 1), NEW j \in 1 .. (Len(log) + 1), i < j,
                            Append(log, m)[i].from = Append(log, m)[j].from
                     PROVE  Append(log, m)[i].n < Append(log, m)[j].n
          BY <3>2 DEF Ordered
        <5>1. i \in 1 .. Len(log) /\ log[i] \in ToSet(log)
          BY <3>2 DEF ToSet
        <5>2. CASE j = Len(log) + 1
          BY <3>2, <4>2, <4>3, <5>1, <5>2
        <5>3. CASE j \in 1 .. Len(log)
          BY <3>2, <4>1, <5>1, <5>3 DEF FilesOrdered, Ordered, log
        <5> QED
          BY <3>2, <5>2, <5>3
      <4>5. ASSUME NEW i \in DOMAIN disk[name].backup
            PROVE  Before(ToSet(disk[name].backup[i]), ToSet(Append(log, m)))
        <5>1. ToSet(disk[name].backup[i]) \subseteq Stored(name)
          BY DEF Stored
        <5>2. Before(ToSet(disk[name].backup[i]), ToSet(log))
          BY <4>1 DEF FilesOrdered, log
        <5> QED
          BY <3>3, <4>2, <5>1, <5>2 DEF Before
      <4> QED
        BY <3>1, <4>1, <4>4, <4>5 DEF FilesOrdered, Ordered, Before
    <3> QED
      BY <3>4, <3>5
  <2>3. disk'[name] = disk[name] \/ (disk' = Written(m) /\ name = settings.name)
    BY <1>1, WrittenIs
  <2> QED
    BY <2>1, <2>2, <2>3
<1>13. budget.calls \in Nat /\ budget'.calls = budget.calls
  BY <1>2 DEF TypeOK, Budgets
<1>14. NumbersApart'
  <2>1. ASSUME NEW u \in Writers, NEW n \in Numbers(u)'
        PROVE  /\ n <= budget'.calls
               /\ \A v \in Writers : n \in Numbers(v)' => v = u
               /\ \A name \in Names : \A line \in Stored(name)' : line.n # n
    <3>1. /\ n \in Numbers(u) /\ n <= budget.calls
          /\ \A v \in Writers : n \in Numbers(v) => v = u
          /\ \A name \in Names : \A line \in Stored(name) : line.n # n
      BY <1>11 DEF BuffersFit, NumbersApart
    <3>2. n # m.n
      BY <1>4, <1>11, <3>1, <2>1
    <3> QED
      BY <1>11, <1>12, <1>13, <3>1, <3>2
  <2>2. m.n <= budget.calls /\ m.thread = m.from /\ m.shows = m.had
    BY <1>4, <1>7, <1>11 DEF BuffersFit, NumbersApart
  <2>3. ASSUME NEW name \in Names, NEW line \in Stored(name)'
        PROVE  line.n <= budget'.calls /\ line.thread = line.from /\ line.shows = line.had
    BY <1>12, <1>13, <2>2, <2>3 DEF BuffersFit, NumbersApart
  <2>4. settings'.bufferSize <= history'.largest
    BY <1>2, <1>3 DEF BuffersFit, NumbersApart
  <2> QED
    BY <2>1, <2>3, <2>4 DEF NumbersApart
<1>15. OwnMessages(t)'
  <2>1. Rising(Tail(q))
    BY <1>1, <1>5, RisingTail DEF OwnMessages
  <2>2. \A x \in ToSet(buffers[t]) \cup ToSet(Tail(q)) : x.from = t /\ x.logVars = x.had
    BY <1>5, <1>8 DEF OwnMessages
  <2>3. \A i \in DOMAIN buffers[t], j \in DOMAIN Tail(q) : buffers[t][i].n # Tail(q)[j].n
    <3>1. \A j \in DOMAIN Tail(q) : j + 1 \in DOMAIN q /\ Tail(q)[j] = q[j + 1]
      BY <1>1, <1>5, TailIs
    <3> QED
      BY <1>5, <3>1 DEF OwnMessages
  <2> QED
    BY SMTT(20), <1>1, <1>2, <1>3, <1>5, <2>1, <2>2, <2>3 DEF OwnMessages, Rising
<1>16. ASSUME NEW u \in Writers, u # t PROVE OwnMessages(u)'
  <2>1. thread'[u] = thread[u]
    BY <1>1, <1>16 DEF Threads
  <2>2. OwnMessages(u) /\ Shrinks(u) /\ Len(buffers[u]) <= history.largest
    BY <1>2, <2>1, SameShrinks DEF BuffersFit, OwnMessages
  <2> QED
    BY <1>2, <1>3, <2>2, OwnKept
<1>17. BuffersFit'
  BY <1>14, <1>15, <1>16 DEF BuffersFit
<1>18. OrderFits'
  <2> SUFFICES ASSUME ~ history.disabled
               PROVE  /\ \A name \in Names :
                           FilesOrdered(name)' /\ \A u \in Writers : Before(Stored(name), Unwritten(u))'
                      /\ settings.bufferSize = 0 => \A u \in Writers : buffers[u] = << >>
                      /\ \A u \in Writers : thread'[u].queue # << >> => buffers[u] = << >>
    BY <1>2, <1>3 DEF OrderFits
  <2>1. ASSUME NEW name \in Names, NEW u \in Writers PROVE Before(Stored(name)', Unwritten(u)')
    <3>1. Before(Stored(name), Unwritten(u))
      BY DEF OrderFits
    <3>2. \A y \in Unwritten(u)' : m.from = y.from => m.n < y.n
      <4>1. CASE u = t
        <5>1. ToSet(buffers[t]) = {}
          BY <1>1, EmptyIs DEF OrderFits
        <5> QED
          BY <1>4, <1>8, <1>10, <4>1, <5>1
      <4>2. CASE u # t
        <5>1. \A y \in Unwritten(u) : y.from = u
          BY UnwrittenMessages DEF BuffersFit
        <5> QED
          BY <1>4, <1>7, <1>10, <4>2, <5>1
      <4> QED
        BY <4>1, <4>2
    <3> QED
      BY <1>10, <1>12, <3>1, <3>2 DEF Before
  <2>2. \A u \in Writers : thread'[u].queue # << >> => buffers[u] = << >>
    BY <1>1 DEF OrderFits, Threads
  <2>3. settings.bufferSize = 0 => \A u \in Writers : buffers[u] = << >>
    BY DEF OrderFits
  <2> QED
    BY <1>12, <2>1, <2>2, <2>3 DEF Before
<1> QED
  BY <1>17, <1>18

-----------------------------------------------------------------------------
(* The inductive invariant.                                                *)

Inv == TypeOK /\ LocksFit /\ DiskInv /\ BuffersFit /\ OrderFits

LEMMA InitInv ==
  ASSUME Init
  PROVE  Inv
<1>1. /\ TypeOK /\ LocksFit /\ history.important = {} /\ history.largest = settings.bufferSize
      /\ \A name \in Names : /\ disk[name].log = << >> /\ disk[name].unflushed = 0
                              /\ DOMAIN disk[name].backup = {}
      /\ \A t \in Threads : thread[t].at = "idle" /\ thread[t].queue = << >>
      /\ \A t \in Writers : buffers[t] = << >>
  BY BaseInit
<1>2. settings.name \in Names /\ settings.bufferSize \in Nat
  BY <1>1, CurrentFiles
<1>3. DiskInv
  <2>1. Rotates
    BY <1>1 DEF Rotates, Threads
  <2>2. UnflushedFits
    BY <1>1, EmptyIs DEF UnflushedFits
  <2>3. NumbersFit
    BY <1>1, <1>2 DEF NumbersFit, Threads, Backup
  <2>4. ImportantFit
    BY <1>1 DEF ImportantFit
  <2> QED
    BY <2>1, <2>2, <2>3, <2>4 DEF DiskInv
<1>4. /\ \A t \in Writers : Unwritten(t) = {} /\ Numbers(t) = {}
      /\ \A name \in Names : Stored(name) = {}
  <2>1. \A t \in Writers : Unwritten(t) = {}
    BY <1>1, EmptyIs DEF Unwritten, Active, Threads
  <2>2. \A name \in Names : Stored(name) = {}
    BY <1>1, EmptyIs DEF Stored
  <2> QED
    BY <2>1, <2>2 DEF Numbers
<1>5. NumbersApart
  BY <1>1, <1>2, <1>4 DEF NumbersApart
<1>6. \A t \in Writers : OwnMessages(t)
  BY <1>1, <1>2, EmptyIs DEF OwnMessages, Rising, Threads
<1>7. BuffersFit
  BY <1>5, <1>6 DEF BuffersFit
<1>8. OrderFits
  BY <1>1, <1>4, EmptyIs DEF OrderFits, FilesOrdered, Ordered, Before
<1> QED
  BY <1>1, <1>3, <1>7, <1>8 DEF Inv

LEMMA NextInv ==
  ASSUME Inv, [Next]_vars
  PROVE  Inv'
<1>1. TypeOK /\ LocksFit /\ DiskInv /\ BuffersFit /\ OrderFits /\ Rotates /\ UnflushedFits
  BY DEF Inv, DiskInv
<1>2. TypeOK' /\ LocksFit' /\ DiskInv'
  BY <1>1, FilesNext DEF BuffersFit, OwnMessages
<1>3. SUFFICES BuffersFit' /\ OrderFits'
  BY <1>2 DEF Inv
<1>4. CASE \/ InstallMsgHandler \/ TimerEvent \/ Flush \/ OpenFile \/ OpenFails \/ CountBackups
           \/ RemovalEnds \/ UNCHANGED vars
  BY <1>1, <1>2, <1>4, QuietMain
<1>5. CASE RemoveBackup \/ RemoveFails \/ RenameBackup \/ RenameFails \/ RenameLog
  BY <1>1, <1>2, <1>5, QuietRotation
<1>6. CASE RefreshSettings
  BY <1>1, <1>2, <1>6, RefreshKeeps
<1>7. CASE Restart
  BY <1>1, <1>2, <1>7, RestartKeeps
<1>8. ASSUME NEW t \in Writers,
             \/ MsgHandler(t) \/ WriteFails(t) \/ LogReturns(t) \/ Abort(t)
             \/ \E value \in Values : Set(t, value)
             \/ \E buffer, variables \in BOOLEAN : Clear(t, buffer, variables)
      PROVE  BuffersFit' /\ OrderFits'
  BY <1>1, <1>2, <1>8, QuietWriters
<1>9. CASE MsgHandler(Main)
  <2>1. /\ Goto(Main, "log") /\ UNCHANGED <<settings, buffers, logVars, disk, budget, history>>
    BY <1>9 DEF MsgHandler
  <2>2. \A t \in Writers : Shrinks(t)
    BY <1>1, <2>1, OthersUnchanged, MainShrinks
  <2>3. FilesKept
    BY <1>1, <1>2, <2>1, FilesSame
  <2> QED
    BY <1>1, <1>2, <2>1, <2>2, <2>3, QuietKeeps
<1>10. ASSUME NEW t \in Writers, NEW level \in Levels, CallQt(t, level) \/ CallLog(t, level)
       PROVE  BuffersFit' /\ OrderFits'
  BY <1>1, <1>2, <1>10, CallKeeps
<1>11. ASSUME NEW t \in Writers, Log(t) PROVE BuffersFit' /\ OrderFits'
  BY <1>1, <1>2, <1>11, LogKeeps
<1>12. ASSUME NEW t \in Writers, WriteMessage(t) PROVE BuffersFit' /\ OrderFits'
  BY <1>1, <1>2, <1>12, WriteMessageKeeps
<1> QED
  BY <1>4, <1>5, <1>6, <1>7, <1>8, <1>9, <1>10, <1>11, <1>12 DEF Next, Threads

(* Types, locks, files and buffers fit together, whatever the threads log, *)
(* whenever the timers of the main thread fire, and wherever the program   *)
(* fails and is started again.                                             *)
THEOREM LoggersConsistent == Spec => []Inv
<1>1. Init => Inv
  BY InitInv
<1>2. Inv /\ [Next]_vars => Inv'
  BY NextInv
<1> QED
  BY <1>1, <1>2, PTL DEF Spec

-----------------------------------------------------------------------------
(* What the files keep.                                                    *)

LEMMA ConcatIs ==
  ASSUME NEW S, NEW s \in Seq(S), NEW t \in Seq(S)
  PROVE  /\ s \o t \in Seq(S) /\ \A x : x \in ToSet(s \o t) <=> x \in ToSet(s) \/ x \in ToSet(t)
         /\ Ordered(s) /\ Ordered(t) /\ Before(ToSet(s), ToSet(t)) => Ordered(s \o t)
<1> DEFINE c == s \o t
<1>1. /\ c \in Seq(S) /\ Len(s) \in Nat /\ Len(t) \in Nat
      /\ DOMAIN s = 1 .. Len(s) /\ DOMAIN t = 1 .. Len(t) /\ DOMAIN c = 1 .. (Len(s) + Len(t))
  OBVIOUS
<1>2. \A i \in DOMAIN s : i \in DOMAIN c /\ c[i] = s[i]
  BY <1>1
<1>3. \A i \in DOMAIN t : i + Len(s) \in DOMAIN c /\ c[i + Len(s)] = t[i]
  BY <1>1
<1> HIDE DEF c
<1>4. \A i \in DOMAIN c : i \in DOMAIN s \/ \E k \in DOMAIN t : i = k + Len(s)
  <2> SUFFICES ASSUME NEW i \in DOMAIN c, i \notin DOMAIN s
               PROVE  \E k \in DOMAIN t : i = k + Len(s)
    OBVIOUS
  <2>1. i - Len(s) \in DOMAIN t /\ i = (i - Len(s)) + Len(s)
    BY <1>1
  <2> QED
    BY <2>1
<1>5. \A x : x \in ToSet(c) <=> x \in ToSet(s) \/ x \in ToSet(t)
  <2>1. ASSUME NEW x \in ToSet(c) PROVE x \in ToSet(s) \/ x \in ToSet(t)
    <3>1. PICK i \in DOMAIN c : c[i] = x
      BY <2>1 DEF ToSet
    <3>2. CASE i \in DOMAIN s
      BY <1>2, <3>1, <3>2 DEF ToSet
    <3>3. CASE \E k \in DOMAIN t : i = k + Len(s)
      BY <1>3, <3>1, <3>3 DEF ToSet
    <3> QED
      BY <1>4, <3>2, <3>3
  <2>2. ASSUME NEW x, x \in ToSet(s) \/ x \in ToSet(t) PROVE x \in ToSet(c)
    BY <1>2, <1>3, <2>2 DEF ToSet
  <2> QED
    BY <2>1, <2>2
<1>6. ASSUME Ordered(s), Ordered(t), Before(ToSet(s), ToSet(t)) PROVE Ordered(c)
  <2> SUFFICES ASSUME NEW i \in DOMAIN c, NEW j \in DOMAIN c, i < j, c[i].from = c[j].from
               PROVE  c[i].n < c[j].n
    BY DEF Ordered
  <2>1. CASE i \in DOMAIN s /\ j \in DOMAIN s
    BY <1>2, <1>6, <2>1 DEF Ordered
  <2>2. ASSUME i \in DOMAIN s, NEW k \in DOMAIN t, j = k + Len(s) PROVE c[i].n < c[j].n
    <3>1. c[i] \in ToSet(s) /\ c[j] \in ToSet(t)
      BY <1>2, <1>3, <2>2 DEF ToSet
    <3> QED
      BY <1>6, <3>1 DEF Before
  <2>3. ASSUME NEW k \in DOMAIN t, i = k + Len(s), NEW l \in DOMAIN t, j = l + Len(s)
        PROVE  c[i].n < c[j].n
    <3>1. k < l
      BY <1>1, <2>3
    <3> QED
      BY <1>3, <1>6, <2>3, <3>1 DEF Ordered
  <2>4. ASSUME NEW k \in DOMAIN t, i = k + Len(s), j \in DOMAIN s PROVE FALSE
    BY <1>1, <2>4
  <2> QED
    BY <1>4, <2>1, <2>2, <2>3, <2>4
<1> QED
  BY <1>1, <1>5, <1>6 DEF c

(* The sequences that FlattenSeq builds one after the other. *)
Flattened(seqs, n, f) == f = [i \in 1 .. n |-> IF i = 1 THEN seqs[i] ELSE f[i - 1] \o seqs[i]]

LEMMA FlattenedExists ==
  ASSUME NEW seqs, NEW n \in Nat
  PROVE  \E f : Flattened(seqs, n, f)
<1> DEFINE T == {k \in Nat : \E f : Flattened(seqs, k, f)}
<1>1. 0 \in T
  <2> DEFINE f == [i \in 1 .. 0 |-> seqs[i]]
  <2>1. f = [i \in 1 .. 0 |-> IF i = 1 THEN seqs[i] ELSE f[i - 1] \o seqs[i]]
    OBVIOUS
  <2> QED
    BY <2>1 DEF Flattened
<1>2. ASSUME NEW k \in Nat, k \in T PROVE k + 1 \in T
  <2>1. PICK f : Flattened(seqs, k, f)
    BY <1>2
  <2> DEFINE g == [i \in 1 .. (k + 1) |-> IF i = 1 THEN seqs[i] ELSE f[i - 1] \o seqs[i]]
  <2>2. \A i \in 1 .. k : g[i] = f[i]
    <3>1. f = [i \in 1 .. k |-> IF i = 1 THEN seqs[i] ELSE f[i - 1] \o seqs[i]]
      BY <2>1 DEF Flattened
    <3>2. \A i \in 1 .. k : f[i] = IF i = 1 THEN seqs[i] ELSE f[i - 1] \o seqs[i]
      BY <3>1
    <3>3. \A i \in 1 .. k : i \in 1 .. (k + 1)
      OBVIOUS
    <3> QED
      BY <3>2, <3>3
  <2>3. \A i \in 1 .. (k + 1) : i # 1 => g[i - 1] = f[i - 1]
    <3>1. \A i \in 1 .. (k + 1) : i # 1 => i - 1 \in 1 .. k
      OBVIOUS
    <3> HIDE DEF g
    <3> QED
      BY <2>2, <3>1
  <2> DEFINE h == [i \in 1 .. (k + 1) |-> IF i = 1 THEN seqs[i] ELSE g[i - 1] \o seqs[i]]
  <2>4. \A i \in 1 .. (k + 1) : g[i] = h[i]
    BY <2>3
  <2>5. g = h
    BY <2>4
  <2>6. Flattened(seqs, k + 1, g)
    BY <2>5 DEF Flattened
  <2> QED
    BY <2>6
<1> HIDE DEF T
<1>3. Nat \subseteq T
  BY <1>1, <1>2, NaturalsFollow
<1> QED
  BY <1>3 DEF T

LEMMA FlattenIs ==
  ASSUME NEW S, NEW seqs \in Seq(Seq(S))
  PROVE  /\ FlattenSeq(seqs) \in Seq(S)
         /\ \A x : x \in ToSet(FlattenSeq(seqs)) <=> \E j \in 1 .. Len(seqs) : x \in ToSet(seqs[j])
         /\ (/\ \A j \in 1 .. Len(seqs) : Ordered(seqs[j])
             /\ \A i, j \in 1 .. Len(seqs) : i < j => Before(ToSet(seqs[i]), ToSet(seqs[j])))
            => Ordered(FlattenSeq(seqs))
<1> DEFINE n == Len(seqs)
           InOrder == /\ \A j \in 1 .. n : Ordered(seqs[j])
                      /\ \A i, j \in 1 .. n : i < j => Before(ToSet(seqs[i]), ToSet(seqs[j]))
<1>1. n \in Nat /\ \A j \in 1 .. n : seqs[j] \in Seq(S)
  OBVIOUS
<1>2. CASE n = 0
  <2>1. seqs = << >> /\ FlattenSeq(seqs) = << >>
    BY <1>2 DEF FlattenSeq
  <2>2. << >> \in Seq(S) /\ Ordered(<< >>) /\ ToSet(<< >>) = {} /\ 1 .. n = {}
    BY <1>2, EmptyIs DEF Ordered
  <2> QED
    BY <2>1, <2>2
<1>3. CASE n # 0
  <2> DEFINE f == CHOOSE f : Flattened(seqs, n, f)
  <2>1. Flattened(seqs, n, f)
    BY <1>1, FlattenedExists
  <2>2. FlattenSeq(seqs) = f[n]
    BY <1>3 DEF FlattenSeq, Flattened
  <2> HIDE DEF f, n
  <2>3. /\ f[1] = seqs[1]
        /\ \A k \in 1 .. n : k # 1 => f[k] = f[k - 1] \o seqs[k]
    <3>1. f = [i \in 1 .. n |-> IF i = 1 THEN seqs[i] ELSE f[i - 1] \o seqs[i]]
      BY <2>1 DEF Flattened
    <3>2. \A i \in 1 .. n : f[i] = IF i = 1 THEN seqs[i] ELSE f[i - 1] \o seqs[i]
      BY <3>1
    <3>3. 1 \in 1 .. n
      BY <1>1, <1>3
    <3> QED
      BY <3>2, <3>3
  <2> DEFINE P(k) == /\ f[k] \in Seq(S)
                     /\ \A x : x \in ToSet(f[k]) <=> \E j \in 1 .. k : x \in ToSet(seqs[j])
                     /\ InOrder => Ordered(f[k])
             T == {k \in Nat : k + 1 \in 1 .. n => P(k + 1)}
  <2>4. P(1)
    <3>1. 1 \in 1 .. n /\ 1 .. 1 = {1}
      BY <1>1, <1>3
    <3> QED
      BY <1>1, <2>3, <3>1
  <2>5. 0 \in T
    BY <2>4
  <2>6. ASSUME NEW k \in Nat, k + 1 \in 1 .. n => P(k + 1), k + 2 \in 1 .. n PROVE P(k + 2)
    <3>1. /\ k + 1 \in 1 .. n /\ k + 2 # 1 /\ (k + 2) - 1 = k + 1
          /\ 1 .. (k + 2) = 1 .. (k + 1) \cup {k + 2}
          /\ \A j \in 1 .. (k + 1) : j \in 1 .. n /\ j < k + 2
      BY <1>1, <2>6
    <3>2. f[k + 2] = f[k + 1] \o seqs[k + 2] /\ P(k + 1) /\ seqs[k + 2] \in Seq(S)
      BY <1>1, <2>3, <2>6, <3>1
    <3>3. f[k + 1] \in Seq(S) /\ \A x : x \in ToSet(f[k + 1]) <=> \E j \in 1 .. (k + 1) : x \in ToSet(seqs[j])
      BY <3>2
    <3>4. f[k + 2] \in Seq(S) /\ \A x : x \in ToSet(f[k + 2]) <=> x \in ToSet(f[k + 1]) \/ x \in ToSet(seqs[k + 2])
      BY <3>2, <3>3, ConcatIs
    <3>5. \A x : x \in ToSet(f[k + 2]) <=> \E j \in 1 .. (k + 2) : x \in ToSet(seqs[j])
      BY <3>1, <3>3, <3>4
    <3>6. ASSUME InOrder PROVE Ordered(f[k + 2])
      <4>1. Ordered(f[k + 1]) /\ Ordered(seqs[k + 2])
        BY <2>6, <3>2, <3>6
      <4>2. \A j \in 1 .. (k + 1) : Before(ToSet(seqs[j]), ToSet(seqs[k + 2]))
        BY <2>6, <3>1, <3>6
      <4>3. Before(ToSet(f[k + 1]), ToSet(seqs[k + 2]))
        BY <3>3, <4>2 DEF Before
      <4> QED
        BY <3>2, <3>3, <4>1, <4>3, ConcatIs
    <3> QED
      BY <3>4, <3>5, <3>6
  <2>7. ASSUME NEW k \in Nat, k \in T PROVE k + 1 \in T
    <3>1. (k + 1) + 1 = k + 2 /\ k + 1 \in Nat
      OBVIOUS
    <3>2. k + 2 \in 1 .. n => P(k + 2)
      BY <2>6, <2>7
    <3> HIDE DEF P
    <3> QED
      BY <3>1, <3>2
  <2> HIDE DEF T, P
  <2>8. Nat \subseteq T
    BY <2>5, <2>7, NaturalsFollow
  <2>9. n - 1 \in Nat /\ (n - 1) + 1 = n /\ n \in 1 .. n
    BY <1>1, <1>3
  <2>10. P(n)
    BY <2>8, <2>9 DEF T
  <2> QED
    BY <2>2, <2>10 DEF P, n
<1> QED
  BY <1>2, <1>3

(* The kept lines are the stored ones, and in order if the files are.      *)
LEMMA KeptIs ==
  ASSUME TypeOK, NEW name \in Names
  PROVE  /\ Kept(name) \in Seq(Lines) /\ ToSet(Kept(name)) = Stored(name)
         /\ FilesOrdered(name) => Ordered(Kept(name))
<1> DEFINE b == disk[name].backup
           log == disk[name].log
           parts == [i \in 1 .. Files |->
                       IF Files + 1 - i \in DOMAIN b THEN b[Files + 1 - i] ELSE << >>]
           flat == FlattenSeq(parts)
<1>1. Kept(name) = flat \o log
  BY DEF Kept
<1>2. /\ b \in Backups /\ log \in Seq(Lines) /\ Files \in Nat
      /\ DOMAIN b \subseteq 1 .. Files /\ \A i \in DOMAIN b : b[i] \in Seq(Lines)
  <2>1. b \in Backups /\ log \in Seq(Lines)
    BY DEF TypeOK, DiskStates
  <2> QED
    BY <2>1, BackupsAre, ConstantsAssumption
<1> HIDE DEF b, log
<1>3. /\ parts \in Seq(Seq(Lines)) /\ Len(parts) = Files
      /\ \A i \in 1 .. Files : parts[i] = IF Files + 1 - i \in DOMAIN b THEN b[Files + 1 - i] ELSE << >>
  <2>1. << >> \in Seq(Lines)
    OBVIOUS
  <2>2. \A i \in 1 .. Files : (IF Files + 1 - i \in DOMAIN b THEN b[Files + 1 - i] ELSE << >>) \in Seq(Lines)
    BY <1>2, <2>1
  <2> QED
    BY <1>2, <2>2
<1> HIDE DEF parts
<1>4. /\ flat \in Seq(Lines)
      /\ \A x : x \in ToSet(flat) <=> \E j \in 1 .. Len(parts) : x \in ToSet(parts[j])
      /\ (/\ \A j \in 1 .. Len(parts) : Ordered(parts[j])
          /\ \A i, j \in 1 .. Len(parts) : i < j => Before(ToSet(parts[i]), ToSet(parts[j])))
         => Ordered(flat)
  BY <1>3, FlattenIs
<1> HIDE DEF flat
<1>5. \A x : x \in ToSet(flat) <=> \E i \in DOMAIN b : x \in ToSet(b[i])
  <2>1. ASSUME NEW x, NEW j \in 1 .. Files, x \in ToSet(parts[j]) PROVE \E i \in DOMAIN b : x \in ToSet(b[i])
    BY <1>3, <2>1, EmptyIs
  <2>2. ASSUME NEW x, NEW i \in DOMAIN b, x \in ToSet(b[i]) PROVE \E j \in 1 .. Files : x \in ToSet(parts[j])
    <3>1. i \in 1 .. Files
      BY <1>2
    <3>2. Files + 1 - i \in 1 .. Files /\ Files + 1 - (Files + 1 - i) = i
      BY <1>2, <3>1
    <3>3. parts[Files + 1 - i] = b[i]
      BY <1>3, <3>2, <2>2
    <3> QED
      BY <2>2, <3>2, <3>3
  <2> QED
    BY <1>3, <1>4, <2>1, <2>2
<1>6. /\ Kept(name) \in Seq(Lines)
      /\ \A x : x \in ToSet(Kept(name)) <=> x \in ToSet(flat) \/ x \in ToSet(log)
      /\ Ordered(flat) /\ Ordered(log) /\ Before(ToSet(flat), ToSet(log)) => Ordered(Kept(name))
  BY <1>1, <1>2, <1>4, ConcatIs
<1>7. ToSet(Kept(name)) = Stored(name)
  <2>1. \A x : x \in ToSet(Kept(name)) <=> x \in Stored(name)
    BY <1>5, <1>6, StoredIs DEF b, log
  <2> QED
    BY <2>1
<1>8. ASSUME FilesOrdered(name) PROVE Ordered(Kept(name))
  <2>1. /\ Ordered(log)
        /\ \A i \in DOMAIN b :
             /\ Ordered(b[i]) /\ Before(ToSet(b[i]), ToSet(log))
             /\ \A j \in DOMAIN b : j < i => Before(ToSet(b[i]), ToSet(b[j]))
    BY <1>8 DEF FilesOrdered, b, log
  <2>2. Before(ToSet(flat), ToSet(log))
    BY <1>5, <2>1 DEF Before
  <2>3. Ordered(<< >>) /\ ToSet(<< >>) = {}
    BY EmptyIs DEF Ordered
  <2>4. \A j \in 1 .. Files : Ordered(parts[j])
    BY <1>3, <2>1, <2>3
  <2>5. ASSUME NEW i \in 1 .. Files, NEW j \in 1 .. Files, i < j
        PROVE  Before(ToSet(parts[i]), ToSet(parts[j]))
    <3>1. CASE Files + 1 - i \in DOMAIN b /\ Files + 1 - j \in DOMAIN b
      <4>1. Files + 1 - j < Files + 1 - i
        BY <1>2, <2>5
      <4>2. parts[i] = b[Files + 1 - i] /\ parts[j] = b[Files + 1 - j]
        BY <1>3, <3>1
      <4> QED
        BY <2>1, <3>1, <4>1, <4>2
    <3>2. CASE ~ (Files + 1 - i \in DOMAIN b /\ Files + 1 - j \in DOMAIN b)
      <4>1. ToSet(parts[i]) = {} \/ ToSet(parts[j]) = {}
        BY <1>3, <2>3, <3>2
      <4> QED
        BY <4>1 DEF Before
    <3> QED
      BY <3>1, <3>2
  <2>6. Ordered(flat)
    BY <1>3, <1>4, <2>4, <2>5
  <2> QED
    BY <1>6, <2>1, <2>2, <2>6
<1> QED
  BY <1>6, <1>7, <1>8

-----------------------------------------------------------------------------
(* A thread that holds a mutex waits for none, unless open() warns.        *)
LEMMA HoldersGoOn ==
  ASSUME LocksFit, ~ OpenWarns, NEW t \in Threads, mutex = t, NEW lock
  PROVE  ~ Wants(t, lock)
<1>1. CASE t \in Writers
  BY <1>1 DEF LocksFit, Wants
<1>2. CASE t = Main
  BY <1>2 DEF LocksFit, OpenWarns, MutexPlaces, Wants
<1> QED
  BY <1>1, <1>2 DEF Threads

LEMMA NobodyStuckHolds ==
  ASSUME Inv
  PROVE  NobodyStuck
<1> SUFFICES ASSUME ~ OpenWarns, NEW t \in Threads, NEW u \in Threads, WaitsFor(t, u), WaitsFor(u, t)
             PROVE  FALSE
  BY DEF NobodyStuck
<1>1. LocksFit /\ t # None /\ u # None
  BY ConstantsAssumption DEF Inv, Threads
<1>2. (handler = u /\ handler = t) \/ mutex = u \/ mutex = t
  BY DEF WaitsFor, Holder
<1>3. (\E lock : Wants(t, lock)) /\ (\E lock : Wants(u, lock))
  BY DEF WaitsFor
<1>4. mutex # u /\ mutex # t
  BY <1>1, <1>3, HoldersGoOn
<1>5. handler = t /\ thread[t].at = "handler"
  BY <1>2, <1>4 DEF WaitsFor, Wants, Holder
<1> QED
  BY <1>1, <1>5 DEF LocksFit

LEMMA BackupsLimitedHolds ==
  ASSUME Inv
  PROVE  BackupsLimited
<1> SUFFICES ASSUME ~ history.faulty
             PROVE  /\ history.rotated /\ settings.maxBackups > 0 =>
                         Cardinality({i \in 1 .. Files : Exists(i)}) <= settings.maxBackups
                    /\ mutex # Main => \A i \in 2 .. Files : Exists(i) => Exists(i - 1)
  BY DEF BackupsLimited
<1>1. TypeOK /\ LocksFit /\ NumbersFit
  BY DEF Inv, DiskInv
<1>2. settings.maxBackups \in Nat /\ settings.name \in Names /\ Files \in Nat
  BY <1>1, CurrentFiles, ConstantsAssumption
<1>3. ASSUME history.rotated, settings.maxBackups > 0
      PROVE  Cardinality({i \in 1 .. Files : Exists(i)}) <= settings.maxBackups
  <2> DEFINE numbers == {i \in 1 .. Files : Exists(i)}
  <2>1. \A i \in DOMAIN Backup : i <= settings.maxBackups
    BY <1>1, <1>3 DEF NumbersFit
  <2>2. numbers \subseteq 1 .. settings.maxBackups
    BY <1>2, <2>1 DEF Exists
  <2>3. /\ IsFiniteSet(1 .. settings.maxBackups)
        /\ Cardinality(1 .. settings.maxBackups) = settings.maxBackups
    <3> DEFINE k == settings.maxBackups
    <3>1. k \in Int /\ 1 \in Int /\ ~ (1 > k) /\ k - 1 + 1 = k
      BY <1>2, <1>3
    <3> HIDE DEF k
    <3>2. IsFiniteSet(1 .. k) /\ Cardinality(1 .. k) = k
      BY <3>1, FS_Interval
    <3> QED
      BY <3>2 DEF k
  <2> HIDE DEF numbers
  <2>4. Cardinality(numbers) <= Cardinality(1 .. settings.maxBackups)
    BY <2>2, <2>3, FS_Subset
  <2> QED
    BY <2>3, <2>4 DEF numbers
<1>4. ASSUME mutex # Main, NEW i \in 2 .. Files, Exists(i) PROVE Exists(i - 1)
  <2>1. thread[Main].at # "rename"
    BY <1>1, <1>4 DEF LocksFit
  <2>2. i \in DOMAIN disk[settings.name].backup /\ i - 1 \in 1 .. i
    BY <1>2, <1>4 DEF Exists, Backup
  <2>3. i - 1 \in DOMAIN disk[settings.name].backup
    BY <1>1, <1>2, <2>1, <2>2 DEF NumbersFit
  <2> QED
    BY <2>3 DEF Exists, Backup
<1> QED
  BY <1>3, <1>4

LEMMA ImportantMessagesKeptHolds ==
  ASSUME Inv
  PROVE  ImportantMessagesKept
<1>1. TypeOK /\ ImportantFit
  BY DEF Inv, DiskInv
<1>2. ASSUME NEW name \in Names, NEW x \in Safe(name) PROVE x \in ToSet(Kept(name))
  <2>1. CASE \E i \in DOMAIN disk[name].backup : x \in ToSet(disk[name].backup[i])
    BY <1>1, <2>1, KeptIs, StoredIs
  <2>2. CASE \E p \in 1 .. SafePart(name) : disk[name].log[p] = x
    <3>1. PICK p \in 1 .. SafePart(name) : disk[name].log[p] = x
      BY <2>2
    <3>2. disk[name].log \in Seq(Lines) /\ disk[name].unflushed \in Nat
      BY <1>1 DEF TypeOK, DiskStates
    <3>3. Len(disk[name].log) \in Nat /\ SafePart(name) = Len(disk[name].log) - disk[name].unflushed
      BY <3>2 DEF SafePart
    <3>4. p \in 1 .. Len(disk[name].log)
      BY <3>1, <3>2, <3>3
    <3>5. x \in ToSet(disk[name].log)
      BY <3>1, <3>2, <3>4, ToSetIs
    <3> QED
      BY <1>1, <3>5, KeptIs, StoredIs
  <2> QED
    BY <1>2, <2>1, <2>2, SafeIs
<1> QED
  BY <1>1, <1>2 DEF ImportantMessagesKept, ImportantFit

LEMMA BuffersApartHolds ==
  ASSUME Inv
  PROVE  BuffersApart
<1>1. TypeOK /\ NumbersApart /\ \A t \in Writers : OwnMessages(t)
  BY DEF Inv, BuffersFit
<1>2. \A name \in Names : ToSet(Kept(name)) = Stored(name)
  BY <1>1, KeptIs
<1>3. ASSUME NEW t \in Writers
      PROVE  /\ Len(buffers[t]) <= history.largest
             /\ \A i \in DOMAIN buffers[t] :
                  /\ buffers[t][i].from = t
                  /\ \A name \in Names : \A line \in ToSet(Kept(name)) : line.n # buffers[t][i].n
  <2>1. ASSUME NEW i \in DOMAIN buffers[t]
        PROVE  buffers[t][i] \in ToSet(buffers[t]) /\ buffers[t][i].n \in Numbers(t)
    <3>1. buffers[t][i] \in ToSet(buffers[t])
      BY DEF ToSet
    <3> QED
      BY <3>1 DEF Numbers, Unwritten
  <2> QED
    BY <1>1, <1>2, <2>1 DEF OwnMessages, NumbersApart
<1>4. \A name \in Names : \A line \in ToSet(Kept(name)) :
        line.thread = line.from /\ line.shows = line.had
  BY <1>1, <1>2 DEF NumbersApart
<1> QED
  BY <1>3, <1>4 DEF BuffersApart

LEMMA MessagesInOrderHolds ==
  ASSUME Inv
  PROVE  MessagesInOrder
<1>1. \A name \in Names : ~ history.disabled => Ordered(Kept(name))
  BY KeptIs DEF Inv, OrderFits
<1> QED
  BY <1>1 DEF MessagesInOrder, Ordered

(* "Allow recursive calls, which is required to prevent a deadlock": no    *)
(* thread waits for a mutex that it holds and no two wait for each other,  *)
(* unless open() warns in the timers.                                      *)
THEOREM NobodyStuckAlways == Spec => []NobodyStuck
<1>1. Inv => NobodyStuck
  BY NobodyStuckHolds
<1> QED
  BY <1>1, LoggersConsistent, PTL

(* After a rotation there are not more backups than maxBackups, and none   *)
(* is missing between two others, unless the file system failed or the     *)
(* program was restarted.                                                  *)
THEOREM BackupsLimitedAlways == Spec => []BackupsLimited
<1>1. Inv => BackupsLimited
  BY BackupsLimitedHolds
<1> QED
  BY <1>1, LoggersConsistent, PTL

(* A critical message that was written is on the disk, or went with a      *)
(* backup that was removed, wherever the program ended.                    *)
THEOREM ImportantMessagesKeptAlways == Spec => []ImportantMessagesKept
<1>1. Inv => ImportantMessagesKept
  BY ImportantMessagesKeptHolds
<1> QED
  BY <1>1, LoggersConsistent, PTL

(* Buffers hold their thread's own messages, not more than were allowed,   *)
(* and none that is in a file; lines show the thread that logged them and  *)
(* the variables that it had.                                              *)
THEOREM BuffersApartAlways == Spec => []BuffersApart
<1>1. Inv => BuffersApart
  BY BuffersApartHolds
<1> QED
  BY <1>1, LoggersConsistent, PTL

(* The messages of a thread stand in the files in the order in which they  *)
(* were logged, and none twice, unless a buffer was switched off.          *)
THEOREM MessagesInOrderAlways == Spec => []MessagesInOrder
<1>1. Inv => MessagesInOrder
  BY MessagesInOrderHolds
<1> QED
  BY <1>1, LoggersConsistent, PTL
=============================================================================
