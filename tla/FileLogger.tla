----------------------------- MODULE FileLogger -----------------------------
(***************************************************************************)
(* Logger and FileLogger: threads log messages through the message handler *)
(* of Qt or directly, the main thread flushes, rotates and reopens the     *)
(* file when its timers fire, and the program may end at any time and be   *)
(* started again on the files that it left.                                *)
(*                                                                         *)
(* The static mutex of Logger guards everything but the message handler,   *)
(* which has a recursive mutex of its own.                                 *)
(***************************************************************************)
EXTENDS Naturals, Sequences, SequencesExt, FiniteSetsExt

CONSTANTS
  Writers,      \* threads that log
  Main,         \* the thread that runs the timers
  None,         \* no thread
  Names,        \* names of log files
  Configs,      \* contents of the config file, [name, maxSize, maxBackups, minLevel, bufferSize]
  Values,       \* values of the variable that set() sets
  NoValue,      \* the variable is not set
  Levels,       \* types of messages: 0 debug, 1 warning, 2 critical, 3 fatal, 4 info
  Files,        \* bound: numbers of backup files
  MaxCalls,     \* bound: calls that log a message or set a variable
  MaxChanges,   \* bound: changes of the config file
  MaxFaults     \* bound: failures of the file system and restarts

ASSUME ConstantsAssumption ==
  /\ Main \notin Writers /\ None \notin Writers \cup {Main}
  /\ MaxCalls \in Nat /\ MaxChanges \in Nat /\ MaxFaults \in Nat
  /\ Files \in Nat

(* A negative number in the config file means what 0 means. *)
ASSUME SettingsAssumption ==
  /\ Configs \subseteq [name : Names, maxSize : Nat, maxBackups : Nat, minLevel : Nat,
                        bufferSize : Nat]
  /\ Levels \subseteq Nat

Threads == Writers \cup {Main}
Critical == 2
Fatal == 3

VARIABLES
  program,        \* "running", "aborted", "crashed"
  settings,       \* what refreshSettings has loaded
  defaultLogger,  \* is the logger installed as the message handler?
  handler,        \* the thread that holds recursiveMutex, or None
  mutex,          \* the thread that holds Logger::mutex, or None
  thread,         \* where a thread is: [at, message, queue]
  buffers,        \* the thread-local buffers
  logVars,        \* the thread-local variables
  file,           \* is `file' an open file, not 0?
  disk,           \* of each name: [log, unflushed, backup]; backup[i] is there if the file is
  count,          \* the local variable of rotate
  budget,         \* [calls, changes, faults] used so far
  history         \* what the properties look back on

vars == <<program, settings, defaultLogger, handler, mutex, thread, buffers, logVars,
          file, disk, count, budget, history>>

Idle == [at |-> "idle", message |-> << >>, queue |-> << >>]
NewDisk == [log |-> << >>, unflushed |-> 0, backup |-> << >>]

(***************************************************************************)
(* important: messages of level Critical or Fatal that were written to a   *)
(* file.  removed: messages in backups that rotate removed.  faulty: the   *)
(* file system failed or the program was restarted.  disabled: the buffer  *)
(* was switched off while it had messages.  rotated: there was a rotation  *)
(* since the settings were loaded.  largest: bufferSize was not larger.    *)
(***************************************************************************)
Init ==
  /\ program = "running"
  /\ settings \in Configs
  /\ defaultLogger = FALSE
  /\ handler = None /\ mutex = None
  /\ thread = [t \in Threads |-> Idle]
  /\ buffers = [t \in Writers |-> << >>]
  /\ logVars = [t \in Writers |-> NoValue]
  /\ file \in BOOLEAN
  /\ disk = [name \in Names |-> NewDisk]
  /\ count = 0
  /\ budget = [calls |-> 0, changes |-> 0, faults |-> 0]
  /\ history = [important |-> {}, removed |-> {}, faulty |-> FALSE, disabled |-> FALSE,
                rotated |-> FALSE, largest |-> settings.bufferSize]

Running(t, place) == program = "running" /\ thread[t].at = place
Goto(t, place) == thread' = [thread EXCEPT ![t].at = place]
Return(t) == thread' = [thread EXCEPT ![t] = Idle]

Fault ==
  /\ budget.faults < MaxFaults
  /\ budget' = [budget EXCEPT !.faults = @ + 1]
-----------------------------------------------------------------------------
(***************************************************************************)
(* Logging.  A message is numbered in the order of the calls.  `from' and  *)
(* `had' are history: the thread that called, and its variable then.       *)
(* `logVars' is the copy of the variables that the message keeps.          *)
(***************************************************************************)
InstallMsgHandler ==
  /\ Running(Main, "idle") /\ ~ defaultLogger
  /\ defaultLogger' = TRUE
  /\ UNCHANGED <<program, settings, handler, mutex, thread, buffers, logVars, file, disk,
                 count, budget, history>>

(* A thread calls qDebug and the like, or log of the logger. *)
Call(t, level, place) ==
  /\ Running(t, "idle")
  /\ budget.calls < MaxCalls
  /\ budget' = [budget EXCEPT !.calls = @ + 1]
  /\ thread' = [thread EXCEPT ![t] =
       [at |-> place, queue |-> << >>,
        message |-> [n |-> budget.calls + 1, from |-> t, level |-> level,
                     had |-> logVars[t], logVars |-> NoValue]]]
  /\ UNCHANGED <<program, settings, defaultLogger, handler, mutex, buffers, logVars, file,
                 disk, count, history>>

CallQt(t, level) == defaultLogger /\ Call(t, level, "handler")

(* log does with a fatal message what it does with a critical one. *)
CallLog(t, level) == level # Fatal /\ Call(t, level, "log")

(***************************************************************************)
(* msgHandler.  Nobody who holds recursiveMutex comes here again, so that  *)
(* nonRecursiveMutex is free.                                              *)
(***************************************************************************)
MsgHandler(t) ==
  /\ Running(t, "handler") /\ handler = None
  /\ handler' = t
  /\ Goto(t, "log")
  /\ UNCHANGED <<program, settings, defaultLogger, mutex, buffers, logVars, file, disk,
                 count, budget, history>>

(* The constructor of LogMessage copies the variables. *)
LogMessage(t) == [thread[t].message EXCEPT !.logVars = logVars[t]]

\* Mutant: the line has the variables of the thread that writes it.
toStringLate(m, t) ==
  [n |-> m.n, from |-> m.from, level |-> m.level, had |-> m.had,
   thread |-> t, shows |-> logVars[t]]

(* A line: it shows the thread that writes it and the variables that the   *)
(* message has kept.                                                       *)
toString(m, t) ==
  [n |-> m.n, from |-> m.from, level |-> m.level, had |-> m.had,
   thread |-> t, shows |-> m.logVars]

(* The buffer with one more message, without the oldest if it is too large. *)
Buffered(t) ==
  LET longer == Append(buffers[t], LogMessage(t))
  IN  IF Len(longer) > settings.bufferSize THEN Tail(longer) ELSE longer

(* log up to its loop. *)
Log(t) ==
  LET m == LogMessage(t)
      writes == m.level >= settings.minLevel
  IN
  /\ Running(t, "log") /\ mutex = None
  /\ mutex' = t
  /\ IF settings.bufferSize > 0
     THEN /\ buffers' = [buffers EXCEPT ![t] = IF writes THEN << >> ELSE Buffered(t)]
          /\ thread' = [thread EXCEPT ![t].at = "writing",
                          ![t].queue = IF writes THEN Buffered(t) ELSE << >>]
     ELSE /\ thread' = [thread EXCEPT ![t].at = "writing",
                          ![t].queue = IF writes THEN <<m>> ELSE << >>]
          /\ UNCHANGED buffers
  /\ UNCHANGED <<program, settings, defaultLogger, handler, logVars, file, disk, count,
                 budget, history>>

\* Mutant: only fatal messages are flushed.
WrittenLate(m) ==
  LET d == disk[settings.name]
  IN  [disk EXCEPT ![settings.name] =
         [d EXCEPT !.log = Append(@, m),
                   !.unflushed = IF m.level > Critical THEN 0 ELSE @ + 1]]

(* The files after a message was written; important messages are flushed. *)
Written(m) ==
  LET d == disk[settings.name]
  IN  [disk EXCEPT ![settings.name] =
         [d EXCEPT !.log = Append(@, m),
                   !.unflushed = IF m.level >= Critical THEN 0 ELSE @ + 1]]

\* Mutant: the buffer is written from its end.
WriteLastMessage(t) ==
  LET m == toString(Last(thread[t].queue), t) IN
  /\ Running(t, "writing") /\ thread[t].queue # << >>
  /\ thread' = [thread EXCEPT ![t].queue = Front(@)]
  /\ IF file
     THEN /\ disk' = Written(m)
          /\ history' = IF m.level >= Critical
                        THEN [history EXCEPT !.important = @ \cup {m}] ELSE history
     ELSE UNCHANGED <<disk, history>>
  /\ UNCHANGED <<program, settings, defaultLogger, handler, mutex, buffers, logVars, file,
                 count, budget>>

(* One turn of the loop of log: write. *)
WriteMessage(t) ==
  LET m == toString(Head(thread[t].queue), t) IN
  /\ Running(t, "writing") /\ thread[t].queue # << >>
  /\ thread' = [thread EXCEPT ![t].queue = Tail(@)]
  /\ IF file
     THEN /\ disk' = Written(m)
          /\ history' = IF m.level >= Critical
                        THEN [history EXCEPT !.important = @ \cup {m}] ELSE history
     ELSE UNCHANGED <<disk, history>>
  /\ UNCHANGED <<program, settings, defaultLogger, handler, mutex, buffers, logVars, file,
                 count, budget>>

(* What is not flushed is lost when the program ends. *)
Lost ==
  [name \in Names |->
     [disk[name] EXCEPT !.log = SubSeq(@, 1, Len(@) - disk[name].unflushed), !.unflushed = 0]]

(***************************************************************************)
(* Writing failed: close() sets file to 0, and its error is read then.     *)
(***************************************************************************)
WriteFails(t) ==
  /\ Running(t, "writing") /\ thread[t].queue # << >> /\ file
  /\ Fault
  /\ file' = FALSE
  /\ program' = "crashed" /\ disk' = Lost
  /\ history' = [history EXCEPT !.faulty = TRUE]
  /\ UNCHANGED <<settings, defaultLogger, handler, mutex, thread, buffers, logVars, count>>

(* log returns to the application or to msgHandler, which returns, too. *)
LogReturns(t) ==
  /\ Running(t, "writing") /\ thread[t].queue = << >>
  /\ mutex' = None
  /\ IF handler = t /\ thread[t].message.level = Fatal
     THEN Goto(t, "abort") /\ UNCHANGED handler
     ELSE Return(t) /\ handler' = IF handler = t THEN None ELSE handler
  /\ UNCHANGED <<program, settings, defaultLogger, buffers, logVars, file, disk, count, budget,
                 history>>

(* The end of msgHandler after a fatal message. *)
Abort(t) ==
  /\ Running(t, "abort")
  /\ program' = "aborted" /\ disk' = Lost
  /\ UNCHANGED <<settings, defaultLogger, handler, mutex, thread, buffers, logVars, file, count,
                 budget, history>>

(* set, of the calling thread's variable. *)
Set(t, value) ==
  /\ Running(t, "idle") /\ mutex = None
  /\ logVars[t] # value
  /\ budget.calls < MaxCalls
  /\ budget' = [budget EXCEPT !.calls = @ + 1]
  /\ logVars' = [logVars EXCEPT ![t] = value]
  /\ UNCHANGED <<program, settings, defaultLogger, handler, mutex, thread, buffers, file,
                 disk, count, history>>

(* clear, with the buffer and the variables of the calling thread. *)
Clear(t, buffer, variables) ==
  /\ Running(t, "idle") /\ mutex = None
  /\ buffers' = IF buffer THEN [buffers EXCEPT ![t] = << >>] ELSE buffers
  /\ logVars' = IF variables THEN [logVars EXCEPT ![t] = NoValue] ELSE logVars
  /\ UNCHANGED <<program, settings, defaultLogger, handler, mutex, thread, file,
                 disk, count, budget, history>>
-----------------------------------------------------------------------------
(***************************************************************************)
(* The timers.                                                             *)
(***************************************************************************)
(* timerEvent reads `file' before it has the mutex. *)
TimerEvent ==
  /\ Running(Main, "idle")
  /\ \/ budget.changes < MaxChanges /\ Goto(Main, "refresh")
     \/ file /\ Goto(Main, "flush")
  /\ UNCHANGED <<program, settings, defaultLogger, handler, mutex, buffers, logVars, file,
                 disk, count, budget, history>>

(* open and close move no message: an open file that is closed is flushed. *)
Flushed(name) == [disk EXCEPT ![name].unflushed = 0]

(* The config file was changed; an unchanged one changes nothing. *)
RefreshSettings ==
  /\ Running(Main, "refresh") /\ mutex = None
  /\ budget' = [budget EXCEPT !.changes = @ + 1]
  /\ settings' \in Configs \ {settings}
  /\ IF settings'.name # settings.name
     THEN /\ mutex' = Main /\ file' = FALSE
          /\ disk' = IF file THEN Flushed(settings.name) ELSE disk
          /\ Goto(Main, "open")
     ELSE Return(Main) /\ UNCHANGED <<mutex, file, disk>>
  /\ history' = [history EXCEPT
       !.disabled = @ \/ (settings'.bufferSize = 0 /\ \E t \in Writers : buffers[t] # << >>),
       !.rotated = FALSE,
       !.largest = IF settings'.bufferSize > @ THEN settings'.bufferSize ELSE @]
  /\ UNCHANGED <<program, defaultLogger, handler, buffers, logVars, count>>

TooLarge == settings.maxSize > 0 /\ Len(disk[settings.name].log) >= settings.maxSize

\* Mutant: the mutex is unlocked only after a rotation.
FlushLocked ==
  /\ Running(Main, "flush") /\ mutex = None
  /\ disk' = Flushed(settings.name)
  /\ IF TooLarge
     THEN mutex' = Main /\ file' = FALSE /\ Goto(Main, "count")
     ELSE Return(Main) /\ mutex' = Main /\ UNCHANGED file
  /\ UNCHANGED <<program, settings, defaultLogger, handler, buffers, logVars, count, budget,
                 history>>

Flush ==
  /\ Running(Main, "flush") /\ mutex = None
  /\ disk' = Flushed(settings.name)
  /\ IF TooLarge
     THEN mutex' = Main /\ file' = FALSE /\ Goto(Main, "count")
     ELSE Return(Main) /\ UNCHANGED <<mutex, file>>
  /\ UNCHANGED <<program, settings, defaultLogger, handler, buffers, logVars, count, budget,
                 history>>

(* open(), and its warning: with the mutex held. *)
OpenFile ==
  /\ Running(Main, "open")
  /\ file' = TRUE /\ mutex' = None /\ Return(Main)
  /\ UNCHANGED <<program, settings, defaultLogger, handler, buffers, logVars, disk, count,
                 budget, history>>

OpenFails ==
  /\ Running(Main, "open")
  /\ Fault
  /\ IF defaultLogger
     THEN thread' = [thread EXCEPT ![Main].at = "handler",
                       ![Main].message = [n |-> 0, from |-> Main, level |-> 1]]
          /\ UNCHANGED mutex
     ELSE Return(Main) /\ mutex' = None
  /\ history' = [history EXCEPT !.faulty = TRUE]
  /\ UNCHANGED <<program, settings, defaultLogger, handler, buffers, logVars, file, disk,
                 count>>
-----------------------------------------------------------------------------
(***************************************************************************)
(* rotate.                                                                 *)
(***************************************************************************)
Backup == disk[settings.name].backup
Exists(i) == i \in DOMAIN Backup
Without(i) == Restrict(Backup, DOMAIN Backup \ {i})
With(backups, i, lines) ==
  [j \in DOMAIN backups \cup {i} |-> IF j = i THEN lines ELSE backups[j]]

CountBackups ==
  /\ Running(Main, "count")
  /\ count' = CHOOSE n \in 0 .. Files : ~ Exists(n + 1) /\ \A i \in 1 .. n : Exists(i)
  /\ Goto(Main, "remove")
  /\ UNCHANGED <<program, settings, defaultLogger, handler, mutex, buffers, logVars, file,
                 disk, budget, history>>

\* Mutant: one backup too many is kept.
ExceedsLimitByOne == settings.maxBackups > 0 /\ count > settings.maxBackups

ExceedsLimit == settings.maxBackups > 0 /\ count >= settings.maxBackups

RemoveBackup ==
  /\ Running(Main, "remove") /\ ExceedsLimit
  /\ disk' = [disk EXCEPT ![settings.name].backup = Without(count)]
  /\ history' = [history EXCEPT !.removed = @ \cup ToSet(Backup[count])]
  /\ count' = count - 1
  /\ UNCHANGED <<program, settings, defaultLogger, handler, mutex, thread, buffers, logVars,
                 file, budget>>

RemoveFails ==
  /\ Running(Main, "remove") /\ ExceedsLimit
  /\ Fault
  /\ count' = count - 1
  /\ history' = [history EXCEPT !.faulty = TRUE]
  /\ UNCHANGED <<program, settings, defaultLogger, handler, mutex, thread, buffers, logVars,
                 file, disk>>

(* QFile::rename does not replace a file. *)
CanRename(i) == i \in 1 .. Files /\ ~ Exists(i)

RenameBackup ==
  /\ Running(Main, "rename") /\ count > 0
  /\ disk' = IF CanRename(count + 1)
             THEN [disk EXCEPT ![settings.name].backup =
                                 With(Without(count), count + 1, Backup[count])]
             ELSE disk
  /\ count' = count - 1
  /\ UNCHANGED <<program, settings, defaultLogger, handler, mutex, thread, buffers, logVars,
                 file, budget, history>>

RenameFails ==
  /\ Running(Main, "rename") /\ count > 0
  /\ Fault
  /\ count' = count - 1
  /\ history' = [history EXCEPT !.faulty = TRUE]
  /\ UNCHANGED <<program, settings, defaultLogger, handler, mutex, thread, buffers, logVars,
                 file, disk>>

RemovalEnds ==
  /\ Running(Main, "remove") /\ ~ ExceedsLimit
  /\ Goto(Main, "rename")
  /\ UNCHANGED <<program, settings, defaultLogger, handler, mutex, buffers, logVars, file,
                 disk, count, budget, history>>

RenameLog ==
  /\ Running(Main, "rename") /\ count = 0
  /\ disk' = IF CanRename(1)
             THEN [disk EXCEPT ![settings.name].backup = With(Backup, 1, disk[settings.name].log),
                               ![settings.name].log = << >>]
             ELSE disk
  /\ history' = [history EXCEPT !.rotated = TRUE]
  /\ Goto(Main, "open")
  /\ UNCHANGED <<program, settings, defaultLogger, handler, mutex, buffers, logVars, file,
                 count, budget>>
-----------------------------------------------------------------------------
(* The program is started again: the constructor loads the settings, which *)
(* may have been changed since.                                            *)
Restart ==
  /\ program # "running" /\ budget.faults < MaxFaults
  /\ \E change \in {0, 1} :
       /\ budget.changes + change <= MaxChanges
       /\ settings' \in IF change = 1 THEN Configs \ {settings} ELSE {settings}
       /\ budget' = [budget EXCEPT !.faults = @ + 1, !.changes = @ + change]
  /\ program' = "running"
  /\ file' \in BOOLEAN
  /\ defaultLogger' = FALSE
  /\ handler' = None /\ mutex' = None
  /\ thread' = [t \in Threads |-> Idle]
  /\ buffers' = [t \in Writers |-> << >>]
  /\ logVars' = [t \in Writers |-> NoValue]
  /\ count' = 0
  /\ history' = [history EXCEPT !.faulty = TRUE, !.rotated = FALSE,
                                !.largest = settings'.bufferSize]
  /\ UNCHANGED disk

Next ==
  \/ InstallMsgHandler
  \/ \E t \in Threads : MsgHandler(t)
  \/ \E t \in Writers :
       \/ \E level \in Levels : CallQt(t, level) \/ CallLog(t, level)
       \/ Log(t) \/ WriteMessage(t) \/ WriteFails(t)
       \/ LogReturns(t) \/ Abort(t)
       \/ \E value \in Values : Set(t, value)
       \/ \E buffer, variables \in BOOLEAN : Clear(t, buffer, variables)
  \/ TimerEvent \/ RefreshSettings \/ Flush \/ OpenFile \/ OpenFails
  \/ CountBackups \/ RemoveBackup \/ RemoveFails \/ RemovalEnds
  \/ RenameBackup \/ RenameFails \/ RenameLog
  \/ Restart

Spec == Init /\ [][Next]_vars
-----------------------------------------------------------------------------
(* The files of a name from the oldest backup to the current one. *)
Kept(name) ==
  FlattenSeq([i \in 1 .. Files |->
                IF Files + 1 - i \in DOMAIN disk[name].backup
                THEN disk[name].backup[Files + 1 - i] ELSE << >>]) \o disk[name].log

(***************************************************************************)
(* The messages of each thread stand in the backups and the file in the    *)
(* order in which they were logged, and none twice, whatever rotation was  *)
(* interrupted, whatever file could not be renamed or removed, and however *)
(* the program was restarted: no backup is overwritten, and none comes     *)
(* between two others.  A program that switches its buffer off and on      *)
(* again is excepted: the old messages of the buffer are written late, and *)
(* stay where they are when the program is started again.                  *)
(***************************************************************************)
MessagesInOrder ==
  ~ history.disabled =>
    \A name \in Names :
      LET kept == Kept(name) IN
      \A i, j \in DOMAIN kept :
        i < j /\ kept[i].from = kept[j].from => kept[i].n < kept[j].n

(***************************************************************************)
(* "To ensure that no important message gets lost when the program         *)
(* terminates abnormally": a critical message that was written is still    *)
(* on the disk, or went with a backup that was removed.                    *)
(***************************************************************************)
ImportantMessagesKept ==
  \A m \in history.important :
    m \in history.removed \/ \E name \in Names : m \in ToSet(Kept(name))

(***************************************************************************)
(* "maxBackups defines the number of backup files to keep": there are not  *)
(* more once a rotation with these settings is over, and without failures  *)
(* they are the newest ones: no number is missing.                         *)
(***************************************************************************)
BackupsLimited ==
  ~ history.faulty =>
    /\ history.rotated /\ settings.maxBackups > 0 =>
         Cardinality({i \in 1 .. Files : Exists(i)}) <= settings.maxBackups
    /\ mutex # Main => \A i \in 2 .. Files : Exists(i) => Exists(i - 1)

(***************************************************************************)
(* Each thread has a ring buffer and variables: the buffer never holds     *)
(* more than the largest size that was set (a smaller size takes effect    *)
(* only when the buffer is written), nor a message of another thread, nor  *)
(* one that is in a file.  However late a message is written, its line     *)
(* shows the thread that logged it and the variables that it had then.     *)
(***************************************************************************)
BuffersApart ==
  /\ \A t \in Writers :
       /\ Len(buffers[t]) <= history.largest
       /\ \A i \in DOMAIN buffers[t] :
            /\ buffers[t][i].from = t
            /\ \A name \in Names : \A line \in ToSet(Kept(name)) : line.n # buffers[t][i].n
  /\ \A name \in Names : \A line \in ToSet(Kept(name)) :
       line.thread = line.from /\ line.shows = line.had

(***************************************************************************)
(* "Allow recursive calls, which is required to prevent a deadlock if the  *)
(* logger itself produces an error message": no thread waits for a mutex   *)
(* that it holds, and no two threads wait for each other.  It happens only *)
(* if open() fails in the timers: its warning goes to msgHandler and from  *)
(* there to log, while timerEvent holds the mutex.                         *)
(***************************************************************************)
Wants(t, lock) ==
  \/ thread[t].at = "handler" /\ lock = "handler"
  \/ thread[t].at \in {"log", "flush", "refresh"} /\ lock = "mutex"

Holder(lock) == IF lock = "handler" THEN handler ELSE mutex
WaitsFor(t, u) == \E lock \in {"handler", "mutex"} : Wants(t, lock) /\ Holder(lock) = u

OpenWarns == mutex = Main /\ thread[Main].at \in {"handler", "log"}

NobodyStuck ==
  program = "running" /\ ~ OpenWarns =>
    ~ \E t, u \in Threads : WaitsFor(t, u) /\ WaitsFor(u, t)
=============================================================================
