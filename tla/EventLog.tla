------------------------------ MODULE EventLog ------------------------------
(***************************************************************************)
(* The event log: the daemon appends and rotates it (Log, daemon/src/      *)
(* event.rs), the app tails it (EventStore, app/Sources/KeywardApp).  The  *)
(* two are processes of their own and share nothing but the file.          *)
(*                                                                         *)
(* An event is its number.  A file is a sequence of what was written to    *)
(* it: events, and the newline that follows each, because writeln! on an   *)
(* unbuffered file is two writes.  A write succeeds or fails as a whole: a *)
(* disk that takes a part of a line is left out.  The mutex of the log is  *)
(* held throughout an append, so the threads of the daemon are one writer. *)
(***************************************************************************)
EXTENDS Integers, Sequences, FiniteSets

CONSTANTS
  MaxBytes,     \* config max_log_bytes, counted in writes
  MaxEvents,    \* EventStore.maxEvents
  Events,       \* bound: how many events are ever written
  Faults        \* whether open, write and rename may fail

ASSUME EventLogAssumption ==
  /\ MaxBytes \in Nat \ {0}
  /\ MaxEvents \in Nat \ {0}
  /\ Events \in Nat
  /\ Faults \in BOOLEAN

VARIABLES
  \* The file system.  A file is known by its inode, which is never used again.
  files,       \* inode -> what was written to it
  path,        \* the inode at events.jsonl, or NoFile
  rotated,     \* the inode at events.jsonl.1, or NoFile
  \* The daemon.
  written,     \* how many events were written
  at,          \* where the append in progress is
  open,        \* Mutex<Option<File>> holds a file: the one at `path`
  \* The app.
  app,         \* where its tick is
  stat,        \* tick: the size and the inode it read
  fh,          \* tick: the inode it opened
  offset,      \* how far the file has been read
  inode,       \* of the file that was read
  events,      \* what the window shows
  primed,      \* the first tick is over
  \* History.
  told,        \* how often each event was notified
  before       \* how many events were written when the app started

filesystem == <<files, path, rotated>>
daemon     == <<written, at, open>>
store      == <<app, stat, fh, offset, inode, events, primed>>
vars       == <<filesystem, daemon, store, told, before>>

NoFile  == 0
Newline == 0
Event   == 1..Events

NoStat == [size |-> 0, ino |-> NoFile]

Contents(ino) == IF ino = NoFile THEN <<>> ELSE files[ino]

\* The lines of `data` that decode: an event between two newlines or ends.  Two
\* events on one line, where a newline was never written, are no event at all.
Whole(data, i) ==
  /\ data[i] # Newline
  /\ i > 1 => data[i - 1] = Newline
  /\ i < Len(data) => data[i + 1] = Newline

Lines(data) == {i \in 1..Len(data) : Whole(data, i)}

\* The events on them, in the order of the file: the j-th is the one that ends
\* the first j.
Decoded_raw(data) == data
Decoded(data) ==
  [j \in 1..Cardinality(Lines(data)) |->
     data[CHOOSE i \in Lines(data) : Cardinality({k \in Lines(data) : k <= i}) = j]]

In(seq) == {seq[i] : i \in 1..Len(seq)}

\* The events of `data`, decoded or not.
Bodies(data) == In(data) \ {Newline}

\* Every variable stays within its type.
TypeOK ==
  /\ files \in Seq(Seq(Event \cup {Newline}))
  /\ path \in 0..Len(files)
  /\ rotated \in 0..Len(files)
  /\ written \in 0..Events
  /\ at \in {"idle", "body", "newline", "size", "reopen"}
  /\ open \in BOOLEAN
  /\ app \in {"off", "idle", "open", "read"}
  /\ stat \in [size : Nat, ino : 0..Len(files)]
  /\ fh \in 0..Len(files)
  /\ offset \in Nat
  /\ inode \in 0..Len(files)
  /\ events \in Seq(Event)
  /\ primed \in BOOLEAN
  /\ told \in [Event -> Nat]
  /\ before \in 0..Events

Init ==
  /\ files = <<>>
  /\ path = NoFile
  /\ rotated = NoFile
  /\ written = 0
  /\ at = "idle"
  /\ open = FALSE
  /\ app = "off"
  /\ stat = NoStat
  /\ fh = NoFile
  /\ offset = 0
  /\ inode = NoFile
  /\ events = <<>>
  /\ primed = FALSE
  /\ told = [e \in Event |-> 0]
  /\ before = 0

-----------------------------------------------------------------------------
(* The daemon: Log::append. *)

\* OpenOptions create, append: the file at the path, made when there is none.
Opens ==
  \/ /\ open' = TRUE
     /\ IF path = NoFile
          THEN files' = Append(files, <<>>) /\ path' = Len(files) + 1
          ELSE UNCHANGED <<files, path>>
  \/ Faults /\ open' = FALSE /\ UNCHANGED <<files, path>>

\* An event arrives.  The file is opened when it is not; an event that finds
\* no file to go to is dropped.
Begin ==
  /\ at = "idle"
  /\ written < Events
  /\ IF open THEN UNCHANGED <<files, path, open>> ELSE Opens
  /\ at' = IF open' THEN "body" ELSE "idle"
  /\ UNCHANGED <<rotated, written, store, told, before>>

Write(x) == files' = [files EXCEPT ![path] = Append(@, x)]

\* The line.  An event whose line cannot be written is lost, and counts as never
\* written; the newline is not tried then.
Body ==
  /\ at = "body"
  /\ \/ written' = written + 1 /\ Write(written') /\ at' = "newline"
     \/ Faults /\ at' = "size" /\ UNCHANGED <<files, written>>
  /\ UNCHANGED <<path, rotated, open, store, told, before>>

\* Its newline, which may fail by itself.
EndOfLine ==
  /\ at = "newline"
  /\ Write(Newline) \/ (Faults /\ UNCHANGED files)
  /\ at' = "size"
  /\ UNCHANGED <<path, rotated, written, open, store, told, before>>

\* A file past its limit becomes the one older generation.
Rotates == Len(files[path]) > MaxBytes

Rename_deleting ==
  /\ path' = NoFile
  /\ rotated' = NoFile
Rename ==
  /\ path' = NoFile
  /\ rotated' = path

Size ==
  /\ at = "size"
  /\ IF Rotates
       THEN /\ Rename \/ (Faults /\ UNCHANGED <<path, rotated>>)
            /\ at' = "reopen"
       ELSE /\ at' = "idle"
            /\ UNCHANGED <<path, rotated>>
  /\ UNCHANGED <<files, written, open, store, told, before>>

Reopen ==
  /\ at = "reopen"
  /\ Opens
  /\ at' = "idle"
  /\ UNCHANGED <<rotated, written, store, told, before>>

\* The daemon exits, wherever a thread of it is (watch_self, Watching, launchd),
\* and is started again.
Restart ==
  /\ at' = "idle"
  /\ open' = FALSE
  /\ UNCHANGED <<filesystem, written, store, told, before>>

-----------------------------------------------------------------------------
(* The app: EventStore.tick, once when it starts and then every second. *)

\* tick returns.
Return ==
  /\ app' = "idle"
  /\ primed' = TRUE
  /\ stat' = NoStat
  /\ fh' = NoFile

\* Another file than the one being read, or less of it.
Replaced_bySize(size, ino) == size < offset
Replaced(size, ino) == ino # inode \/ size < offset

\* Start over from the top of the new file.
StartOver_keeping == inode' = path /\ offset' = 0 /\ UNCHANGED events
StartOver == inode' = path /\ offset' = 0 /\ events' = <<>>

\* It reads the size and the inode of what is at the path, and starts over when
\* the file was replaced.
Stat ==
  /\ app \in {"off", "idle"}
  /\ before' = IF app = "off" THEN written ELSE before
  /\ IF path = NoFile
       THEN Return /\ UNCHANGED <<offset, inode, events>>
       ELSE LET size == Len(files[path])
            IN  /\ IF Replaced(size, path)
                     THEN StartOver
                     ELSE UNCHANGED <<inode, offset, events>>
                /\ IF size > offset'
                     THEN /\ app' = "open"
                          /\ stat' = [size |-> size, ino |-> path]
                          /\ UNCHANGED <<fh, primed>>
                     ELSE Return
  /\ UNCHANGED <<filesystem, daemon, told>>

\* It opens what is at the path by then.
Open ==
  /\ app = "open"
  /\ IF path = NoFile
       THEN Return
       ELSE app' = "read" /\ fh' = path /\ UNCHANGED <<stat, primed>>
  /\ UNCHANGED <<filesystem, daemon, offset, inode, events, told, before>>

\* The most recent MaxEvents of them.
Recent(seq) == IF Len(seq) > MaxEvents THEN SubSeq(seq, Len(seq) - MaxEvents + 1, Len(seq)) ELSE seq

\* How far the file counts as read: to where it ended when it was looked at,
\* not to where the read ended.
ReadTo_never(data) == offset
ReadTo_end(data) == offset + Len(data)
ReadTo(data) == stat.size

\* It reads to the end of what it opened.
Read ==
  /\ app = "read"
  /\ LET data  == SubSeq(files[fh], offset + 1, Len(files[fh]))
         fresh == Decoded(data)
     IN  IF data = <<>>
           THEN UNCHANGED <<offset, events, told>>
           ELSE /\ offset' = ReadTo(data)
                /\ events' = Recent(events \o fresh)
                /\ told' = IF primed
                             THEN [e \in Event |-> told[e] + IF e \in In(fresh) THEN 1 ELSE 0]
                             ELSE told
  /\ Return
  /\ UNCHANGED <<filesystem, daemon, inode, before>>

-----------------------------------------------------------------------------
Appending == Begin \/ Body \/ EndOfLine \/ Size \/ Reopen
Tick == Stat \/ Open \/ Read

Next == Appending \/ Restart \/ Tick

Spec == Init /\ [][Next]_vars

\* The timer fires every second for as long as the app runs.
FairSpec == Spec /\ WF_vars(Tick)

-----------------------------------------------------------------------------
(* Properties. *)

\* Whatever fails or restarts, the two generations on disk are the latest
\* events in order with none missing, and a rotation leaves a whole generation
\* of them (Log::append).
KeepsLatest ==
  LET kept == Contents(rotated) \o Contents(path)
  IN  /\ \E oldest \in 1..written + 1 :
           /\ Bodies(kept) = oldest..written
           /\ oldest = 1 \/ Len(Contents(rotated)) > MaxBytes
      /\ \A i, j \in 1..Len(kept) :
           i < j /\ kept[i] # Newline /\ kept[j] # Newline => kept[i] < kept[j]

\* Nothing was written since the app's last tick read the file to its end.
CaughtUp == app = "idle" /\ inode = path /\ path # NoFile /\ offset = Len(files[path])

\* An app that caught up shows the file at the path: every line that decodes, or,
\* when it shows as many as it ever does, none newer than those; and nothing that
\* is not in it, whatever was appended or rotated between its looking, opening and
\* reading (EventStore.tick).  The comment on the rotation says "The UI reads
\* both", and it does not: the older generation is never shown.
ShowsFile ==
  CaughtUp =>
    LET lines == In(Decoded(files[path]))
    IN  /\ In(events) \subseteq Bodies(files[path])
        /\ \/ lines \subseteq In(events)
           \/ Len(events) = MaxEvents /\ \E e \in In(events) : \A l \in lines : l <= e

\* An app that caught up has notified every event in the file that came after
\* it started, those its first, silent tick happened to read included.
TellsEach ==
  CaughtUp => \A e \in In(Decoded(files[path])) : e > before => told[e] > 0

\* An event is read again when it was written between the look at the file and
\* the read, and never a third time: nobody is told of a signature more than
\* twice.
ToldAtMostTwice == \A e \in Event : told[e] <= 2

\* The app catches up with the file in the end, whatever is rotated under it
\* ("Re-stat'ing each tick survives rotation for free").
CatchesUp == <>[](path = NoFile \/ CaughtUp)
=============================================================================
