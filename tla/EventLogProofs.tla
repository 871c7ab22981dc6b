--------------------------- MODULE EventLogProofs ---------------------------
(***************************************************************************)
(* Theorems about EventLog, for any number of events, any limit on a file  *)
(* and on the window, and whatever fails or restarts.                      *)
(***************************************************************************)
EXTENDS EventLog, FiniteSetTheorems, WellFoundedInduction, TLAPS

\* The file at the path is the newest there is, the other generation is older,
\* and an append has a file to write to.
Disk ==
  /\ path \in {NoFile, Len(files)}
  /\ path # NoFile => rotated < path
  /\ at \in {"body", "newline", "size"} \/ (at = "idle" /\ open) => path # NoFile
  /\ at = "body" => written < Events

\* Each event was written once, in the order of the files and the lines.
Ordered ==
  \A f, g \in 1..Len(files) : \A i \in 1..Len(files[f]), j \in 1..Len(files[g]) :
    files[f][i] # Newline /\ files[g][j] # Newline =>
      /\ files[f][i] <= written
      /\ f < g \/ (f = g /\ i < j) => files[f][i] < files[g][j]

\* No event is missing from the two generations: the path's begin where the
\* older one's end.
Kept ==
  \E first \in 1..written + 1 : \E oldest \in 1..first :
    /\ Bodies(Contents(rotated)) = oldest..first - 1
    /\ Bodies(Contents(path)) = first..written
    /\ oldest = 1 \/ Len(Contents(rotated)) > MaxBytes

\* The tick reads on in the file it looked at, or in a newer one that has
\* replaced it; the file was no shorter when it was looked at than what had
\* been read of it.
Tailing ==
  /\ inode # NoFile => offset <= Len(files[inode])
  /\ app \in {"open", "read"} =>
       /\ inode # NoFile
       /\ stat.ino = inode
       /\ offset <= stat.size
       /\ stat.size <= Len(files[inode])
  /\ app = "read" => inode <= fh
  /\ app = "off" => inode = NoFile /\ ~primed
  /\ app = "idle" => primed

\* Line i of file f is not read again: the file is no longer there to be
\* opened, or counts as read past the line.
Done(f, i) ==
  \/ f < Len(files) /\ ~(app = "read" /\ fh = f)
  \/ inode = f /\ i <= offset

\* An event that was notified twice is not read again; one that was notified
\* once counts as read at the end of the tick in which it is read again.
Counts ==
  /\ \A e \in Event : told[e] <= 2 /\ (e > written => told[e] = 0)
  /\ \A f \in 1..Len(files) : \A i \in 1..Len(files[f]) : files[f][i] # Newline =>
       /\ told[files[f][i]] = 2 => Done(f, i)
       /\ told[files[f][i]] = 1 =>
            Done(f, i) \/ app = "idle" \/ (inode = f /\ i <= stat.size)

\* What counts as read of the newest file was notified, but for what was there
\* when the app started; that is all the first tick, which is silent, lets
\* count as read.
Notified ==
  /\ inode = Len(files) /\ inode # NoFile =>
       \A i \in Lines(files[inode]) :
         i <= offset /\ files[inode][i] > before => told[files[inode][i]] > 0
  /\ app \in {"open", "read"} /\ ~primed =>
       \A i \in 1..stat.size : files[inode][i] <= before

\* What counts as read of the newest file is shown, or the window is full of
\* what is no older.
Shown ==
  /\ Len(events) <= MaxEvents
  /\ inode = Len(files) /\ inode # NoFile =>
       LET read == {i \in Lines(files[inode]) : i <= offset}
       IN  /\ In(events) \subseteq Bodies(files[inode])
           /\ \/ \A i \in read : files[inode][i] \in In(events)
              \/ /\ Len(events) = MaxEvents
                 /\ \E e \in In(events) : \A i \in read : files[inode][i] <= e

LogInv == TypeOK /\ Disk /\ Ordered /\ Kept
TailInv == LogInv /\ Tailing /\ Counts /\ Notified /\ Shown

-----------------------------------------------------------------------------
(* Sequences, and the decoding of lines. *)

\* The natural numbers are well ordered: where induction is called for below,
\* the least counterexample serves.
LEMMA Least ==
  ASSUME NEW T \in SUBSET Nat, T # {}
  PROVE  \E m \in T : \A n \in T : m <= n
<1> DEFINE Less == {p \in Nat \X Nat : p[1] < p[2]}
<1>1. IsWellFoundedOn(Less, Nat)
  BY NatLessThanWellFounded, Zenon DEF OpToRel
<1>2. PICK m \in T : \A n \in T : ~(<<n, m>> \in Less)
  <2> HIDE DEF Less
  <2> QED
    BY <1>1, WFMin
<1>3. ASSUME NEW n \in T, n < m
      PROVE  FALSE
  <2>1. <<n, m>> \in Nat \X Nat
    OBVIOUS
  <2>2. <<n, m>>[1] < <<n, m>>[2]
    BY <1>3
  <2>3. <<n, m>> \in Less
    BY <2>1, <2>2, Zenon
  <2> QED
    BY <2>3, <1>2, Zenon
<1> HIDE DEF Less
<1> QED
  BY <1>3

\* A set of places in a sequence is finite.
LEMMA PlacesFinite ==
  ASSUME NEW n \in Nat, NEW W \in SUBSET (1..n)
  PROVE  IsFiniteSet(W) /\ Cardinality(W) \in Nat
<1>1. IsFiniteSet(1..n)
  BY n \in Int, 1 \in Int, FS_Interval
<1>2. IsFiniteSet(W)
  BY <1>1, FS_Subset
<1> QED
  BY <1>2, FS_CardinalityType

\* In a finite set of numbers there is one that is the j-th.
LEMMA JthExists ==
  ASSUME NEW n \in Nat, NEW W \in SUBSET (1..n), NEW j \in 1..Cardinality(W)
  PROVE  \E i \in W : Cardinality({k \in W : k <= i}) = j
<1> DEFINE Upto(m) == {k \in W : k <= m}
<1>1. IsFiniteSet(W) /\ Cardinality(W) \in Nat
  BY PlacesFinite
<1>2. /\ Upto(n) = W
      /\ Upto(0) = {}
      /\ \A m \in 0..n : Upto(m) \subseteq W
      /\ \A m \in 1..n : m \notin W => Upto(m) = Upto(m - 1)
      /\ \A m \in 1..n : m \in W => Upto(m) = Upto(m - 1) \cup {m} /\ m \notin Upto(m - 1)
  <2>1. \A k \in W : k \in Int /\ 1 <= k /\ k <= n
    OBVIOUS
  <2>2. ASSUME NEW m \in 1..n, m \notin W
        PROVE  Upto(m) = Upto(m - 1)
    <3>1. \A k \in W : k <= m <=> k <= m - 1
      BY <2>1, <2>2
    <3> QED
      BY <3>1
  <2>3. ASSUME NEW m \in 1..n, m \in W
        PROVE  Upto(m) = Upto(m - 1) \cup {m} /\ m \notin Upto(m - 1)
    <3>1. \A k \in W : k <= m <=> k <= m - 1 \/ k = m
      BY <2>1
    <3>2. ~(m <= m - 1) /\ m <= m
      OBVIOUS
    <3> QED
      BY <3>1, <3>2, <2>3
  <2>4. Upto(n) = W
    BY <2>1, Zenon
  <2>5. Upto(0) = {}
    <3>1. \A k \in W : ~(k <= 0)
      BY <2>1
    <3> QED
      BY <3>1
  <2>6. \A m \in 0..n : Upto(m) \subseteq W
    OBVIOUS
  <2> QED
    BY <2>2, <2>3, <2>4, <2>5, <2>6
<1> SUFFICES \E i \in W : Cardinality(Upto(i)) = j
  OBVIOUS
<1> HIDE DEF Upto
<1>3. \A m \in 0..n : IsFiniteSet(Upto(m)) /\ Cardinality(Upto(m)) \in Nat
  BY <1>1, <1>2, FS_Subset, FS_CardinalityType
<1> DEFINE T == {m \in 0..n : Cardinality(Upto(m)) >= j}
<1>4. n \in T
  BY <1>1, <1>2
<1>5. PICK m \in T : \A l \in T : m <= l
  <2>1. T \in SUBSET Nat /\ T # {}
    BY <1>4
  <2> HIDE DEF T
  <2> QED
    BY <2>1, Least
<1>6. m \in 0..n /\ Cardinality(Upto(m)) >= j
  OBVIOUS
<1>7. m # 0
  BY <1>1, <1>2, <1>6, FS_EmptySet
<1>8. m - 1 \in 0..n /\ ~(Cardinality(Upto(m - 1)) >= j)
  BY <1>5, <1>6, <1>7
<1> HIDE DEF T
<1>9. m \in W
  BY <1>2, <1>6, <1>7, <1>8
<1>10. Cardinality(Upto(m)) = Cardinality(Upto(m - 1)) + 1
  BY <1>2, <1>3, <1>6, <1>7, <1>8, <1>9, FS_AddElement
<1>11. Cardinality(Upto(m)) = j
  BY <1>1, <1>3, <1>6, <1>8, <1>10
<1> QED
  BY <1>9, <1>11

\* What is decoded is what is on the lines, the last line at the end.
LEMMA DecodedLines ==
  ASSUME NEW S, NEW data \in Seq(S)
  PROVE  /\ Decoded(data) \in Seq(S)
         /\ In(Decoded(data)) = {data[i] : i \in Lines(data)}
         /\ Len(Decoded(data)) \in Nat
         /\ Len(Decoded(data)) = 0 <=> Lines(data) = {}
         /\ Lines(data) # {} => \E l \in Lines(data) :
              /\ Decoded(data)[Len(Decoded(data))] = data[l]
              /\ \A i \in Lines(data) : i <= l
<1> DEFINE W == Lines(data)
           Upto(i) == {k \in W : k <= i}
           Place(j) == CHOOSE i \in W : Cardinality(Upto(i)) = j
           c == Cardinality(W)
<1>1. W \in SUBSET (1..Len(data)) /\ Len(data) \in Nat
  BY DEF Lines
<1>2. IsFiniteSet(W) /\ c \in Nat
  <2> HIDE DEF W
  <2> QED
    BY <1>1, PlacesFinite
<1>3. \A j \in 1..c : Place(j) \in W /\ Cardinality(Upto(Place(j))) = j
  <2> SUFFICES ASSUME NEW j \in 1..c
               PROVE  \E i \in W : Cardinality(Upto(i)) = j
    OBVIOUS
  <2> HIDE DEF W
  <2> QED
    BY <1>1, JthExists
<1>4. Decoded(data) = [j \in 1..c |-> data[Place(j)]]
  BY DEF Decoded
<1>5. \A i \in W : Cardinality(Upto(i)) \in 1..c
  <2> SUFFICES ASSUME NEW i \in W
               PROVE  Cardinality(Upto(i)) \in 1..c
    OBVIOUS
  <2>1. Upto(i) \subseteq W /\ i \in Upto(i)
    BY <1>1
  <2> HIDE DEF W, Upto
  <2>2. IsFiniteSet(Upto(i)) /\ Cardinality(Upto(i)) \in Nat /\ Cardinality(Upto(i)) <= c
    BY <2>1, <1>2, FS_Subset, FS_CardinalityType
  <2>3. Cardinality(Upto(i)) # 0
    BY <2>1, <2>2, FS_EmptySet
  <2> QED
    BY <2>2, <2>3, <1>2
<1>6. \A i \in W : Place(Cardinality(Upto(i))) = i
  <2> SUFFICES ASSUME NEW i \in W, NEW k \in W, Cardinality(Upto(i)) = Cardinality(Upto(k)), i < k
               PROVE  FALSE
    BY <1>1, <1>3, <1>5
  <2>1. Upto(i) \subseteq Upto(k) /\ k \in Upto(k) /\ k \notin Upto(i)
    BY <1>1
  <2>2. Upto(k) \subseteq W
    OBVIOUS
  <2> HIDE DEF W, Upto
  <2>3. IsFiniteSet(Upto(k))
    BY <1>2, <2>2, FS_Subset
  <2> QED
    BY <2>1, <2>3, FS_Subset
<1>7. Len(Decoded(data)) = c /\ Decoded(data) \in Seq(S)
  <2>1. \A j \in 1..c : data[Place(j)] \in S
    <3>1. \A i \in W : data[i] \in S
      BY <1>1
    <3> HIDE DEF W, Place, c
    <3> QED
      BY <1>3, <3>1
  <2> HIDE DEF W, Place
  <2> QED
    BY <2>1, <1>4, <1>2
<1>8. In(Decoded(data)) = {data[i] : i \in W}
  <2>1. \A i \in W : data[i] = Decoded(data)[Cardinality(Upto(i))]
    BY <1>4, <1>5, <1>6
  <2>2. \A j \in 1..c : Decoded(data)[j] = data[Place(j)]
    BY <1>4
  <2> HIDE DEF W, Place, Upto
  <2> QED
    BY <2>1, <2>2, <1>3, <1>5, <1>7 DEF In
<1>9. c = 0 <=> W = {}
  BY <1>2, FS_EmptySet
<1>10. ASSUME NEW i \in W
       PROVE  i <= Place(c) /\ Place(c) \in W /\ Decoded(data)[c] = data[Place(c)]
  <2>1. c \in 1..c
    <3> HIDE DEF W, c, Upto
    <3> QED
      BY <1>2, <1>5
  <2>2. Place(c) \in W /\ Decoded(data)[c] = data[Place(c)]
    BY <2>1, <1>3, <1>4
  <2>3. Cardinality(Upto(Place(c))) = c
    BY <2>1, <1>3
  <2>4. Upto(Place(c)) = W
    <3>1. Upto(Place(c)) \subseteq W
      OBVIOUS
    <3> HIDE DEF W, Upto, Place
    <3> QED
      BY <3>1, <2>3, <1>2, FS_Subset
  <2> QED
    BY <2>2, <2>4, <1>1
<1> HIDE DEF Place, Upto
<1> QED
  BY <1>7, <1>8, <1>9, <1>10, <1>2

\* What is left of a sequence behind its first o elements.
LEMMA Rest ==
  ASSUME NEW S, NEW data \in Seq(S), NEW o \in Nat
  PROVE  LET rest == SubSeq(data, o + 1, Len(data))
         IN  /\ rest \in Seq(S)
             /\ Len(rest) = IF o < Len(data) THEN Len(data) - o ELSE 0
             /\ \A i \in 1..Len(rest) : rest[i] = data[o + i]
<1> DEFINE rest == SubSeq(data, o + 1, Len(data))
<1>1. Len(rest) = IF o < Len(data) THEN Len(data) - o ELSE 0
  OBVIOUS
<1>2. \A i \in 1..Len(rest) : rest[i] = data[o + i] /\ o + i \in 1..Len(data)
  BY SMTT(30), <1>1
<1>3. rest \in Seq(S)
  OBVIOUS
<1> QED
  BY <1>1, <1>2, <1>3

\* A line of the whole is a line of the rest.
LEMMA RestLines ==
  ASSUME NEW S, NEW data \in Seq(S), NEW o \in Nat, NEW i \in Lines(data), i > o
  PROVE  i - o \in Lines(SubSeq(data, o + 1, Len(data)))
<1> DEFINE rest == SubSeq(data, o + 1, Len(data))
<1>1. /\ Len(rest) = IF o < Len(data) THEN Len(data) - o ELSE 0
      /\ \A j \in 1..Len(rest) : rest[j] = data[o + j]
  BY Rest
<1> HIDE DEF rest
<1>2. i \in 1..Len(data) /\ Len(data) \in Nat
  BY DEF Lines
<1>3. i - o \in 1..Len(rest) /\ rest[i - o] = data[i]
  BY <1>1, <1>2
<1>4. i - o > 1 => rest[i - o - 1] = data[i - 1]
  BY <1>1, <1>2
<1>5. i - o < Len(rest) => rest[i - o + 1] = data[i + 1] /\ i < Len(data)
  BY <1>1, <1>2
<1>6. Whole(rest, i - o)
  BY <1>2, <1>3, <1>4, <1>5 DEF Lines, Whole
<1> QED
  BY <1>3, <1>6 DEF Lines, rest

\* A write to one of the files.
LEMMA WriteFile ==
  ASSUME NEW S, NEW fs \in Seq(Seq(S)), NEW p \in 1..Len(fs), NEW x \in S
  PROVE  LET gs == [fs EXCEPT ![p] = Append(@, x)]
         IN  /\ gs \in Seq(Seq(S))
             /\ Len(gs) = Len(fs)
             /\ \A f \in 1..Len(fs) : f # p => gs[f] = fs[f]
             /\ Len(gs[p]) = Len(fs[p]) + 1
             /\ \A i \in 1..Len(fs[p]) : gs[p][i] = fs[p][i]
             /\ gs[p][Len(fs[p]) + 1] = x
<1> DEFINE gs == [fs EXCEPT ![p] = Append(@, x)]
<1>1. fs[p] \in Seq(S) /\ Append(fs[p], x) \in Seq(S)
  OBVIOUS
<1>2. gs[p] = Append(fs[p], x) /\ \A f \in 1..Len(fs) : f # p => gs[f] = fs[f]
  OBVIOUS
<1>3. gs \in Seq(Seq(S)) /\ Len(gs) = Len(fs)
  BY <1>1
<1> HIDE DEF gs
<1>4. /\ Len(gs[p]) = Len(fs[p]) + 1
      /\ \A i \in 1..Len(fs[p]) : gs[p][i] = fs[p][i]
      /\ gs[p][Len(fs[p]) + 1] = x
  BY <1>1, <1>2
<1> QED
  BY <1>2, <1>3, <1>4 DEF gs

\* A new, empty file.
LEMMA NewFile ==
  ASSUME NEW S, NEW fs \in Seq(Seq(S))
  PROVE  LET gs == Append(fs, <<>>)
         IN  /\ gs \in Seq(Seq(S))
             /\ Len(gs) = Len(fs) + 1
             /\ \A f \in 1..Len(fs) : gs[f] = fs[f]
             /\ gs[Len(fs) + 1] = <<>>
<1>1. <<>> \in Seq(S)
  OBVIOUS
<1> QED
  BY <1>1

-----------------------------------------------------------------------------
(* The daemon. *)

\* What a step of the daemon does to the files: it adds to them, an event at
\* most, and the next one at the end of the newest.
Appended ==
  /\ Len(files) <= Len(files')
  /\ \A f \in 1..Len(files) :
       /\ Len(files[f]) <= Len(files'[f])
       /\ \A i \in 1..Len(files[f]) : files'[f][i] = files[f][i]
  /\ written <= written'
  /\ \A f \in 1..Len(files') : \A i \in 1..Len(files'[f]) :
       \/ f <= Len(files) /\ i <= Len(files[f])
       \/ files'[f][i] = Newline
       \/ /\ f = Len(files') /\ i = Len(files'[f])
          /\ files'[f][i] = written + 1 /\ written' = written + 1
  /\ UNCHANGED <<store, told, before>>

\* What every proof below needs of the types of files and numbers.
LEMMA FilesTyped ==
  ASSUME NEW fs \in Seq(Seq(Event \cup {Newline}))
  PROVE  /\ Len(fs) \in Nat
         /\ \A f \in 1..Len(fs) :
              /\ fs[f] \in Seq(Event \cup {Newline})
              /\ Len(fs[f]) \in Nat
              /\ \A i \in 1..Len(fs[f]) :
                   fs[f][i] \in Nat /\ (fs[f][i] # Newline => fs[f][i] \in Event)
<1>1. Event \cup {Newline} \subseteq Nat
  BY EventLogAssumption DEF Event, Newline
<1> QED
  BY <1>1

\* What TypeOK says of the sequences, for the provers.
LEMMA Typed ==
  ASSUME TypeOK
  PROVE  /\ files \in Seq(Seq(Event \cup {Newline}))
         /\ Len(files) \in Nat
         /\ \A f \in 1..Len(files) :
              /\ files[f] \in Seq(Event \cup {Newline})
              /\ Len(files[f]) \in Nat
              /\ \A i \in 1..Len(files[f]) :
                   files[f][i] \in Nat /\ (files[f][i] # Newline => files[f][i] \in Event)
         /\ written \in Nat /\ offset \in Nat /\ before \in Nat
<1>1. written \in Nat /\ offset \in Nat /\ before \in Nat
  BY EventLogAssumption DEF TypeOK
<1> QED
  BY <1>1, FilesTyped DEF TypeOK

\* A step of the daemon leaves the app's variables within their types.
LEMMA StoreTyped ==
  ASSUME TypeOK, Len(files) <= Len(files'), Len(files') \in Nat, UNCHANGED <<store, told, before>>
  PROVE  /\ app' \in {"off", "idle", "open", "read"}
         /\ stat' \in [size : Nat, ino : 0..Len(files')]
         /\ fh' \in 0..Len(files')
         /\ offset' \in Nat
         /\ inode' \in 0..Len(files')
         /\ events' \in Seq(Event)
         /\ primed' \in BOOLEAN
         /\ told' \in [Event -> Nat]
         /\ before' \in 0..Events
<1>1. Len(files) \in Nat
  BY Typed
<1>2. 0..Len(files) \subseteq 0..Len(files')
  BY <1>1
<1> QED
  BY <1>2 DEF TypeOK, store

\* A file is opened, or is not.
LEMMA OpensStep ==
  ASSUME TypeOK, path \in {NoFile, Len(files)}, Opens
  PROVE  /\ files' \in Seq(Seq(Event \cup {Newline}))
         /\ path' \in {NoFile, Len(files')}
         /\ open' \in BOOLEAN /\ (open' => path' # NoFile)
         /\ path # NoFile => files' = files /\ path' = path
         /\ \/ files' = files /\ path' = path
            \/ /\ path = NoFile /\ path' = Len(files) + 1
               /\ Len(files') = Len(files) + 1
               /\ \A f \in 1..Len(files) : files'[f] = files[f]
               /\ files'[Len(files) + 1] = <<>>
<1>1. Len(files) \in Nat /\ files \in Seq(Seq(Event \cup {Newline}))
  BY Typed
<1>2. CASE open' = FALSE /\ UNCHANGED <<files, path>>
  BY <1>1, <1>2
<1>3. CASE open' = TRUE /\ path # NoFile /\ UNCHANGED <<files, path>>
  BY <1>1, <1>3
<1>4. CASE open' = TRUE /\ path = NoFile /\ files' = Append(files, <<>>) /\ path' = Len(files) + 1
  BY <1>1, <1>4, NewFile DEF NoFile
<1> QED
  BY <1>2, <1>3, <1>4, Zenon DEF Opens

\* An append begins, or the event is dropped.
LEMMA BeginStep ==
  ASSUME TypeOK, Disk, Kept, Begin \/ Reopen
  PROVE  TypeOK' /\ Disk' /\ Kept' /\ Appended
<1> USE EventLogAssumption DEF NoFile
<1>1. /\ Len(files) \in Nat
      /\ \A f \in 1..Len(files) : Len(files[f]) \in Nat
  BY Typed
<1>2. /\ files' \in Seq(Seq(Event \cup {Newline}))
      /\ path' \in {NoFile, Len(files')}
      /\ open' \in BOOLEAN /\ (open' => path' # NoFile)
      /\ \/ files' = files /\ path' = path
         \/ /\ path = NoFile /\ path' = Len(files) + 1
            /\ Len(files') = Len(files) + 1
            /\ \A f \in 1..Len(files) : files'[f] = files[f]
            /\ files'[Len(files) + 1] = <<>>
  <2>1. CASE Opens
    BY <2>1, OpensStep DEF Disk
  <2>2. CASE open /\ UNCHANGED <<files, path, open>> /\ at = "idle"
    BY <2>2 DEF Disk, TypeOK
  <2> QED
    BY <2>1, <2>2 DEF Begin, Reopen
<1>3. /\ UNCHANGED <<rotated, written, store, told, before>>
      /\ at' \in {"idle", "body"}
      /\ at' = "body" => open' /\ written < Events
  BY DEF Begin, Reopen
<1>4. Len(files) <= Len(files') /\ Len(files') \in Nat
  BY <1>1, <1>2
<1>5. TypeOK'
  <2>1. rotated' \in 0..Len(files') /\ path' \in 0..Len(files')
    BY <1>1, <1>2, <1>3, <1>4 DEF TypeOK
  <2> QED
    BY <1>2, <1>3, <1>4, <2>1, StoreTyped DEF TypeOK
<1>6. Disk'
  BY <1>1, <1>2, <1>3, SMTT(30) DEF Disk, TypeOK
<1>7. Kept'
  <2>1. Contents(rotated)' = Contents(rotated)
    BY <1>1, <1>2, <1>3 DEF Contents, TypeOK
  <2>2. Contents(path)' = Contents(path)
    BY <1>1, <1>2, <1>3 DEF Contents, TypeOK
  <2> QED
    BY <2>1, <2>2, <1>3 DEF Kept
<1>8. Appended
  <2>1. \A f \in 1..Len(files) : files'[f] = files[f]
    BY <1>2
  <2>2. \A f \in 1..Len(files') : \A i \in 1..Len(files'[f]) : f <= Len(files) /\ i <= Len(files[f])
    BY <1>1, <1>2
  <2>3. written <= written'
    BY <1>3, Typed
  <2> QED
    BY <1>1, <1>3, <1>4, <2>1, <2>2, <2>3 DEF Appended
<1> QED
  BY <1>5, <1>6, <1>7, <1>8

\* A line or its newline is written.
LEMMA WriteStep ==
  ASSUME TypeOK, Disk, Kept, Body \/ EndOfLine, ~UNCHANGED <<files, written>>
  PROVE  TypeOK' /\ Disk' /\ Kept' /\ Appended
<1> USE EventLogAssumption DEF NoFile
<1> DEFINE x == IF at = "body" THEN written + 1 ELSE Newline
<1>1. /\ Len(files) \in Nat /\ files \in Seq(Seq(Event \cup {Newline}))
      /\ written \in Nat
      /\ \A f \in 1..Len(files) : Len(files[f]) \in Nat
  BY Typed
<1>2. path = Len(files) /\ path \in 1..Len(files) /\ rotated < path
  BY <1>1 DEF Disk, Body, EndOfLine, TypeOK
<1>3. /\ files' = [files EXCEPT ![path] = Append(@, x)]
      /\ UNCHANGED <<path, rotated, open, store, told, before>>
      /\ at' \in {"newline", "size"}
      /\ \/ at = "body" /\ written' = written + 1
         \/ at # "body" /\ written' = written
  BY DEF Body, EndOfLine, Write
<1>4. x \in Event \cup {Newline} /\ written' \in 0..Events
  BY <1>1, <1>3, SMTT(30) DEF Disk, Event, TypeOK
<1>5. /\ files' \in Seq(Seq(Event \cup {Newline}))
      /\ Len(files') = Len(files)
      /\ \A f \in 1..Len(files) : f # path => files'[f] = files[f]
      /\ Len(files'[path]) = Len(files[path]) + 1
      /\ \A i \in 1..Len(files[path]) : files'[path][i] = files[path][i]
      /\ files'[path][Len(files[path]) + 1] = x
  BY <1>1, <1>2, <1>3, <1>4, WriteFile
<1> HIDE DEF x
<1>6. TypeOK'
  <2>1. path' \in 0..Len(files') /\ rotated' \in 0..Len(files') /\ open' \in BOOLEAN
    BY <1>3, <1>5 DEF TypeOK
  <2> QED
    BY <1>1, <1>3, <1>4, <1>5, <2>1, StoreTyped, SMTT(30) DEF TypeOK
<1>7. Disk'
  BY <1>2, <1>3, <1>5 DEF Disk
<1>8. Kept'
  <2>1. Contents(rotated)' = Contents(rotated)
    BY <1>1, <1>2, <1>3, <1>5 DEF Contents, TypeOK
  <2>2. Bodies(Contents(path)') = Bodies(Contents(path)) \cup ({x} \ {Newline})
    <3>1. Contents(path) = files[path] /\ Contents(path)' = files'[path]
      BY <1>2, <1>3 DEF Contents
    <3>2. Len(files[path]) \in Nat
      BY <1>1, <1>2
    <3> DEFINE s == files[path]
               t == files'[path]
    <3>3. /\ 1..Len(t) = 1..Len(s) \cup {Len(s) + 1}
          /\ \A i \in 1..Len(s) : t[i] = s[i]
          /\ t[Len(s) + 1] = x
      BY <3>2, <1>5
    <3> HIDE DEF s, t
    <3>4. In(t) = In(s) \cup {x}
      BY <3>3 DEF In
    <3> QED
      BY <3>1, <3>4 DEF Bodies, s, t
  <2>3. PICK first \in 1..written + 1 : \E oldest \in 1..first :
          /\ Bodies(Contents(rotated)) = oldest..first - 1
          /\ Bodies(Contents(path)) = first..written
          /\ oldest = 1 \/ Len(Contents(rotated)) > MaxBytes
    BY DEF Kept
  <2>4. first \in 1..written' + 1 /\ (first..written) \cup ({x} \ {Newline}) = first..written'
    BY <1>1, <1>3 DEF x, Newline
  <2>5. Bodies(Contents(path)') = first..written'
    BY <2>2, <2>3, <2>4
  <2> QED
    BY <2>1, <2>3, <2>4, <2>5 DEF Kept, Bodies, In
<1>9. Appended
  <2>1. \A f \in 1..Len(files) :
          /\ Len(files[f]) <= Len(files'[f])
          /\ \A i \in 1..Len(files[f]) : files'[f][i] = files[f][i]
    <3>1. \A f \in 1..Len(files) \ {path} : Len(files[f]) <= Len(files'[f]) /\ files'[f] = files[f]
      BY <1>1, <1>5
    <3>2. Len(files[path]) <= Len(files'[path])
      BY <1>1, <1>2, <1>5
    <3> QED BY <1>5, <3>1, <3>2
  <2>2. ASSUME NEW f \in 1..Len(files'), NEW i \in 1..Len(files'[f]),
               ~(f <= Len(files) /\ i <= Len(files[f]))
        PROVE  f = Len(files') /\ i = Len(files'[f]) /\ files'[f][i] = x
    BY <2>2, <1>1, <1>2, <1>5
  <2>3. written <= written' /\ (x # Newline => x = written + 1 /\ written' = written + 1)
    BY <1>1, <1>3 DEF x
  <2>4. \A f \in 1..Len(files') : \A i \in 1..Len(files'[f]) :
          \/ f <= Len(files) /\ i <= Len(files[f])
          \/ files'[f][i] = Newline
          \/ /\ f = Len(files') /\ i = Len(files'[f])
             /\ files'[f][i] = written + 1 /\ written' = written + 1
    BY <2>2, <2>3
  <2>5. Len(files) <= Len(files')
    BY <1>1, <1>5
  <2> QED
    BY <1>3, <2>1, <2>3, <2>4, <2>5 DEF Appended
<1> QED
  BY <1>6, <1>7, <1>8, <1>9

\* A file past its limit is renamed, or the rename fails.
LEMMA SizeStep ==
  ASSUME TypeOK, Disk, Kept, Size
  PROVE  TypeOK' /\ Disk' /\ Kept' /\ Appended
<1> USE EventLogAssumption DEF NoFile
<1>1. /\ Len(files) \in Nat
      /\ \A f \in 1..Len(files) : Len(files[f]) \in Nat
      /\ written \in Nat
  BY Typed
<1>2. path = Len(files) /\ path \in 1..Len(files) /\ rotated < path
  BY <1>1 DEF Disk, Size, TypeOK
<1>3. /\ UNCHANGED <<files, written, open, store, told, before>>
      /\ at' \in {"idle", "reopen"}
      /\ \/ path' = path /\ rotated' = rotated
         \/ path' = NoFile /\ rotated' = path /\ at' = "reopen" /\ Len(files[path]) > MaxBytes
  BY DEF Size, Rename, Rotates
<1>4. TypeOK'
  <2>1. path' \in 0..Len(files') /\ rotated' \in 0..Len(files') /\ open' \in BOOLEAN
    BY <1>2, <1>3 DEF TypeOK
  <2> QED
    BY <1>1, <1>3, <2>1, StoreTyped DEF TypeOK
<1>5. Disk'
  BY <1>2, <1>3 DEF Disk
<1>6. Kept'
  <2>1. CASE path' = path /\ rotated' = rotated
    BY <2>1, <1>3 DEF Kept, Contents
  <2>2. CASE path' = NoFile /\ rotated' = path /\ Len(files[path]) > MaxBytes
    <3>1. Contents(rotated)' = files[path] /\ Contents(path)' = <<>>
      BY <2>2, <1>2, <1>3 DEF Contents
    <3>2. Bodies(<<>>) = {}
      BY DEF Bodies, In
    <3>3. PICK first \in 1..written + 1 : Bodies(files[path]) = first..written
      BY <1>2 DEF Kept, Contents
    <3>4. (written + 1)..written = {} /\ written' = written
      BY <1>1, <1>3
    <3>5. /\ first \in 1..written' + 1 /\ written' + 1 \in 1..written' + 1
          /\ Bodies(Contents(rotated)') = first..written' + 1 - 1
          /\ Bodies(Contents(path)') = written' + 1..written'
          /\ Len(Contents(rotated)') > MaxBytes
      <4>1. first \in 1..written' + 1 /\ written' + 1 \in 1..written' + 1
        BY <1>1, <3>3, <3>4
      <4>2. written' + 1 - 1 = written
        BY <1>1, <3>4
      <4>3. Bodies(Contents(rotated)') = first..written' + 1 - 1
        BY <3>1, <3>3, <4>2, Zenon
      <4>4. Bodies(Contents(path)') = written' + 1..written'
        BY <3>1, <3>2, <3>4, Zenon
      <4> QED
        BY <2>2, <3>1, <4>1, <4>3, <4>4, Zenon
    <3>6. \E f \in 1..written' + 1 : \E oldest \in 1..f :
            /\ Bodies(Contents(rotated)') = oldest..f - 1
            /\ Bodies(Contents(path)') = f..written'
            /\ oldest = 1 \/ Len(Contents(rotated)') > MaxBytes
      <4>1. written' \in Nat
        BY <1>1, <1>3
      <4> USE <3>5
      <4> WITNESS written' + 1 \in 1..written' + 1
      <4> WITNESS first \in 1..written' + 1
      <4> QED
        BY <4>1, SMT
    <3> QED
      BY <3>6 DEF Kept
  <2> QED
    BY <2>1, <2>2, <1>3
<1>7. Appended
  BY <1>1, <1>3 DEF Appended
<1> QED
  BY <1>4, <1>5, <1>6, <1>7

\* A write fails, or the daemon exits and is started again: the files stay.
LEMMA NothingWritten ==
  ASSUME TypeOK, Disk, Kept,
         Restart \/ (UNCHANGED <<files, written>> /\ (Body \/ EndOfLine))
  PROVE  TypeOK' /\ Disk' /\ Kept' /\ Appended
<1>1. /\ UNCHANGED <<files, path, rotated, written, store, told, before>>
      /\ \/ at' = "idle" /\ open' = FALSE
         \/ at \in {"body", "newline"} /\ at' \in {"newline", "size"} /\ open' = open
  BY DEF Restart, Body, EndOfLine, filesystem
<1>2. TypeOK'
  <2>1. /\ files' \in Seq(Seq(Event \cup {Newline}))
        /\ path' \in 0..Len(files') /\ rotated' \in 0..Len(files') /\ written' \in 0..Events
        /\ Len(files) <= Len(files') /\ Len(files') \in Nat
    <3>1. Len(files) \in Nat
      BY Typed
    <3> QED
      BY <1>1, <3>1 DEF TypeOK
  <2>2. open' \in BOOLEAN /\ at' \in {"idle", "newline", "size"}
    BY <1>1 DEF TypeOK
  <2> QED
    BY <1>1, <2>1, <2>2, StoreTyped DEF TypeOK
<1>3. Disk'
  BY <1>1 DEF Disk
<1>4. Kept'
  BY <1>1 DEF Kept, Contents
<1>5. Appended
  BY <1>1, Typed DEF Appended
<1> QED
  BY <1>2, <1>3, <1>4, <1>5

\* What is added comes after all there was.
LEMMA OrderedAppended ==
  ASSUME TypeOK, TypeOK', Ordered, Appended
  PROVE  Ordered'
<1> SUFFICES ASSUME NEW f \in 1..Len(files'), NEW g \in 1..Len(files'),
                    NEW i \in 1..Len(files'[f]), NEW j \in 1..Len(files'[g]),
                    files'[f][i] # Newline, files'[g][j] # Newline
             PROVE  /\ files'[f][i] <= written'
                    /\ f < g \/ (f = g /\ i < j) => files'[f][i] < files'[g][j]
  BY DEF Ordered
<1> DEFINE Old(h, k) == h <= Len(files) /\ k <= Len(files[h])
<1>1. /\ Len(files) \in Nat /\ Len(files') \in Nat /\ written \in Nat /\ written' \in Nat
      /\ \A h \in 1..Len(files) : Len(files[h]) \in Nat
      /\ Len(files'[f]) \in Nat /\ Len(files'[g]) \in Nat
      /\ files'[f][i] \in Int /\ files'[g][j] \in Int
  <2>1. files' \in Seq(Seq(Event \cup {Newline})) /\ written' \in Nat
    BY EventLogAssumption DEF TypeOK
  <2>2. /\ Len(files) \in Nat /\ written \in Nat
        /\ \A h \in 1..Len(files) : Len(files[h]) \in Nat
    BY Typed
  <2>3. /\ Len(files') \in Nat
        /\ \A h \in 1..Len(files') :
             Len(files'[h]) \in Nat /\ \A k \in 1..Len(files'[h]) : files'[h][k] \in Nat
    BY <2>1, FilesTyped
  <2>4. Len(files'[f]) \in Nat /\ files'[f][i] \in Nat /\ files'[g][j] \in Nat
    BY <2>3
  <2>5. files'[f][i] \in Int /\ files'[g][j] \in Int
    BY <2>4
  <2> QED
    BY <2>1, <2>2, <2>3, <2>4, <2>5
<1>2. /\ Old(f, i) => f \in 1..Len(files) /\ i \in 1..Len(files[f]) /\ files'[f][i] = files[f][i]
      /\ Old(g, j) => g \in 1..Len(files) /\ j \in 1..Len(files[g]) /\ files'[g][j] = files[g][j]
  <2>1. \A h \in 1..Len(files) : \A k \in 1..Len(files[h]) : files'[h][k] = files[h][k]
    BY DEF Appended
  <2>2. /\ Old(f, i) => f \in 1..Len(files) /\ i \in 1..Len(files[f])
        /\ Old(g, j) => g \in 1..Len(files) /\ j \in 1..Len(files[g])
    BY <1>1
  <2> QED
    BY <2>1, <2>2
<1>3. /\ ~Old(f, i) => /\ f = Len(files') /\ i = Len(files'[f])
                      /\ files'[f][i] = written + 1 /\ written' = written + 1
      /\ ~Old(g, j) => /\ g = Len(files') /\ j = Len(files'[g])
                      /\ files'[g][j] = written + 1 /\ written' = written + 1
  BY DEF Appended
<1>4. Old(f, i) => files'[f][i] <= written
  BY <1>2 DEF Ordered
<1>5. files'[f][i] <= written'
  BY <1>1, <1>3, <1>4 DEF Appended
<1>6. ASSUME f < g \/ (f = g /\ i < j)
      PROVE  files'[f][i] < files'[g][j]
  <2>1. Old(f, i)
    BY <1>1, <1>3, <1>6
  <2>2. CASE Old(g, j)
    BY <1>2, <1>6, <2>1, <2>2 DEF Ordered
  <2>3. CASE ~Old(g, j)
    BY <1>1, <1>3, <1>4, <2>1, <2>3
  <2> QED
    BY <2>2, <2>3
<1> QED
  BY <1>5, <1>6

\* Every step of the daemon, in short.
LEMMA DaemonStep ==
  ASSUME LogInv, Appending \/ Restart
  PROVE  LogInv' /\ Appended
<1>1. TypeOK' /\ Disk' /\ Kept' /\ Appended
  BY BeginStep, WriteStep, NothingWritten, SizeStep DEF LogInv, Appending
<1> QED
  BY <1>1, OrderedAppended DEF LogInv

-----------------------------------------------------------------------------
(* The app. *)

\* The most recent of some events.
LEMMA RecentEvents ==
  ASSUME NEW S, NEW s \in Seq(S)
  PROVE  /\ Recent(s) \in Seq(S)
         /\ Len(Recent(s)) <= MaxEvents
         /\ In(Recent(s)) \subseteq In(s)
         /\ Len(s) <= MaxEvents => Recent(s) = s
         /\ Len(s) > MaxEvents =>
              /\ Len(Recent(s)) = MaxEvents
              /\ s[Len(s)] \in In(Recent(s))
<1> USE EventLogAssumption
<1>1. CASE Len(s) <= MaxEvents
  <2>1. Recent(s) = s
    BY <1>1 DEF Recent
  <2> QED
    BY <1>1, <2>1
<1>2. CASE Len(s) > MaxEvents
  <2> DEFINE o == Len(s) - MaxEvents
             r == SubSeq(s, o + 1, Len(s))
  <2>1. o \in Nat /\ o < Len(s) /\ Len(s) \in Nat
    BY <1>2
  <2>2. Recent(s) = r
    BY <1>2 DEF Recent
  <2>3. r \in Seq(S) /\ Len(r) = MaxEvents /\ \A i \in 1..Len(r) : r[i] = s[o + i]
    <3>1. Len(s) - o = MaxEvents
      BY <2>1
    <3> HIDE DEF o
    <3> QED
      BY <2>1, <3>1, Rest
  <2>4. In(r) \subseteq In(s)
    BY <2>1, <2>3 DEF In
  <2>5. r[MaxEvents] = s[Len(s)] /\ MaxEvents \in 1..Len(r)
    BY <2>1, <2>3
  <2>6. s[Len(s)] \in In(r)
    <3> HIDE DEF r
    <3> QED
      BY <2>5 DEF In
  <2> HIDE DEF r
  <2> QED
    BY <1>2, <2>1, <2>2, <2>3, <2>4, <2>6
<1> QED
  BY <1>1, <1>2

\* What is decoded are events.
LEMMA DecodedEvents ==
  ASSUME NEW data \in Seq(Event \cup {Newline})
  PROVE  Decoded(data) \in Seq(Event)
<1> DEFINE d == Decoded(data)
<1>1. d \in Seq(Event \cup {Newline}) /\ In(d) = {data[i] : i \in Lines(data)}
  BY DecodedLines
<1>2. \A i \in Lines(data) : data[i] \in Event
  BY DEF Lines, Whole
<1> HIDE DEF d
<1>3. \A j \in 1..Len(d) : d[j] \in Event
  BY <1>1, <1>2 DEF In
<1>4. d \in Seq(Event)
  BY <1>1, <1>3
<1> QED
  BY <1>4 DEF d

\* What a look at the path comes to: a file that was not replaced is read on,
\* another one from its beginning.
LEMMA StatCases ==
  ASSUME TypeOK, Tailing, Stat
  PROVE  /\ UNCHANGED <<files, path, rotated, written, at, open, told>>
         /\ before' = IF app = "off" THEN written ELSE before
         /\ app \in {"off", "idle"}
         /\ \/ path = NoFile /\ UNCHANGED <<offset, inode, events>> /\ Return
            \/ /\ path \in 1..Len(files) /\ inode' = path
               /\ \/ inode = path /\ offset' = offset /\ events' = events
                  \/ inode # path /\ offset' = 0 /\ events' = <<>>
               /\ \/ Return
                  \/ /\ app' = "open" /\ offset' < Len(files[path])
                     /\ stat' = [size |-> Len(files[path]), ino |-> path]
                     /\ UNCHANGED <<fh, primed>>
<1>1. /\ UNCHANGED <<files, path, rotated, written, at, open, told>>
      /\ before' = IF app = "off" THEN written ELSE before
      /\ app \in {"off", "idle"}
  BY DEF Stat, filesystem, daemon
<1>2. CASE path = NoFile
  BY <1>1, <1>2 DEF Stat
<1>3. CASE path # NoFile
  <2>1. path \in 1..Len(files)
    BY <1>3, Typed DEF TypeOK, NoFile
  <2>2. /\ IF path # inode \/ Len(files[path]) < offset
             THEN inode' = path /\ offset' = 0 /\ events' = <<>>
             ELSE UNCHANGED <<inode, offset, events>>
        /\ IF Len(files[path]) > offset'
             THEN /\ app' = "open"
                  /\ stat' = [size |-> Len(files[path]), ino |-> path]
                  /\ UNCHANGED <<fh, primed>>
             ELSE Return
    BY <1>3 DEF Stat, Replaced, StartOver
  <2>3. path = inode => ~(Len(files[path]) < offset)
    BY <1>3, <2>1, Typed DEF Tailing
  <2>4. /\ inode' = path
        /\ \/ inode = path /\ offset' = offset /\ events' = events
           \/ inode # path /\ offset' = 0 /\ events' = <<>>
    BY <2>2, <2>3
  <2>5. offset' \in Nat /\ Len(files[path]) \in Nat
    BY <2>1, <2>4, Typed
  <2>6. \/ Return
        \/ /\ app' = "open" /\ offset' < Len(files[path])
           /\ stat' = [size |-> Len(files[path]), ino |-> path]
           /\ UNCHANGED <<fh, primed>>
    BY <2>2, <2>5
  <2> QED
    BY <1>1, <2>1, <2>4, <2>6
<1> QED
  BY <1>2, <1>3

\* The slice that a read takes, and what it does with it.
LEMMA ReadCases ==
  ASSUME TypeOK, Tailing, Read
  PROVE  /\ UNCHANGED <<files, path, rotated, written, at, open, inode, before>>
         /\ Return
         /\ app = "read" /\ fh \in 1..Len(files)
         /\ LET data  == SubSeq(files[fh], offset + 1, Len(files[fh]))
                fresh == Decoded(data)
            IN  \/ data = <<>> /\ UNCHANGED <<offset, events, told>>
                \/ /\ offset' = stat.size
                   /\ events' = Recent(events \o fresh)
                   /\ told' = IF primed
                                THEN [e \in Event |-> told[e] + IF e \in In(fresh) THEN 1 ELSE 0]
                                ELSE told
<1>1. fh \in 1..Len(files)
  BY Typed DEF Read, Tailing, TypeOK, NoFile
<1> QED
  BY <1>1 DEF Read, ReadTo, filesystem, daemon

\* A tick keeps the types.
LEMMA TickTyped ==
  ASSUME TypeOK, Tailing, Tick
  PROVE  TypeOK'
<1> USE EventLogAssumption DEF NoFile
<1>1. /\ Len(files) \in Nat /\ files \in Seq(Seq(Event \cup {Newline}))
      /\ \A f \in 1..Len(files) : files[f] \in Seq(Event \cup {Newline}) /\ Len(files[f]) \in Nat
  BY Typed
<1>2. ASSUME Return
      PROVE  /\ app' = "idle" /\ primed' \in BOOLEAN
             /\ stat' \in [size : Nat, ino : 0..Len(files)] /\ fh' \in 0..Len(files)
  BY <1>1, <1>2 DEF Return, NoStat
<1>3. CASE Stat
  <2>1. /\ offset' \in Nat /\ inode' \in 0..Len(files) /\ events' \in Seq(Event)
        /\ before' \in 0..Events
    <3>1. /\ offset' \in {offset, 0} /\ inode' \in {inode, path}
          /\ events' \in {events, <<>>} /\ before' \in {written, before}
      BY <1>3, StatCases
    <3>2. events' \in Seq(Event)
      <4>1. events \in Seq(Event) /\ <<>> \in Seq(Event)
        BY DEF TypeOK
      <4> QED
        BY <3>1, <4>1, Zenon
    <3>3. offset' \in Nat
      BY <3>1 DEF TypeOK
    <3> QED
      BY <3>1, <3>2, <3>3 DEF TypeOK
  <2>2. /\ app' \in {"idle", "open"} /\ primed' \in BOOLEAN
        /\ stat' \in [size : Nat, ino : 0..Len(files)] /\ fh' \in 0..Len(files)
    BY <1>1, <1>2, <1>3, StatCases DEF TypeOK
  <2> QED
    BY <1>3, <2>1, <2>2, StatCases DEF TypeOK
<1>4. CASE Open
  <2>1. /\ app' \in {"idle", "read"} /\ primed' \in BOOLEAN
        /\ stat' \in [size : Nat, ino : 0..Len(files)] /\ fh' \in 0..Len(files)
    BY <1>2, <1>4 DEF Open, TypeOK
  <2>2. UNCHANGED <<files, path, rotated, written, at, open, offset, inode, events, told, before>>
    BY <1>4 DEF Open, filesystem, daemon
  <2> QED
    BY <2>1, <2>2 DEF TypeOK
<1>5. CASE Read
  <2> DEFINE data  == SubSeq(files[fh], offset + 1, Len(files[fh]))
             fresh == Decoded(data)
  <2>1. data \in Seq(Event \cup {Newline})
    BY <1>1, <1>5, ReadCases, Rest DEF TypeOK
  <2>2. fresh \in Seq(Event)
    <3> HIDE DEF data
    <3> QED
      BY <2>1, DecodedEvents
  <2>3. Recent(events \o fresh) \in Seq(Event)
    <3> HIDE DEF fresh
    <3>1. events \o fresh \in Seq(Event)
      BY <2>2 DEF TypeOK
    <3> QED
      BY <3>1, RecentEvents
  <2>4. /\ \/ UNCHANGED <<offset, events, told>>
           \/ /\ offset' = stat.size
              /\ events' = Recent(events \o fresh)
              /\ told' = IF primed
                           THEN [e \in Event |-> told[e] + IF e \in In(fresh) THEN 1 ELSE 0]
                           ELSE told
        /\ UNCHANGED <<files, path, rotated, written, at, open, inode, before>>
        /\ Return
    BY <1>5, ReadCases
  <2> HIDE DEF data, fresh
  <2>5. offset' \in Nat /\ events' \in Seq(Event)
    BY <2>3, <2>4 DEF TypeOK
  <2>6. told' \in [Event -> Nat]
    <3>1. \A e \in Event : told[e] + (IF e \in In(fresh) THEN 1 ELSE 0) \in Nat
      BY DEF TypeOK
    <3>2. [e \in Event |-> told[e] + IF e \in In(fresh) THEN 1 ELSE 0] \in [Event -> Nat]
      BY <3>1
    <3> QED
      BY <2>4, <3>2 DEF TypeOK
  <2> QED
    BY <1>2, <2>4, <2>5, <2>6 DEF TypeOK
<1> QED
  BY <1>3, <1>4, <1>5 DEF Tick

\* A tick leaves the disk alone.
LEMMA TickLog ==
  ASSUME LogInv, Tailing, Tick
  PROVE  LogInv' /\ UNCHANGED <<files, path, rotated, written>>
<1>1. UNCHANGED <<files, path, rotated, written, at, open>>
  BY DEF Tick, Stat, Open, Read, filesystem, daemon
<1>2. TypeOK'
  BY TickTyped DEF LogInv
<1> QED
  BY <1>1, <1>2 DEF LogInv, Disk, Ordered, Kept, Contents

\* A line of a file that grew was a line when it was there already.
LEMMA LinesKept ==
  ASSUME NEW S, NEW s \in Seq(S), NEW t \in Seq(S), Len(s) <= Len(t),
         \A i \in 1..Len(s) : t[i] = s[i],
         NEW i \in Lines(t), i <= Len(s)
  PROVE  i \in Lines(s)
<1>1. i \in 1..Len(s) /\ Len(s) \in Nat
  BY DEF Lines
<1>2. s[i] = t[i] /\ (i > 1 => s[i - 1] = t[i - 1]) /\ (i < Len(s) => s[i + 1] = t[i + 1] /\ i < Len(t))
  BY <1>1
<1> QED
  BY <1>1, <1>2 DEF Lines, Whole

\* What an invariant of the app needs to know of a step of the daemon.
LEMMA DaemonTail ==
  ASSUME LogInv, LogInv', Appended, Tailing, Counts, Notified, Shown
  PROVE  Tailing' /\ Counts' /\ Notified' /\ Shown'
<1> USE DEF NoFile
<1>1. /\ UNCHANGED <<app, stat, fh, offset, inode, events, primed, told, before>>
      /\ Len(files) <= Len(files')
      /\ written <= written'
  BY DEF Appended, store
<1>2. \A f \in 1..Len(files) :
        /\ Len(files[f]) <= Len(files'[f])
        /\ \A i \in 1..Len(files[f]) : files'[f][i] = files[f][i]
  BY DEF Appended
<1>3. /\ Len(files) \in Nat /\ Len(files') \in Nat
      /\ \A f \in 1..Len(files) : files[f] \in Seq(Event \cup {Newline}) /\ Len(files[f]) \in Nat
      /\ \A f \in 1..Len(files') : files'[f] \in Seq(Event \cup {Newline}) /\ Len(files'[f]) \in Nat
      /\ written \in Nat /\ written' \in Nat /\ offset \in Nat
  <2>1. files' \in Seq(Seq(Event \cup {Newline})) /\ written' \in Nat
    BY EventLogAssumption DEF LogInv, TypeOK
  <2>2. /\ Len(files') \in Nat
        /\ \A f \in 1..Len(files') : files'[f] \in Seq(Event \cup {Newline}) /\ Len(files'[f]) \in Nat
    BY <2>1, FilesTyped
  <2>3. /\ Len(files) \in Nat /\ written \in Nat /\ offset \in Nat
        /\ \A f \in 1..Len(files) : files[f] \in Seq(Event \cup {Newline}) /\ Len(files[f]) \in Nat
    BY Typed DEF LogInv
  <2> QED
    BY <2>1, <2>2, <2>3
<1>4. inode \in 0..Len(files) /\ stat.size \in Nat /\ told \in [Event -> Nat]
  BY DEF LogInv, TypeOK
<1>5. Tailing'
  <2>1. inode # NoFile => /\ Len(files[inode]) \in Nat /\ Len(files'[inode]) \in Nat
                          /\ Len(files[inode]) <= Len(files'[inode])
    BY <1>1, <1>2, <1>3, <1>4
  <2> QED
    BY <1>1, <1>3, <1>4, <2>1 DEF Tailing
<1>6. Counts'
  <2>1. \A e \in Event : told'[e] <= 2 /\ (e > written' => told'[e] = 0)
    BY <1>1, <1>3, EventLogAssumption DEF Counts, Event
  <2>2. ASSUME NEW f \in 1..Len(files'), NEW i \in 1..Len(files'[f]), files'[f][i] # Newline
        PROVE  /\ told'[files'[f][i]] = 2 => Done(f, i)'
               /\ told'[files'[f][i]] = 1 =>
                    Done(f, i)' \/ app' = "idle" \/ (inode' = f /\ i <= stat'.size)
    <3>1. CASE f <= Len(files) /\ i <= Len(files[f])
      <4>1. f \in 1..Len(files) /\ i \in 1..Len(files[f]) /\ files'[f][i] = files[f][i]
        BY <1>2, <1>3, <3>1
      <4>2. Done(f, i) => Done(f, i)'
        BY <1>1, <1>3 DEF Done
      <4> QED
        BY <1>1, <2>2, <4>1, <4>2 DEF Counts
    <3>2. CASE ~(f <= Len(files) /\ i <= Len(files[f]))
      <4>1. files'[f][i] = written + 1
        BY <2>2, <3>2 DEF Appended
      <4>2. files'[f][i] \in Event
        BY <1>3, <2>2
      <4>3. told[files'[f][i]] = 0
        BY <1>3, <4>1, <4>2 DEF Counts
      <4> QED
        BY <1>1, <4>3
    <3> QED
      BY <3>1, <3>2
  <2> QED
    BY <2>1, <2>2 DEF Counts
<1>7. ASSUME inode = Len(files'), inode # NoFile
      PROVE  /\ inode = Len(files) /\ inode \in 1..Len(files) /\ offset <= Len(files[inode])
             /\ \A i \in 1..Len(files[inode]) : files'[inode][i] = files[inode][i]
             /\ \A i \in Lines(files'[inode]) :
                  i <= offset => i \in Lines(files[inode]) /\ files'[inode][i] = files[inode][i]
  <2>1. inode = Len(files) /\ inode \in 1..Len(files) /\ inode \in 1..Len(files') /\ offset <= Len(files[inode])
    BY <1>1, <1>3, <1>4, <1>7 DEF Tailing
  <2>2. /\ files[inode] \in Seq(Event \cup {Newline})
        /\ files'[inode] \in Seq(Event \cup {Newline})
        /\ Len(files[inode]) <= Len(files'[inode])
        /\ \A i \in 1..Len(files[inode]) : files'[inode][i] = files[inode][i]
    BY <1>2, <1>3, <2>1
  <2>3. ASSUME NEW i \in Lines(files'[inode]), i <= offset
        PROVE  i \in Lines(files[inode]) /\ files'[inode][i] = files[inode][i]
    <3>1. i \in 1..Len(files'[inode])
      BY DEF Lines
    <3>2. i <= Len(files[inode]) /\ i \in 1..Len(files[inode])
      BY <1>3, <2>1, <2>3, <3>1
    <3>3. i \in Lines(files[inode])
      BY <2>2, <3>2, LinesKept
    <3> QED
      BY <2>2, <3>2, <3>3
  <2> QED
    BY <2>1, <2>2, <2>3
<1>8. Notified'
  <2>1. ASSUME inode' = Len(files'), inode' # NoFile,
               NEW i \in Lines(files'[inode']), i <= offset', files'[inode'][i] > before'
        PROVE  told'[files'[inode'][i]] > 0
    BY <1>1, <1>7, <2>1 DEF Notified
  <2>2. ASSUME app' \in {"open", "read"}, ~primed', NEW i \in 1..stat'.size
        PROVE  files'[inode'][i] <= before'
    <3>1. inode \in 1..Len(files) /\ stat.size <= Len(files[inode])
      BY <1>1, <1>4, <2>2 DEF Tailing
    <3>2. i \in 1..Len(files[inode])
      BY <1>1, <1>3, <1>4, <2>2, <3>1
    <3> QED
      BY <1>1, <1>2, <2>2, <3>1, <3>2 DEF Notified
  <2> QED
    BY <2>1, <2>2 DEF Notified
<1>9. Shown'
  <2>1. Len(events') <= MaxEvents
    BY <1>1 DEF Shown
  <2>2. ASSUME inode' = Len(files'), inode' # NoFile
        PROVE  LET read == {i \in Lines(files'[inode']) : i <= offset'}
               IN  /\ In(events') \subseteq Bodies(files'[inode'])
                   /\ \/ \A i \in read : files'[inode'][i] \in In(events')
                      \/ /\ Len(events') = MaxEvents
                         /\ \E e \in In(events') : \A i \in read : files'[inode'][i] <= e
    <3>1. Bodies(files[inode]) \subseteq Bodies(files'[inode])
      <4>1. inode \in 1..Len(files) /\ inode \in 1..Len(files')
        BY <1>1, <1>3, <1>7, <2>2
      <4>2. 1..Len(files[inode]) \subseteq 1..Len(files'[inode])
        BY <1>2, <1>3, <4>1
      <4> QED
        BY <1>2, <4>1, <4>2 DEF Bodies, In
    <3>2. /\ inode = Len(files) /\ inode # NoFile
          /\ \A i \in Lines(files'[inode]) :
               i <= offset => i \in Lines(files[inode]) /\ files'[inode][i] = files[inode][i]
      BY <1>1, <1>7, <2>2
    <3> QED
      BY <1>1, <3>1, <3>2 DEF Shown
  <2> QED
    BY <2>1, <2>2 DEF Shown
<1> QED
  BY <1>5, <1>6, <1>8, <1>9

\* A look at the path.
LEMMA StatTail ==
  ASSUME LogInv, Tailing, Counts, Notified, Shown, Stat
  PROVE  Tailing' /\ Counts' /\ Notified' /\ Shown'
<1> USE DEF NoFile
<1>1. TypeOK /\ Disk /\ Ordered
  BY DEF LogInv
<1>2. /\ Len(files) \in Nat /\ offset \in Nat
      /\ \A f \in 1..Len(files) :
           Len(files[f]) \in Nat /\ \A i \in 1..Len(files[f]) : files[f][i] \in Nat
      /\ inode \in 0..Len(files) /\ written \in Nat
  BY <1>1, Typed DEF TypeOK
<1>3. /\ UNCHANGED <<files, written, told>>
      /\ before' = IF app = "off" THEN written ELSE before
      /\ app \in {"off", "idle"}
  BY <1>1, StatCases
<1>4. CASE path = NoFile /\ UNCHANGED <<offset, inode, events>> /\ Return
  <2>1. app' = "idle" /\ primed' = TRUE
    BY <1>4 DEF Return
  <2>2. inode # NoFile => before' = before
    BY <1>3 DEF Tailing
  <2>3. \A f \in 1..Len(files) : \A i \in 1..Len(files[f]) : Done(f, i) => Done(f, i)'
    BY <1>3, <1>4, <2>1 DEF Done
  <2>4. Tailing'
    BY <1>3, <1>4, <2>1 DEF Tailing
  <2>5. Counts'
    BY <1>3, <1>4, <2>1, <2>3 DEF Counts
  <2>6. Notified'
    BY <1>3, <1>4, <2>1, <2>2 DEF Notified
  <2>7. Shown'
    BY <1>3, <1>4 DEF Shown
  <2> QED
    BY <2>4, <2>5, <2>6, <2>7
<1>5. CASE /\ path \in 1..Len(files) /\ inode' = path
           /\ \/ inode = path /\ offset' = offset /\ events' = events
              \/ inode # path /\ offset' = 0 /\ events' = <<>>
           /\ \/ Return
              \/ /\ app' = "open" /\ offset' < Len(files[path])
                 /\ stat' = [size |-> Len(files[path]), ino |-> path]
                 /\ UNCHANGED <<fh, primed>>
  <2>1. path = Len(files) /\ Len(files[path]) \in Nat
    BY <1>1, <1>2, <1>5 DEF Disk
  <2>2. \/ app' = "idle" /\ primed' = TRUE
        \/ /\ app' = "open" /\ offset' < Len(files[path])
           /\ stat'.size = Len(files[path]) /\ stat'.ino = path
           /\ primed' = primed
    BY <1>5 DEF Return
  <2>3. \/ inode = path /\ offset' = offset /\ events' = events /\ before' = before /\ app = "idle"
        \/ inode # path /\ offset' = 0 /\ events' = <<>>
    BY <1>3, <1>5 DEF Tailing
  <2>4. offset' \in Nat /\ offset' <= Len(files[path])
    BY <1>2, <1>5, <2>1, <2>3 DEF Tailing
  <2>5. Tailing'
    BY <1>3, <1>5, <2>1, <2>2, <2>4 DEF Tailing
  <2>6. Counts'
    <3>1. ASSUME NEW f \in 1..Len(files), NEW i \in 1..Len(files[f])
          PROVE  /\ Done(f, i) => Done(f, i)'
                 /\ Done(f, i)' \/ app' = "idle" \/ (inode' = f /\ i <= stat'.size)
      <4>1. f < Len(files) => Done(f, i)'
        BY <1>3, <2>2 DEF Done
      <4>2. f = Len(files) /\ inode = f /\ i <= offset => Done(f, i)'
        BY <1>3, <1>5, <2>1, <2>3 DEF Done
      <4>3. f = Len(files) /\ app' # "idle" => inode' = f /\ i <= stat'.size
        BY <1>2, <1>5, <2>1, <2>2
      <4> QED
        BY <1>2, <4>1, <4>2, <4>3 DEF Done
    <3>2. \A e \in Event : told'[e] <= 2 /\ (e > written' => told'[e] = 0)
      BY <1>3 DEF Counts
    <3> QED
      BY <1>3, <3>1, <3>2 DEF Counts
  <2>7. Notified'
    <3>1. ASSUME NEW i \in Lines(files[path]), i <= offset', files[path][i] > before'
          PROVE  told[files[path][i]] > 0
      <4>1. i \in 1..Len(files[path])
        BY DEF Lines
      <4>2. inode = path /\ offset' = offset /\ before' = before
        BY <2>1, <2>3, <3>1, <4>1
      <4> QED
        BY <1>5, <2>1, <3>1, <4>2 DEF Notified
    <3>2. ASSUME app' \in {"open", "read"}, ~primed', NEW i \in 1..stat'.size
          PROVE  files[path][i] <= before'
      <4>1. before' = written /\ i \in 1..Len(files[path])
        BY <1>3, <2>1, <2>2, <3>2 DEF Tailing
      <4>2. files[path][i] # Newline => files[path][i] <= written
        BY <1>1, <1>5, <4>1 DEF Ordered
      <4> QED
        BY <1>2, <4>1, <4>2 DEF Newline
    <3> QED
      BY <1>3, <1>5, <3>1, <3>2 DEF Notified
  <2>8. Shown'
    <3>1. CASE inode = path /\ offset' = offset /\ events' = events
      BY <1>3, <1>5, <2>1, <3>1 DEF Shown
    <3>2. CASE offset' = 0 /\ events' = <<>>
      <4>1. In(events') = {} /\ Len(events') <= MaxEvents
        BY <3>2, EventLogAssumption DEF In
      <4>2. {i \in Lines(files[path]) : i <= offset'} = {}
        BY <2>1, <3>2 DEF Lines
      <4> QED
        BY <1>3, <1>5, <4>1, <4>2 DEF Shown
    <3> QED
      BY <2>3, <3>1, <3>2
  <2> QED
    BY <2>5, <2>6, <2>7, <2>8
<1> QED
  BY <1>1, <1>4, <1>5, StatCases

\* The open of what is at the path by then.
LEMMA OpenTail ==
  ASSUME LogInv, Tailing, Counts, Notified, Shown, Open
  PROVE  Tailing' /\ Counts' /\ Notified' /\ Shown'
<1> USE DEF NoFile
<1>1. TypeOK /\ Disk
  BY DEF LogInv
<1>2. Len(files) \in Nat /\ inode \in 0..Len(files)
  BY <1>1, Typed DEF TypeOK
<1>3. /\ UNCHANGED <<files, written, offset, inode, events, told, before>>
      /\ app = "open"
      /\ \/ app' = "idle" /\ primed' = TRUE
         \/ app' = "read" /\ fh' = path /\ path = Len(files) /\ stat' = stat /\ primed' = primed
  BY <1>1 DEF Open, Return, filesystem, daemon, Disk
<1>4. Tailing'
  BY <1>2, <1>3 DEF Tailing
<1>5. Counts'
  <2>1. \A f \in 1..Len(files) : \A i \in 1..Len(files[f]) : Done(f, i) => Done(f, i)'
    BY <1>2, <1>3 DEF Done
  <2>2. \A e \in Event : told'[e] <= 2 /\ (e > written' => told'[e] = 0)
    BY <1>3 DEF Counts
  <2>3. app' = "idle" \/ stat' = stat
    BY <1>3
  <2> QED
    BY <1>3, <2>1, <2>2, <2>3 DEF Counts
<1>6. Notified'
  BY <1>3 DEF Notified
<1>7. Shown'
  BY <1>3 DEF Shown
<1> QED
  BY <1>4, <1>5, <1>6, <1>7

\* The elements of two sequences in one.
LEMMA InBoth ==
  ASSUME NEW S, NEW a \in Seq(S), NEW b \in Seq(S)
  PROVE  In(a \o b) = In(a) \cup In(b)
<1>1. /\ Len(a \o b) = Len(a) + Len(b) /\ Len(a) \in Nat /\ Len(b) \in Nat
      /\ \A i \in 1..Len(a) : (a \o b)[i] = a[i]
      /\ \A i \in 1..Len(b) : (a \o b)[Len(a) + i] = b[i]
  OBVIOUS
<1>2. \A i \in 1..Len(a \o b) :
        \/ i \in 1..Len(a)
        \/ i - Len(a) \in 1..Len(b) /\ i = Len(a) + (i - Len(a))
  BY <1>1
<1>3. /\ \A i \in 1..Len(a) : i \in 1..Len(a \o b)
      /\ \A i \in 1..Len(b) : Len(a) + i \in 1..Len(a \o b)
  BY <1>1
<1> DEFINE c == a \o b
<1> HIDE DEF c
<1>4. In(c) \subseteq In(a) \cup In(b)
  BY <1>1, <1>2 DEF In, c
<1>5. In(a) \cup In(b) \subseteq In(c)
  BY <1>1, <1>3 DEF In, c
<1> QED
  BY <1>4, <1>5 DEF c

\* The events that a read decodes are on lines of the file behind what counted
\* as read, and every such line is decoded.
LEMMA FreshLines ==
  ASSUME LogInv, NEW f \in 1..Len(files)
  PROVE  LET fresh == Decoded(SubSeq(files[f], offset + 1, Len(files[f])))
         IN  /\ fresh \in Seq(Event) /\ Len(fresh) \in Nat
             /\ \A e \in In(fresh) : \E i \in 1..Len(files[f]) :
                  i > offset /\ files[f][i] = e /\ e # Newline
             /\ \A i \in Lines(files[f]) : i > offset => files[f][i] \in In(fresh)
             /\ Len(fresh) > 0 => \E l \in 1..Len(files[f]) :
                  /\ l > offset /\ files[f][l] = fresh[Len(fresh)] /\ files[f][l] # Newline
                  /\ \A i \in Lines(files[f]) : i <= l
<1> DEFINE s     == files[f]
           data  == SubSeq(s, offset + 1, Len(s))
           fresh == Decoded(data)
<1>1. s \in Seq(Event \cup {Newline}) /\ offset \in Nat /\ Len(s) \in Nat
  BY Typed DEF LogInv
<1> HIDE DEF s
<1>2. /\ data \in Seq(Event \cup {Newline})
      /\ Len(data) = IF offset < Len(s) THEN Len(s) - offset ELSE 0
      /\ \A j \in 1..Len(data) : data[j] = s[offset + j]
  BY <1>1, Rest
<1>3. \A i \in Lines(s) : i > offset => i - offset \in Lines(data)
  BY <1>1, RestLines
<1> HIDE DEF data
<1>4. fresh \in Seq(Event)
  BY <1>2, DecodedEvents
<1>5. /\ In(fresh) = {data[j] : j \in Lines(data)}
      /\ Len(fresh) \in Nat
      /\ Len(fresh) = 0 <=> Lines(data) = {}
      /\ Lines(data) # {} => \E l \in Lines(data) :
           fresh[Len(fresh)] = data[l] /\ \A j \in Lines(data) : j <= l
  BY <1>2, DecodedLines
<1> HIDE DEF fresh
<1>6. \A j \in Lines(data) :
        /\ j \in 1..Len(data)
        /\ offset + j \in 1..Len(s) /\ offset + j > offset
        /\ s[offset + j] = data[j] /\ data[j] # Newline
  BY <1>1, <1>2 DEF Lines, Whole
<1>7. \A e \in In(fresh) : \E i \in 1..Len(s) : i > offset /\ s[i] = e /\ e # Newline
  BY <1>5, <1>6
<1>8. ASSUME NEW i \in Lines(s), i > offset
      PROVE  s[i] \in In(fresh)
  <2>1. i - offset \in Lines(data)
    BY <1>3, <1>8
  <2>2. i \in Int /\ offset + (i - offset) = i
    BY <1>1 DEF Lines
  <2>3. data[i - offset] = s[i]
    BY <1>6, <2>1, <2>2
  <2> QED
    BY <1>5, <2>1, <2>3
<1>9. ASSUME Len(fresh) > 0
      PROVE  \E l \in 1..Len(s) :
               /\ l > offset /\ s[l] = fresh[Len(fresh)] /\ s[l] # Newline
               /\ \A i \in Lines(s) : i <= l
  <2>1. PICK l \in Lines(data) : fresh[Len(fresh)] = data[l] /\ \A j \in Lines(data) : j <= l
    BY <1>5, <1>9
  <2>2. /\ offset + l \in 1..Len(s) /\ offset + l > offset
        /\ s[offset + l] = fresh[Len(fresh)] /\ s[offset + l] # Newline
    BY <1>6, <2>1
  <2>3. ASSUME NEW i \in Lines(s)
        PROVE  i <= offset + l
    <3>1. i \in Int /\ l \in Nat
      BY <1>2, <1>6, <2>1 DEF Lines
    <3>2. i > offset => i - offset <= l
      BY <1>3, <2>1
    <3> QED
      BY <1>1, <3>1, <3>2
  <2> QED
    BY <2>2, <2>3
<1> QED
  BY <1>4, <1>5, <1>7, <1>8, <1>9 DEF s, data, fresh

\* A read, of the file that was looked at or of one that has replaced it.
LEMMA ReadTail ==
  ASSUME LogInv, Tailing, Counts, Notified, Shown, Read
  PROVE  Tailing' /\ Counts' /\ Notified' /\ Shown'
<1> USE DEF NoFile
<1> DEFINE data  == SubSeq(files[fh], offset + 1, Len(files[fh]))
           fresh == Decoded(data)
<1>1. TypeOK /\ Ordered
  BY DEF LogInv
<1>2. /\ Len(files) \in Nat /\ offset \in Nat /\ before \in Nat /\ written \in Nat
      /\ \A f \in 1..Len(files) :
           Len(files[f]) \in Nat /\ \A i \in 1..Len(files[f]) :
             files[f][i] \in Nat /\ (files[f][i] # Newline => files[f][i] \in Event)
      /\ inode \in 1..Len(files) /\ fh \in 1..Len(files) /\ inode <= fh
      /\ stat.size \in Nat /\ offset <= stat.size /\ stat.size <= Len(files[inode])
      /\ told \in [Event -> Nat] /\ events \in Seq(Event)
  <2>1. inode \in 0..Len(files) /\ inode # 0 /\ inode <= fh /\ offset <= stat.size /\ stat.size <= Len(files[inode])
    BY <1>1 DEF Read, Tailing, TypeOK
  <2>2. fh \in 1..Len(files)
    BY <1>1, ReadCases
  <2>3. stat.size \in Nat /\ told \in [Event -> Nat] /\ events \in Seq(Event)
    BY <1>1 DEF TypeOK
  <2> QED
    BY <1>1, <2>1, <2>2, <2>3, Typed
<1>3. /\ UNCHANGED <<files, written, inode, before>>
      /\ app = "read" /\ app' = "idle" /\ primed' = TRUE
  BY <1>1, ReadCases DEF Return
<1>4. \/ data = <<>> /\ UNCHANGED <<offset, events, told>>
      \/ /\ offset' = stat.size
         /\ events' = Recent(events \o fresh)
         /\ told' = IF primed
                      THEN [e \in Event |-> told[e] + IF e \in In(fresh) THEN 1 ELSE 0]
                      ELSE told
  BY <1>1, ReadCases
<1>5. /\ fresh \in Seq(Event) /\ Len(fresh) \in Nat
      /\ \A e \in In(fresh) : \E i \in 1..Len(files[fh]) :
           i > offset /\ files[fh][i] = e /\ e # Newline
      /\ \A i \in Lines(files[fh]) : i > offset => files[fh][i] \in In(fresh)
      /\ Len(fresh) > 0 => \E l \in 1..Len(files[fh]) :
           /\ l > offset /\ files[fh][l] = fresh[Len(fresh)] /\ files[fh][l] # Newline
           /\ \A i \in Lines(files[fh]) : i <= l
  BY <1>2, FreshLines
<1> HIDE DEF data, fresh
<1>6. offset' \in Nat /\ offset <= offset' /\ offset' <= Len(files[inode])
  BY <1>2, <1>4 DEF Tailing
<1>7. Tailing'
  BY <1>2, <1>3, <1>6 DEF Tailing
<1>8. ASSUME NEW e \in Event
      PROVE  /\ told[e] \in Nat /\ told'[e] \in Nat
             /\ \/ told'[e] = told[e]
                \/ /\ told'[e] = told[e] + 1 /\ e \in In(fresh)
                   /\ primed /\ offset' = stat.size
  BY <1>2, <1>4
<1>9. ASSUME NEW i \in 1..Len(files[fh]), i > offset, files[fh][i] # Newline
      PROVE  ~Done(fh, i)
  BY <1>2, <1>3, <1>9 DEF Done
<1>10. Counts'
  <2>1. ASSUME NEW e \in Event
        PROVE  told'[e] <= 2 /\ (e > written => told'[e] = 0)
    <3>1. CASE told'[e] = told[e]
      BY <3>1 DEF Counts
    <3>2. CASE told'[e] = told[e] + 1 /\ e \in In(fresh)
      <4>1. PICK i \in 1..Len(files[fh]) : i > offset /\ files[fh][i] = e /\ e # Newline
        BY <1>5, <3>2
      <4>2. told[e] # 2
        BY <1>2, <1>9, <4>1 DEF Counts
      <4>3. told[e] <= 2 /\ told[e] \in Nat
        BY <1>8 DEF Counts
      <4>4. e <= written /\ e \in Nat
        BY <1>1, <1>2, <4>1 DEF Ordered
      <4> QED
        BY <1>2, <3>2, <4>2, <4>3, <4>4
    <3> QED
      BY <1>8, <3>1, <3>2
  <2>2. ASSUME NEW f \in 1..Len(files), NEW i \in 1..Len(files[f]), files[f][i] # Newline,
               told'[files[f][i]] = 2
        PROVE  Done(f, i)'
    <3> DEFINE e == files[f][i]
    <3>1. e \in Event
      BY <1>2, <2>2
    <3>2. Done(f, i) => Done(f, i)'
      BY <1>2, <1>3, <1>6 DEF Done
    <3>3. CASE told'[e] = told[e]
      BY <2>2, <3>2, <3>3 DEF Counts
    <3>4. CASE told'[e] = told[e] + 1 /\ e \in In(fresh) /\ offset' = stat.size
      <4>1. PICK j \in 1..Len(files[fh]) : j > offset /\ files[fh][j] = e /\ e # Newline
        BY <1>5, <3>4
      <4>2. f = fh /\ i = j
        <5>1. ~(f < fh \/ (f = fh /\ i < j)) /\ ~(fh < f \/ (fh = f /\ j < i))
          <6>1. e \in Nat /\ files[f][i] = e /\ files[fh][j] = e
            BY <1>2, <4>1
          <6>2. f < fh \/ (f = fh /\ i < j) => files[f][i] < files[fh][j]
            BY <1>1, <1>2, <2>2, <4>1 DEF Ordered
          <6>3. fh < f \/ (fh = f /\ j < i) => files[fh][j] < files[f][i]
            BY <1>1, <1>2, <2>2, <4>1 DEF Ordered
          <6> QED
            BY <6>1, <6>2, <6>3
        <5>2. f \in Int /\ fh \in Int /\ i \in Int /\ j \in Int
          BY <1>2
        <5> QED
          BY <5>1, <5>2
      <4>3. ~Done(f, i)
        BY <1>9, <4>1, <4>2
      <4>4. told[e] = 1
        BY <1>8, <2>2, <3>1, <3>4
      <4>5. inode = f /\ i <= stat.size
        BY <1>3, <2>2, <4>3, <4>4 DEF Counts
      <4> QED
        BY <1>3, <3>4, <4>5 DEF Done
    <3> QED
      BY <1>8, <3>1, <3>3, <3>4
  <2> QED
    BY <1>3, <2>1, <2>2 DEF Counts
<1>11. inode = Len(files) => fh = inode
  BY <1>2
<1>12. Notified'
  <2>1. ASSUME inode = Len(files), NEW i \in Lines(files[inode]), i <= offset', files[inode][i] > before
        PROVE  told'[files[inode][i]] > 0
    <3> DEFINE e == files[inode][i]
    <3>1. i \in 1..Len(files[inode]) /\ e # Newline
      BY DEF Lines, Whole
    <3>2. e \in Event
      BY <1>2, <3>1
    <3>3. CASE i <= offset
      <4>1. told[e] > 0
        BY <1>2, <2>1, <3>3 DEF Notified
      <4> QED
        BY <1>8, <3>2, <4>1
    <3>4. CASE i > offset
      <4>1. offset' # offset
        BY <1>2, <1>6, <2>1, <3>1, <3>4
      <4>2. offset' = stat.size /\ e \in In(fresh)
        BY <1>4, <1>5, <1>11, <2>1, <3>4, <4>1
      <4>3. primed
        <5>1. i \in 1..stat.size
          BY <1>2, <2>1, <3>1, <4>2
        <5>2. e \in Nat
          BY <1>2, <3>1
        <5> QED
          BY <1>2, <1>3, <2>1, <5>1, <5>2 DEF Notified
      <4>4. told'[e] = told[e] + 1
        BY <1>2, <1>4, <3>2, <4>1, <4>2, <4>3
      <4> QED
        BY <1>2, <3>2, <4>4
    <3> QED
      BY <1>2, <3>1, <3>3, <3>4
  <2> QED
    BY <1>3, <2>1 DEF Notified
<1>13. Shown'
  <2>1. CASE UNCHANGED <<offset, events>>
    BY <1>3, <2>1 DEF Shown
  <2>2. CASE offset' = stat.size /\ events' = Recent(events \o fresh)
    <3> DEFINE both == events \o fresh
    <3>1. /\ both \in Seq(Event) /\ Len(both) = Len(events) + Len(fresh)
          /\ Len(events) \in Nat /\ Len(events) <= MaxEvents
          /\ Len(fresh) > 0 => both[Len(both)] = fresh[Len(fresh)]
      BY <1>2, <1>5 DEF Shown
    <3>2. In(both) = In(events) \cup In(fresh)
      BY <1>2, <1>5, InBoth
    <3> HIDE DEF both
    <3>3. /\ Len(events') <= MaxEvents
          /\ In(events') \subseteq In(both)
          /\ Len(both) <= MaxEvents => events' = both
          /\ Len(both) > MaxEvents => Len(events') = MaxEvents /\ both[Len(both)] \in In(events')
      BY <2>2, <3>1, RecentEvents DEF both
    <3>4. ASSUME inode = Len(files)
          PROVE  LET read == {i \in Lines(files[inode]) : i <= offset'}
                 IN  /\ In(events') \subseteq Bodies(files[inode])
                     /\ \/ \A i \in read : files[inode][i] \in In(events')
                        \/ /\ Len(events') = MaxEvents
                           /\ \E e \in In(events') : \A i \in read : files[inode][i] <= e
      <4> DEFINE s == files[inode]
      <4>1. fh = inode /\ \A i \in Lines(s) : i \in 1..Len(s) /\ i \in Int
        BY <1>11, <3>4 DEF Lines
      <4>2. /\ In(events) \subseteq Bodies(s)
            /\ \/ \A i \in Lines(s) : i <= offset => s[i] \in In(events)
               \/ /\ Len(events) = MaxEvents
                  /\ \E e \in In(events) : \A i \in Lines(s) : i <= offset => s[i] <= e
        BY <1>2, <3>4 DEF Shown
      <4>3. In(fresh) \subseteq Bodies(s)
        BY <1>5, <4>1 DEF Bodies, In
      <4>4. In(events') \subseteq Bodies(s)
        BY <3>2, <3>3, <4>2, <4>3
      <4>5. CASE Len(both) <= MaxEvents
        <5>1. events' = both /\ \A i \in Lines(s) : i > offset => s[i] \in In(events')
          BY <1>5, <3>2, <3>3, <4>1, <4>5
        <5>2. CASE \A i \in Lines(s) : i <= offset => s[i] \in In(events)
          <6>1. \A i \in Lines(s) : s[i] \in In(events')
            BY <1>2, <3>2, <4>1, <5>1, <5>2
          <6> QED
            BY <4>4, <6>1
        <5>3. CASE /\ Len(events) = MaxEvents
                   /\ \E e \in In(events) : \A i \in Lines(s) : i <= offset => s[i] <= e
          <6>1. Len(fresh) = 0 /\ Len(events') = MaxEvents
            BY <1>5, <3>1, <4>5, <5>1, <5>3, EventLogAssumption
          <6>2. In(fresh) = {}
            BY <6>1 DEF In
          <6>3. \A i \in Lines(s) : i <= offset
            BY <1>2, <1>5, <4>1, <6>2
          <6>4. \E e \in In(events') : \A i \in Lines(s) : s[i] <= e
            BY <3>2, <5>1, <5>3, <6>3
          <6> QED
            BY <4>4, <6>1, <6>4
        <5> QED
          BY <4>2, <5>2, <5>3
      <4>6. CASE Len(both) > MaxEvents
        <5>1. Len(fresh) > 0
          BY <1>5, <3>1, <4>6, EventLogAssumption
        <5>2. PICK l \in 1..Len(s) :
                /\ s[l] = fresh[Len(fresh)] /\ s[l] # Newline
                /\ \A i \in Lines(s) : i <= l
          BY <1>5, <4>1, <5>1
        <5>3. Len(events') = MaxEvents /\ s[l] \in In(events')
          BY <3>1, <3>3, <4>6, <5>1, <5>2
        <5>4. ASSUME NEW i \in Lines(s)
              PROVE  s[i] <= s[l]
          <6>1. s[i] # Newline /\ i \in 1..Len(s)
            BY DEF Lines, Whole
          <6>2. i < l => s[i] < s[l]
            BY <1>1, <1>2, <5>2, <6>1 DEF Ordered
          <6>3. s[i] \in Nat /\ s[l] \in Nat /\ i \in Int /\ l \in Int
            BY <1>2, <6>1
          <6> QED
            BY <5>2, <6>2, <6>3
        <5> QED
          BY <4>4, <5>3, <5>4
      <4> QED
        BY <1>5, <3>1, <4>5, <4>6, EventLogAssumption
    <3> QED
      BY <1>3, <3>3, <3>4 DEF Shown
  <2> QED
    BY <1>4, <2>1, <2>2
<1> QED
  BY <1>7, <1>10, <1>12, <1>13

-----------------------------------------------------------------------------
(* The theorems. *)

\* The invariant holds at the start.
LEMMA TailInit == Init => TailInv
<1> SUFFICES ASSUME Init
             PROVE  TailInv
  OBVIOUS
<1> USE EventLogAssumption DEF Init, NoFile, NoStat
<1>1. Len(files) = 0 /\ files \in Seq(Seq(Event \cup {Newline})) /\ events \in Seq(Event)
  OBVIOUS
<1>2. TypeOK
  <2>1. told \in [Event -> Nat] /\ stat \in [size : Nat, ino : 0..Len(files)]
    BY <1>1
  <2>2. open \in BOOLEAN /\ primed \in BOOLEAN
    OBVIOUS
  <2> QED
    BY <1>1, <2>1, <2>2 DEF TypeOK
<1>3. Kept
  <2>1. Bodies(<<>>) = {}
    BY DEF Bodies, In
  <2>2. 1 \in 1..written + 1 /\ 1..1 - 1 = {} /\ 1..written = {}
    OBVIOUS
  <2> QED
    BY <2>1, <2>2 DEF Kept, Contents
<1>4. Disk /\ Ordered
  BY <1>1 DEF Disk, Ordered
<1>5. Tailing /\ Notified
  BY DEF Tailing, Notified
<1>6. Counts
  BY <1>1 DEF Counts
<1>7. Shown
  BY DEF Shown
<1> QED
  BY <1>2, <1>3, <1>4, <1>5, <1>6, <1>7 DEF TailInv, LogInv

\* Every step keeps it: the daemon by what it adds to the files, the app by
\* the three steps of a tick.
LEMMA TailStep == TailInv /\ [Next]_vars => TailInv'
<1> SUFFICES ASSUME TailInv, [Next]_vars
             PROVE  TailInv'
  OBVIOUS
<1> USE DEF TailInv
<1>1. CASE Appending \/ Restart
  BY <1>1, DaemonStep, DaemonTail
<1>2. CASE Tick
  BY <1>2, TickLog, StatTail, OpenTail, ReadTail DEF Tick
<1>3. CASE UNCHANGED vars
  BY <1>3 DEF vars, filesystem, daemon, store, LogInv, TypeOK, Disk, Ordered, Kept, Contents,
              Tailing, Counts, Done, Notified, Shown
<1> QED
  BY <1>1, <1>2, <1>3 DEF Next

\* TailInv is inductive.
THEOREM LogInductive == Spec => []TailInv
BY TailInit, TailStep, PTL DEF Spec

\* Every variable of the log and of its reader stays within its type.
THEOREM LogTypeCorrect == Spec => []TypeOK
<1>1. TailInv => TypeOK
  BY DEF TailInv, LogInv
<1> QED
  BY <1>1, LogInductive, PTL

\* Whatever fails or restarts between any two writes, the two generations of
\* the log hold the latest events, in order and without a gap (Log::append).
THEOREM LatestAreKept == Spec => []KeepsLatest
<1>1. TailInv => KeepsLatest
  <2> SUFFICES ASSUME LogInv
               PROVE  KeepsLatest
    BY DEF TailInv
  <2> USE DEF NoFile
  <2> DEFINE a == Contents(rotated)
             b == Contents(path)
             kept == a \o b
  <2>1. a \in Seq(Event \cup {Newline}) /\ b \in Seq(Event \cup {Newline})
    BY Typed DEF LogInv, TypeOK, Contents
  <2> HIDE DEF a, b
  <2>2. In(kept) = In(a) \cup In(b)
    BY <2>1, InBoth
  <2>3. PICK first \in 1..written + 1 : \E oldest \in 1..first :
          /\ Bodies(a) = oldest..first - 1
          /\ Bodies(b) = first..written
          /\ oldest = 1 \/ Len(a) > MaxBytes
    BY DEF LogInv, Kept, a, b
  <2>4. PICK oldest \in 1..first :
          /\ Bodies(a) = oldest..first - 1
          /\ Bodies(b) = first..written
          /\ oldest = 1 \/ Len(a) > MaxBytes
    BY <2>3
  <2>5. written \in Nat
    BY Typed DEF LogInv
  <2>6. Bodies(kept) = oldest..written /\ oldest \in 1..written + 1
    <3>1. Bodies(kept) = (oldest..first - 1) \cup (first..written)
      BY <2>2, <2>4 DEF Bodies
    <3> HIDE DEF kept
    <3> QED
      BY <2>5, <3>1
  <2>7. ASSUME NEW i \in 1..Len(kept), NEW j \in 1..Len(kept),
               i < j, kept[i] # Newline, kept[j] # Newline
        PROVE  kept[i] < kept[j]
    <3>1. /\ Len(a) \in Nat /\ Len(b) \in Nat /\ Len(kept) = Len(a) + Len(b)
          /\ \A k \in 1..Len(a) : kept[k] = a[k]
          /\ \A k \in 1..Len(kept) : k > Len(a) => k - Len(a) \in 1..Len(b) /\ kept[k] = b[k - Len(a)]
      BY <2>1
    <3>2. /\ Len(a) > 0 => rotated \in 1..Len(files) /\ a = files[rotated]
          /\ Len(b) > 0 => path \in 1..Len(files) /\ b = files[path] /\ rotated < path
      <4>1. Len(<<>>) = 0 /\ Len(files) \in Nat
        BY Typed DEF LogInv
      <4> QED
        BY <4>1 DEF LogInv, TypeOK, Disk, Contents, a, b
    <3> HIDE DEF kept
    <3>3. CASE j <= Len(a)
      <4>1. i \in 1..Len(a) /\ j \in 1..Len(a) /\ Len(a) > 0
        BY <2>7, <3>1, <3>3
      <4> QED
        BY <2>7, <3>1, <3>2, <4>1 DEF LogInv, Ordered
    <3>4. CASE i <= Len(a) /\ j > Len(a)
      <4>1. i \in 1..Len(a) /\ Len(a) > 0 /\ j - Len(a) \in 1..Len(b) /\ Len(b) > 0
        BY <3>1, <3>4
      <4>2. kept[i] = a[i] /\ kept[j] = b[j - Len(a)]
        BY <3>1, <3>4, <4>1
      <4> QED
        BY <2>7, <3>2, <4>1, <4>2 DEF LogInv, Ordered
    <3>5. CASE i > Len(a)
      <4>1. /\ i - Len(a) \in 1..Len(b) /\ j - Len(a) \in 1..Len(b) /\ Len(b) > 0
            /\ i - Len(a) < j - Len(a)
        BY <2>7, <3>1, <3>5
      <4>2. kept[i] = b[i - Len(a)] /\ kept[j] = b[j - Len(a)]
        BY <2>7, <3>1, <3>5
      <4> QED
        BY <2>7, <3>2, <4>1, <4>2 DEF LogInv, Ordered
    <3> QED
      BY <2>7, <3>1, <3>3, <3>4, <3>5
  <2> QED
    BY <2>4, <2>6, <2>7 DEF KeepsLatest, a, b
<1> QED
  BY <1>1, LogInductive, PTL

\* An app that caught up has read every line of the newest file.
LEMMA CaughtUpWithAll ==
  ASSUME TailInv, CaughtUp
  PROVE  /\ inode = path /\ inode = Len(files) /\ inode # NoFile
         /\ In(Decoded(files[path])) = {files[path][i] : i \in Lines(files[path])}
         /\ \A i \in Lines(files[path]) : i <= offset
<1>1. /\ inode = path /\ inode = Len(files) /\ inode # NoFile
      /\ path \in 1..Len(files)
      /\ offset = Len(files[path])
  BY DEF CaughtUp, TailInv, LogInv, Disk, TypeOK, NoFile
<1>2. files[path] \in Seq(Event \cup {Newline})
  BY <1>1, Typed DEF TailInv, LogInv
<1>3. In(Decoded(files[path])) = {files[path][i] : i \in Lines(files[path])}
  BY <1>2, DecodedLines
<1>4. ASSUME NEW i \in Lines(files[path])
      PROVE  i <= offset
  <2>1. i \in 1..Len(files[path]) /\ Len(files[path]) \in Nat
    BY <1>2 DEF Lines
  <2>2. i <= Len(files[path])
    BY <2>1
  <2>3. offset = Len(files[path])
    BY <1>1
  <2> QED
    BY <2>2, <2>3, Zenon
<1> QED
  BY <1>1, <1>3, <1>4

\* An app that caught up shows the file, whatever was appended or rotated
\* between its looking, opening and reading (EventStore.tick).
THEOREM FileIsShown == Spec => []ShowsFile
<1>1. TailInv => ShowsFile
  <2> SUFFICES ASSUME TailInv, CaughtUp
               PROVE  LET lines == In(Decoded(files[path]))
                      IN  /\ In(events) \subseteq Bodies(files[path])
                          /\ \/ lines \subseteq In(events)
                             \/ /\ Len(events) = MaxEvents
                                /\ \E e \in In(events) : \A l \in lines : l <= e
    BY DEF ShowsFile
  <2> QED
    BY CaughtUpWithAll DEF TailInv, Shown
<1> QED
  BY <1>1, LogInductive, PTL

\* An app that caught up has notified every event in the file that came after
\* it started (EventStore.tick, notify).
THEOREM EachIsTold == Spec => []TellsEach
<1>1. TailInv => TellsEach
  <2> SUFFICES ASSUME TailInv, CaughtUp
               PROVE  \A e \in In(Decoded(files[path])) : e > before => told[e] > 0
    BY DEF TellsEach
  <2> QED
    BY CaughtUpWithAll DEF TailInv, Notified
<1> QED
  BY <1>1, LogInductive, PTL

\* No event is notified a third time (EventStore.tick, notify).
THEOREM NoneIsToldThrice == Spec => []ToldAtMostTwice
<1>1. TailInv => ToldAtMostTwice
  BY DEF TailInv, Counts, ToldAtMostTwice
<1> QED
  BY <1>1, LogInductive, PTL
=============================================================================
