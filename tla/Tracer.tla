------------------------------- MODULE Tracer -------------------------------
(***************************************************************************)
(* The tracers: a Tracer writes the values of signals to files, one file   *)
(* per signal; a TracerRealTime writes them to buffers of a bounded size,  *)
(* and from there to the files when it is told to.                         *)
(*                                                                         *)
(* A tracer keeps the signals, the names given for their files and the     *)
(* open files in lists that it walks in parallel, and that grow and are    *)
(* emptied at different times; a TracerRealTime has one more, hardFiles,   *)
(* of the ofstreams that the buffers of files go to.  A line of a file is  *)
(* a run of as many equal cells <<signal, time>> as it is wide; a signal   *)
(* that cannot be read leaves a line too, the text of its exception.       *)
(***************************************************************************)
EXTENDS Integers, FiniteSets, SequencesExt

CONSTANTS
  Signals,       \* the signals that can be traced
  Given,         \* names of files that callers give; "" for that of the signal
  shortName,     \* of each signal: its name without that of its entity
  Unwritable,    \* names of files that cannot be created
  Width,         \* cells of a line of each signal
  BufferSizes,   \* values of the bufferSize of a TracerRealTime, in cells
  MaxSignals,    \* bound: signals in the list
  MaxStrays,     \* bound: ofstreams without a buffer
  MaxNames,      \* bound: names in the list
  MaxTime,       \* bound: time
  MaxCells       \* bound: cells that go through a file

ASSUME TracerAssumption ==
  /\ Width \in [Signals -> Nat \ {0}] /\ DOMAIN shortName = Signals
  /\ BufferSizes \subseteq Int /\ \E b \in BufferSizes \cap Nat : \A c \in BufferSizes : c <= b
  /\ MaxSignals \in Nat /\ MaxStrays \in Nat /\ MaxNames \in Nat /\ MaxTime \in Nat /\ MaxCells \in Nat

FileNames == (Given \ {""}) \cup Range(shortName)
Hole == <<"hole", 0>>
Cells == {Hole} \cup (Signals \X (0 .. MaxTime))

VARIABLES
  realTime,        \* the tracer is a TracerRealTime
  toTraceSignals,  \* the lists; files[i] is what a walk of files and hardFiles
  names,           \* meets at the i-th place, the buffer and the ofstream
  files,
  strays,          \* the rest of hardFiles, after the last buffer of files
  dependencies,    \* of triger, which calls record() when it is evaluated
  namesSet, play, timeStart, bufferSize,
  disk,            \* the cells of each file
  signalTime,      \* of each signal; it is the time of the last computation
  asked            \* history: the name asked for each signal of the list

vars == <<realTime, toTraceSignals, names, files, strays, dependencies, namesSet, play, timeStart,
          bufferSize, disk, signalTime, asked>>
lists == <<toTraceSignals, names, dependencies, asked>>
opened == <<files, strays>>
settings == <<realTime, namesSet, play, timeStart, bufferSize>>

BufferSizeDefault == CHOOSE b \in BufferSizes \cap Nat : \A c \in BufferSizes : c <= b

\* The constructor.
Init ==
  /\ realTime \in BOOLEAN
  /\ toTraceSignals = <<>> /\ names = <<>> /\ files = <<>> /\ strays = <<>>
  /\ asked = <<>> /\ dependencies = <<>>
  /\ namesSet = FALSE /\ play = FALSE /\ timeStart = 0 /\ bufferSize = BufferSizeDefault
  /\ disk = [f \in FileNames |-> <<>>]
  /\ signalTime = [s \in Signals |-> 0]

----------------------------------------------------------------------------
(* Files.                                                                  *)

\* The ofstream that openFile() makes: hardFiles has it in a TracerRealTime.
HardFile(s, given) ==
  [sig |-> s, file |-> IF given = "" THEN shortName[s] ELSE given, pos |-> 0]

\* The place of files where an ofstream h meets the buffer made for s, which is
\* the ofstream itself in a Tracer.  taken is history: the cells it should hold.
Stream(h, s, size) ==
  [sig |-> s, for |-> h.sig, file |-> h.file, pos |-> h.pos,
   buffer |-> <<>>, size |-> size, full |-> FALSE, taken |-> <<>>]

\* There is no array of a negative size: OutStringStream::resize() throws.
Allocates == bufferSize >= 0

\* An ofstream truncates the file that it opens.
Opened(streams) ==
  disk' = [f \in FileNames |->
             IF \E i \in DOMAIN streams : streams[i].file = f THEN <<>> ELSE disk[f]]

\* An ofstream writes at its own place, whatever others made of the file.
WriteAt(contents, pos, cells) ==
  [i \in 1 .. (IF pos + Len(cells) > Len(contents) THEN pos + Len(cells) ELSE Len(contents)) |->
     IF i \in pos + 1 .. pos + Len(cells) THEN cells[i - pos]
     ELSE IF i <= Len(contents) THEN contents[i] ELSE Hole]

Good(f) == f.file \notin Unwritable
Indices == [i \in DOMAIN files |-> i]

\* The disk when each open file is given its cells, in turn; a bad one takes none.
Written(cells) ==
  FoldLeft(LAMBDA d, i : IF Good(files[i]) /\ cells[i] # <<>>
                         THEN [d EXCEPT ![files[i].file] = WriteAt(@, files[i].pos, cells[i])]
                         ELSE d,
           disk, Indices)

\* The stream that was given the cells.
Advanced(f, cells) == IF Good(f) THEN [f EXCEPT !.pos = @ + Len(cells)] ELSE f

addDependency(s) == dependencies' = <<s>> \o dependencies
clearDependency == dependencies' = <<>>

\* addSignalToTrace() opens a file at once when openFiles() was called before; when
\* there is no buffer for it, openFile() has put it into hardFiles all the same.
\* The signal is found by its name in the pool, or the call throws before this.
AddSignalToTrace(s, given) ==
  LET hard == Append(strays, HardFile(s, given))
  IN  /\ Len(toTraceSignals) < MaxSignals /\ Len(names) < MaxNames
      /\ toTraceSignals' = Append(toTraceSignals, s)
      /\ names' = Append(names, given)
      /\ asked' = Append(asked, given)
      /\ IF namesSet => Allocates THEN addDependency(s) ELSE UNCHANGED dependencies
      /\ IF namesSet THEN Opened(<<HardFile(s, given)>>) ELSE UNCHANGED disk
      /\ IF namesSet /\ Allocates THEN /\ files' = Append(files, Stream(Head(hard), s, bufferSize))
                                      /\ strays' = Tail(hard)
         ELSE /\ UNCHANGED files /\ (namesSet => Len(strays) < MaxStrays)
              /\ strays' = IF namesSet THEN hard ELSE strays
      /\ UNCHANGED <<settings, signalTime>>

\* closeFiles(): what a TracerRealTime has in its buffers goes nowhere.
CloseFiles ==
  /\ files' = <<>> /\ strays' = <<>>
  /\ UNCHANGED <<lists, settings, disk, signalTime>>

\* What the comment of clearSignalToTrace() says: the files stay.
MutantClear ==
  /\ toTraceSignals' = <<>> /\ asked' = <<>>
  /\ clearDependency
  /\ UNCHANGED <<names, files, strays, settings, disk, signalTime>>

\* clearSignalToTrace(): the names stay.
ClearSignalToTrace ==
  /\ files' = <<>> /\ strays' = <<>>
  /\ toTraceSignals' = <<>> /\ asked' = <<>>
  /\ clearDependency
  /\ UNCHANGED <<names, settings, disk, signalTime>>

\* openFiles(), with files open or not: it closes them, and hardFiles with them, when
\* files is not empty, and opens a file for each signal, up to the first, where it
\* throws, when there are no buffers.
OpenFiles ==
  LET new  == [i \in DOMAIN toTraceSignals |-> HardFile(toTraceSignals[i], names[i])]
      kept == IF files = <<>> THEN strays ELSE <<>>
      hard == kept \o new
      n    == Len(toTraceSignals)
  IN  /\ IF Allocates \/ n = 0
         THEN /\ files' = [i \in 1 .. n |-> Stream(hard[i], toTraceSignals[i], bufferSize)]
              /\ strays' = SubSeq(hard, n + 1, Len(hard))
              /\ Opened(new)
              /\ namesSet' = TRUE
         ELSE /\ files' = <<>>
              /\ strays' = Append(kept, new[1]) /\ Len(kept) < MaxStrays
              /\ Opened(<<new[1]>>)
              /\ UNCHANGED namesSet
      /\ UNCHANGED <<lists, realTime, play, timeStart, bufferSize, signalTime>>

----------------------------------------------------------------------------
(* Recording.                                                              *)

Start == play' = TRUE /\ UNCHANGED <<lists, opened, realTime, namesSet, timeStart, bufferSize, disk, signalTime>>
Stop == play' = FALSE /\ UNCHANGED <<lists, opened, realTime, namesSet, timeStart, bufferSize, disk, signalTime>>

\* Commands setTimeStart and setBufferSize; the size is that of files opened later.
SetTimeStart(t) ==
  timeStart' = t /\ UNCHANGED <<lists, opened, realTime, namesSet, play, bufferSize, disk, signalTime>>
SetBufferSize(n) ==
  /\ realTime
  /\ bufferSize' = n
  /\ UNCHANGED <<lists, opened, realTime, namesSet, play, timeStart, disk, signalTime>>

\* A signal is computed.
Compute(s) ==
  /\ signalTime[s] < MaxTime
  /\ signalTime' = [signalTime EXCEPT ![s] = @ + 1]
  /\ UNCHANGED <<lists, opened, settings, disk>>

\* Tracer::recordSignal(): the line of s, if the signal was computed after timeStart.
Line(s) == IF signalTime[s] > timeStart THEN [i \in 1 .. Width[s] |-> <<s, signalTime[s]>>]
           ELSE <<>>

\* A line is written when the buffer is not full yet.
MutantAddData(f, data) ==
  IF Len(f.buffer) >= f.size THEN [f EXCEPT !.full = TRUE]
  ELSE [f EXCEPT !.buffer = @ \o data]

\* OutStringStream::addData(): all or nothing.
AddData(f, data) ==
  IF Len(f.buffer) + Len(data) > f.size THEN [f EXCEPT !.full = TRUE]
  ELSE [f EXCEPT !.buffer = @ \o data]

\* TracerRealTime::recordSignal(): the text of the stream is cleared, the line is
\* written to it as by Tracer::recordSignal(), and then to the buffer.
RecordSignal(f, s) == AddData(f, Line(s))

\* record() calls it for each signal and its file; the rest of f is as the code does.
Recorded(f, s) ==
  LET fits == realTime => Len(f.buffer) + Len(Line(s)) <= f.size
      done == IF realTime THEN RecordSignal(f, s) ELSE Advanced(f, Line(s))
  IN  [done EXCEPT !.taken = IF fits THEN @ \o Line(s) ELSE @]

\* record(), which triger calls; it throws when there are not as many files.
Record ==
  /\ play /\ Len(files) = Len(toTraceSignals)
  /\ \A i \in DOMAIN files : Len(files[i].taken) < MaxCells
  /\ files' = [i \in DOMAIN files |-> Recorded(files[i], toTraceSignals[i])]
  /\ disk' = IF realTime THEN disk
             ELSE Written([i \in DOMAIN files |-> Line(toTraceSignals[i])])
  /\ UNCHANGED <<lists, strays, settings, signalTime>>

\* The buffer is written and kept.
MutantDumped(f) == [Advanced(f, f.buffer) EXCEPT !.full = FALSE]

\* dump() and empty() of an OutStringStream.
Dumped(f) == [Advanced(f, f.buffer) EXCEPT !.buffer = <<>>, !.full = FALSE]

\* Command dump of a TracerRealTime: the files up to the first bad one, where it
\* throws.  Tracer::trace() does nothing.
Trace ==
  LET reached == {i \in DOMAIN files : \A j \in 1 .. i : Good(files[j])}
  IN  /\ realTime
      /\ files' = [i \in DOMAIN files |-> IF i \in reached THEN Dumped(files[i]) ELSE files[i]]
      /\ disk' = Written([i \in DOMAIN files |-> IF i \in reached THEN files[i].buffer ELSE <<>>])
      /\ UNCHANGED <<lists, strays, settings, signalTime>>

\* Command empty of a TracerRealTime.
EmptyBuffers ==
  /\ realTime
  /\ files' = [i \in DOMAIN files |->
                 [files[i] EXCEPT !.buffer = <<>>, !.full = FALSE,
                                  !.taken = SubSeq(@, 1, files[i].pos)]]
  /\ UNCHANGED <<lists, strays, settings, disk, signalTime>>

\* The tracer is deleted and another is made.  ~Tracer() closes the files of the
\* base class: no file that was dumped is changed.
Renew ==
  /\ toTraceSignals' = <<>> /\ names' = <<>> /\ files' = <<>> /\ strays' = <<>>
  /\ asked' = <<>> /\ dependencies' = <<>>
  /\ namesSet' = FALSE /\ play' = FALSE /\ timeStart' = 0 /\ bufferSize' = BufferSizeDefault
  /\ UNCHANGED <<realTime, disk, signalTime>>

Next ==
  \/ \E s \in Signals, given \in Given : AddSignalToTrace(s, given)
  \/ OpenFiles \/ CloseFiles \/ ClearSignalToTrace
  \/ Start \/ Stop
  \/ \E t \in {0, 1} : SetTimeStart(t)
  \/ \E n \in BufferSizes : SetBufferSize(n)
  \/ \E s \in Signals : Compute(s)
  \/ Record \/ Trace \/ EmptyBuffers \/ Renew

Spec == Init /\ [][Next]_vars

----------------------------------------------------------------------------
(* Properties.                                                             *)

\* The types of the variables.
TypeOK ==
  /\ realTime \in BOOLEAN /\ namesSet \in BOOLEAN /\ play \in BOOLEAN
  /\ toTraceSignals \in Seq(Signals) /\ names \in Seq(Given) /\ asked \in Seq(Given)
  /\ timeStart \in Nat /\ bufferSize \in BufferSizes
  /\ disk \in [FileNames -> Seq(Cells)]
  /\ signalTime \in [Signals -> 0 .. MaxTime]
  /\ \A i \in DOMAIN files :
       /\ files[i].buffer \in Seq(Cells) /\ Len(files[i].buffer) <= files[i].size
       /\ files[i].file \in FileNames
  /\ strays \in Seq([sig : Signals, file : FileNames, pos : {0}])

\* When hardFiles has nothing after the last buffer, the open file at the i-th place
\* from the end is that of the signal there, and hardFiles has at its place the
\* ofstream opened for it.  So when record() finds as many files as signals, which is
\* all that it looks at, it writes each signal to the file that was opened for it, in
\* whatever order signals were added and files opened and closed.  When hardFiles is
\* longer, for there was no buffer for one of them, it still goes to its own buffer.
\* triger, which calls record(), depends on the signals, if no such call was cut short.
FilesMatchSignals ==
  LET missing == Len(toTraceSignals) - Len(files)
      Paired  == \A i \in DOMAIN files : files[i].sig = toTraceSignals[missing + i]
  IN  /\ missing >= 0
      /\ missing = 0 \/ strays = <<>> => Paired
      /\ strays = <<>> => \A i \in DOMAIN files : files[i].for = files[i].sig
      /\ Len(dependencies) = Len(toTraceSignals) => dependencies = Reverse(toTraceSignals)

\* A file that can be written, and that no other stream is open on, holds with
\* the buffer before it the lines recorded since it was opened, less those that
\* found the buffer full and those that were trashed on demand: each whole, once,
\* in order, and of its own signal; the dumps that a bad file stops lose none.
FilesWhole ==
  \A i \in DOMAIN files :
    files[i].file \notin Unwritable
    /\ (\A j \in DOMAIN files \ {i} : files[j].file # files[i].file)
    /\ (\A j \in DOMAIN strays : strays[j].file # files[i].file)
    => /\ disk[files[i].file] \o files[i].buffer = files[i].taken
       /\ \A c \in DOMAIN files[i].taken : files[i].taken[c][1] = files[i].sig

\* The help of command "add" (tracer.cpp:69-70) says that it takes the name of the
\* file of the signal: so, when record() finds as many files as signals, each goes
\* to the file asked for it.  But openFiles() uses the names in the order of the
\* signals, and a buffer is dumped to the ofstream at its place of hardFiles.
NamesAsAsked ==
  Len(files) = Len(toTraceSignals) =>
    \A i \in DOMAIN files : files[i].file = HardFile(toTraceSignals[i], asked[i]).file
=============================================================================
