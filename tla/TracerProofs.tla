---------------------------- MODULE TracerProofs ----------------------------
(***************************************************************************)
(* For any signals, names and bounds, and any sizes that buffers can have: *)
(* the open files of a tracer are those of the last signals of its list,   *)
(* and hardFiles has theirs.  Files that are open when a signal is added   *)
(* are there because openFiles() was called, and after that each signal    *)
(* that is added brings its file.                                          *)
(***************************************************************************)
EXTENDS Tracer, NatLemmas, SequenceTheorems, TLAPS

\* A stream, whatever has been written to it.
AnyStream(f) ==
  f = [sig |-> f.sig, for |-> f.for, file |-> f.file, pos |-> f.pos, buffer |-> f.buffer,
       size |-> f.size, full |-> f.full, taken |-> f.taken]

\* What FilesMatchSignals says, when there is a buffer for each ofstream.
AllPaired ==
  LET missing == Len(toTraceSignals) - Len(files)
  IN  /\ missing >= 0
      /\ \A i \in DOMAIN files :
           files[i].sig = toTraceSignals[missing + i] /\ files[i].for = files[i].sig
      /\ strays = <<>>
      /\ dependencies = Reverse(toTraceSignals)

ListInv ==
  /\ toTraceSignals \in Seq(Signals)
  /\ \E T : files \in Seq(T)
  /\ \A i \in DOMAIN files : AnyStream(files[i])
  /\ files # <<>> => namesSet
  /\ AllPaired

\* The disk when one file is opened, and the stream that an openFile() with a size
\* that a buffer can have makes, when each ofstream has its buffer.
Truncated(file) == [x \in FileNames |-> IF file = x THEN <<>> ELSE disk[x]]

Fresh(s, given) == Stream(HardFile(s, given), s, bufferSize)

LEMMA StreamMade ==
  ASSUME NEW s, NEW given
  PROVE  LET f == Fresh(s, given)
         IN  /\ AnyStream(f) /\ f.sig = s /\ f.for = s
             /\ f.file = HardFile(s, given).file
BY DEF AnyStream, Fresh, Stream, HardFile

\* Buffers are made of any natural size, so each ofstream gets its own.
LEMMA FileAdded ==
  ASSUME strays = <<>>, bufferSize \in Nat, NEW s, NEW given, AddSignalToTrace(s, given)
  PROVE  /\ toTraceSignals' = Append(toTraceSignals, s)
         /\ dependencies' = <<s>> \o dependencies
         /\ strays' = <<>>
         /\ files' = IF namesSet THEN Append(files, Fresh(s, given)) ELSE files
         /\ disk' = IF namesSet THEN Truncated(Fresh(s, given).file) ELSE disk
         /\ UNCHANGED settings
<1> DEFINE h == HardFile(s, given)
           hard == Append(strays, h)
<1>1. Allocates
  BY DEF Allocates
<1>2. hard = <<h>> /\ Head(hard) = h /\ Tail(hard) = <<>>
  OBVIOUS
<1>3. Fresh(s, given).file = h.file
  BY StreamMade
<1>4. DOMAIN <<h>> = {1} /\ <<h>>[1] = h
  OBVIOUS
<1>5. /\ toTraceSignals' = Append(toTraceSignals, s)
      /\ dependencies' = <<s>> \o dependencies
      /\ UNCHANGED settings
  BY <1>1 DEF AddSignalToTrace, addDependency
<1>6. CASE namesSet
  <2>1. /\ Opened(<<h>>)
        /\ files' = Append(files, Stream(Head(hard), s, bufferSize))
        /\ strays' = Tail(hard)
    BY <1>1, <1>6 DEF AddSignalToTrace
  <2> HIDE DEF h, hard
  <2>2. disk' = Truncated(h.file)
    BY <1>4, <2>1 DEF Opened, Truncated
  <2> QED  BY <1>2, <1>3, <1>5, <1>6, <2>1, <2>2 DEF Fresh, h
<1>7. CASE ~namesSet
  BY <1>5, <1>7 DEF AddSignalToTrace
<1> QED
  BY <1>6, <1>7

LEMMA FilesOpened ==
  ASSUME strays = <<>>, bufferSize \in Nat, toTraceSignals \in Seq(Signals), OpenFiles
  PROVE  /\ files' = [i \in 1 .. Len(toTraceSignals) |-> Fresh(toTraceSignals[i], names[i])]
         /\ strays' = <<>> /\ namesSet' = TRUE
         /\ Opened(files')
         /\ UNCHANGED <<lists, realTime>>
<1> DEFINE n == Len(toTraceSignals)
           new == [i \in DOMAIN toTraceSignals |-> HardFile(toTraceSignals[i], names[i])]
           kept == IF files = <<>> THEN strays ELSE <<>>
           hard == kept \o new
           S == {new[i] : i \in 1 .. n}
<1>1. Allocates /\ kept = <<>>
  BY DEF Allocates
<1>2. n \in Nat /\ DOMAIN toTraceSignals = 1 .. n
  OBVIOUS
<1>3. /\ files' = [i \in 1 .. n |-> Stream(hard[i], toTraceSignals[i], bufferSize)]
      /\ strays' = SubSeq(hard, n + 1, Len(hard))
      /\ Opened(new) /\ namesSet' = TRUE
      /\ UNCHANGED <<lists, realTime>>
  BY <1>1, Zenon DEF OpenFiles
<1>4. /\ DOMAIN new = 1 .. n
      /\ \A i \in 1 .. n : new[i] = HardFile(toTraceSignals[i], names[i])
  BY <1>2
<1>5. new = [i \in 1 .. n |-> new[i]] /\ \A i \in 1 .. n : new[i] \in S
  BY <1>2, <1>4
<1> HIDE DEF n, new, kept, S
<1>6. new \in Seq(S) /\ Len(new) = n
  BY <1>2, <1>5
<1>7. hard = new
  BY <1>1, <1>6, ConcatEmptySeq DEF hard
<1> HIDE DEF hard
<1>8. strays' = <<>>
  BY <1>2, <1>3, <1>6, <1>7
<1>9. files' = [i \in 1 .. n |-> Fresh(toTraceSignals[i], names[i])]
  BY <1>3, <1>4, <1>7 DEF Fresh
<1>10. \A i \in 1 .. n : files'[i].file = new[i].file
  BY <1>4, <1>9, StreamMade
<1>11. Opened(files')
  <2>1. DOMAIN files' = DOMAIN new
    BY <1>4, <1>9
  <2> QED  BY <1>3, <1>4, <1>10, <2>1 DEF Opened
<1> QED
  BY <1>3, <1>8, <1>9, <1>11 DEF n

SameStream(g, f) == AnyStream(g) /\ g.sig = f.sig /\ g.for = f.for

\* What is done with a stream leaves it a stream of the same signal.
LEMMA StreamKept ==
  ASSUME NEW f, NEW cells, NEW s, AnyStream(f)
  PROVE  /\ SameStream(Advanced(f, cells), f) /\ SameStream(AddData(f, cells), f)
         /\ SameStream(Dumped(f), f) /\ SameStream(Recorded(f, s), f)
<1>1. \A g, x : AnyStream(g) =>
        /\ SameStream([g EXCEPT !.pos = x], g)
        /\ SameStream([g EXCEPT !.full = x], g)
        /\ SameStream([g EXCEPT !.buffer = x], g)
        /\ SameStream([g EXCEPT !.taken = x], g)
  BY DEF AnyStream, SameStream
<1>2. \A g, c : AnyStream(g) => SameStream(Advanced(g, c), g)
  BY <1>1 DEF Advanced, SameStream
<1>3. \A g, c : AnyStream(g) => SameStream(AddData(g, c), g)
  BY <1>1 DEF AddData, SameStream
<1>4. SameStream(Dumped(f), f)
  <2> DEFINE g == Advanced(f, f.buffer)
  <2>1. SameStream(g, f)
    BY <1>2
  <2>2. Dumped(f) = [g EXCEPT !.buffer = <<>>, !.full = FALSE]
    BY DEF Dumped
  <2> HIDE DEF g
  <2> QED
    BY <2>1, <2>2 DEF AnyStream, SameStream
<1>5. SameStream(Recorded(f, s), f)
  <2> DEFINE done == IF realTime THEN RecordSignal(f, s) ELSE Advanced(f, Line(s))
             fits == realTime => Len(f.buffer) + Len(Line(s)) <= f.size
             x == IF fits THEN done.taken \o Line(s) ELSE done.taken
  <2>1. SameStream(done, f)
    BY <1>2, <1>3 DEF RecordSignal
  <2>2. Recorded(f, s) = [done EXCEPT !.taken = x]
    BY DEF Recorded
  <2> HIDE DEF done, x
  <2> QED
    BY <2>1, <2>2 DEF AnyStream, SameStream
<1> QED
  BY <1>2, <1>3, <1>4, <1>5

\* When each open file goes on being one of the same signal, the files go on
\* matching.
LEMMA SameSignals ==
  ASSUME ListInv, UNCHANGED <<toTraceSignals, dependencies, namesSet, strays>>,
         files' = [i \in DOMAIN files |-> files'[i]],
         \A i \in DOMAIN files : SameStream(files'[i], files[i])
  PROVE  ListInv'
<1>1. PICK T : files \in Seq(T)
  BY DEF ListInv
<1> DEFINE n == Len(files)
           U == {files'[i] : i \in DOMAIN files}
<1>2. n \in Nat /\ DOMAIN files = 1 .. n
  BY <1>1
<1>3. files' \in Seq(U) /\ Len(files') = n /\ DOMAIN files' = DOMAIN files
  <2>1. files' = [i \in 1 .. n |-> files'[i]] /\ \A i \in 1 .. n : files'[i] \in U
    BY <1>2
  <2> HIDE DEF U, n
  <2> QED
    BY <1>2, <2>1
<1> HIDE DEF U, n
<1>4. \E V : files' \in Seq(V)
  BY <1>3
<1>5. files' # <<>> => namesSet'
  BY <1>1, <1>3 DEF ListInv, n
<1>6. AllPaired'
  BY <1>3 DEF ListInv, AllPaired, SameStream, n
<1> QED
  BY <1>3, <1>4, <1>5, <1>6 DEF ListInv, SameStream

\* The lists are as they were.
LEMMA SameLists ==
  ASSUME ListInv, UNCHANGED <<toTraceSignals, dependencies, namesSet, opened>>
  PROVE  ListInv'
BY DEF ListInv, AllPaired, opened

LEMMA ReverseEmpty == Reverse(<<>>) = <<>>
BY DEF Reverse

\* All files are closed, and the signals may be forgotten.
LEMMA NoFiles ==
  ASSUME ListInv, files' = <<>>, strays' = <<>>,
         \/ UNCHANGED <<toTraceSignals, dependencies>>
         \/ toTraceSignals' = <<>> /\ dependencies' = <<>>
  PROVE  ListInv'
<1>1. files' \in Seq({}) /\ Len(files') = 0 /\ DOMAIN files' = {}
  OBVIOUS
<1>2. toTraceSignals' \in Seq(Signals) /\ Len(toTraceSignals') \in Nat
  <2>1. CASE UNCHANGED <<toTraceSignals, dependencies>>
    BY <2>1 DEF ListInv
  <2>2. CASE toTraceSignals' = <<>>
    BY <2>2
  <2> QED
    BY <2>1, <2>2
<1>3. dependencies' = Reverse(toTraceSignals')
  <2>1. CASE UNCHANGED <<toTraceSignals, dependencies>>
    BY <2>1 DEF ListInv, AllPaired
  <2>2. CASE toTraceSignals' = <<>> /\ dependencies' = <<>>
    BY <2>2, ReverseEmpty
  <2> QED
    BY <2>1, <2>2
<1>4. AllPaired'
  BY <1>1, <1>2, <1>3 DEF AllPaired
<1> QED
  BY <1>1, <1>2, <1>4 DEF ListInv

LEMMA ReverseGrows ==
  ASSUME NEW S, NEW ss \in Seq(S), NEW s \in S
  PROVE  <<s>> \o Reverse(ss) = Reverse(Append(ss, s))
<1> DEFINE n == Len(ss)
           r == Reverse(ss)
           t == Append(ss, s)
           u == <<s>> \o r
           v == Reverse(t)
<1>1. n \in Nat /\ t \in Seq(S) /\ Len(t) = n + 1 /\ t[n + 1] = s
      /\ \A i \in 1 .. n : t[i] = ss[i]
  OBVIOUS
<1>2. r \in Seq(S) /\ Len(r) = n /\ \A i \in 1 .. n : r[i] = ss[n - i + 1]
  BY <1>1 DEF Reverse
<1> HIDE DEF n, r, t
<1>3. v \in Seq(S) /\ Len(v) = n + 1 /\ \A i \in 1 .. n + 1 : v[i] = t[n + 1 - i + 1]
  BY <1>1 DEF Reverse
<1>4. <<s>> \in Seq(S) /\ Len(<<s>>) = 1 /\ <<s>>[1] = s
  OBVIOUS
<1>5. /\ u \in Seq(S) /\ Len(u) = Len(<<s>>) + Len(r)
      /\ \A i \in 1 .. Len(<<s>>) + Len(r) :
           u[i] = IF i <= Len(<<s>>) THEN <<s>>[i] ELSE r[i - Len(<<s>>)]
  <2> DEFINE h == <<s>>
  <2>1. h \in Seq(S)
    BY <1>4
  <2> HIDE DEF h
  <2>2. /\ h \o r \in Seq(S) /\ Len(h \o r) = Len(h) + Len(r)
        /\ \A i \in 1 .. Len(h) + Len(r) :
             (h \o r)[i] = IF i <= Len(h) THEN h[i] ELSE r[i - Len(h)]
    BY <1>2, <2>1, ConcatProperties
  <2> QED
    BY <2>2 DEF h
<1> HIDE DEF u, v
<1>6. Len(u) = n + 1 /\ \A i \in 1 .. n + 1 : u[i] = IF i = 1 THEN s ELSE r[i - 1]
  BY <1>1, <1>2, <1>4, <1>5
<1>7. \A i \in 1 .. n + 1 : u[i] = v[i]
  <2> SUFFICES ASSUME NEW i \in 1 .. n + 1 PROVE u[i] = v[i]
    OBVIOUS
  <2>1. CASE i = 1
    BY <1>1, <1>3, <1>6, <2>1
  <2>2. CASE i # 1
    <3>1. i - 1 \in 1 .. n /\ n + 1 - i + 1 = n - (i - 1) + 1 /\ n + 1 - i + 1 \in 1 .. n
      BY <1>1, <2>2
    <3>2. u[i] = ss[n + 1 - i + 1]
      BY <1>2, <1>6, <2>2, <3>1
    <3>3. v[i] = t[n + 1 - i + 1]
      BY <1>3
    <3> QED
      BY <1>1, <3>1, <3>2, <3>3
  <2> QED
    BY <2>1, <2>2
<1>8. u = v
  BY <1>1, <1>3, <1>5, <1>6, <1>7
<1> QED
  BY <1>8 DEF u, v, r, t

LEMMA StepAdd ==
  ASSUME ListInv, bufferSize \in Nat,
         NEW s \in Signals, NEW given \in Given, AddSignalToTrace(s, given)
  PROVE  ListInv'
<1> DEFINE f == Fresh(s, given)
<1>1. /\ toTraceSignals' = Append(toTraceSignals, s)
      /\ dependencies' = <<s>> \o dependencies
      /\ namesSet' = namesSet /\ strays' = <<>>
      /\ files' = IF namesSet THEN Append(files, f) ELSE files
  BY FileAdded DEF ListInv, AllPaired, settings
<1>2. AnyStream(f) /\ f.sig = s /\ f.for = s
  BY StreamMade
<1> HIDE DEF f
<1>3. toTraceSignals' \in Seq(Signals) /\ Len(toTraceSignals') = Len(toTraceSignals) + 1
      /\ toTraceSignals'[Len(toTraceSignals) + 1] = s
      /\ \A i \in 1 .. Len(toTraceSignals) : toTraceSignals'[i] = toTraceSignals[i]
  BY <1>1 DEF ListInv
<1>4. dependencies' = Reverse(toTraceSignals')
  BY <1>1, ReverseGrows DEF ListInv, AllPaired
<1>5. PICK T : files \in Seq(T)
  BY DEF ListInv
<1>6. CASE namesSet
  <2>1. files' = Append(files, f)
    BY <1>1, <1>6
  <2>2. /\ files' \in Seq(T \cup {f}) /\ Len(files') = Len(files) + 1
        /\ files'[Len(files) + 1] = f
        /\ \A i \in DOMAIN files : files'[i] = files[i]
        /\ DOMAIN files = 1 .. Len(files) /\ DOMAIN files' = 1 .. Len(files) + 1
        /\ Len(files) \in Nat
    BY <1>5, <2>1
  <2>3. \A i \in DOMAIN files' : AnyStream(files'[i])
    BY <1>2, <2>2 DEF ListInv
  <2>4. AllPaired'
    <3>1. Len(toTraceSignals) \in Nat /\ Len(toTraceSignals) - Len(files) >= 0
      BY DEF ListInv, AllPaired
    <3>2. \A i \in DOMAIN files :
            /\ files[i].sig = toTraceSignals[Len(toTraceSignals) - Len(files) + i]
            /\ files[i].for = files[i].sig
      BY DEF ListInv, AllPaired
    <3>3. ASSUME NEW i \in DOMAIN files'
          PROVE  files'[i].sig = toTraceSignals'[Len(toTraceSignals') - Len(files') + i]
      <4> DEFINE k == Len(toTraceSignals') - Len(files') + i
      <4>0. i \in 1 .. Len(files) + 1 /\ k = Len(toTraceSignals) - Len(files) + i
        BY <1>3, <2>2, <3>1
      <4>1. CASE i = Len(files) + 1
        <5>1. k = Len(toTraceSignals) + 1
          BY <2>2, <3>1, <4>0, <4>1
        <5> HIDE DEF k
        <5>2. toTraceSignals'[k] = s /\ files'[i] = f
          BY <1>3, <2>2, <4>1, <5>1
        <5> QED
          BY <1>2, <5>2 DEF k
      <4>2. CASE i \in DOMAIN files
        <5>1. k \in 1 .. Len(toTraceSignals)
          BY <2>2, <3>1, <4>0, <4>2
        <5>2. files[i].sig = toTraceSignals[k]
          BY <3>2, <4>0, <4>2
        <5> HIDE DEF k
        <5>3. toTraceSignals'[k] = toTraceSignals[k] /\ files'[i] = files[i]
          BY <1>3, <2>2, <4>2, <5>1
        <5> QED
          BY <5>2, <5>3 DEF k
      <4> QED
        BY <2>2, <4>1, <4>2
    <3>4. \A i \in DOMAIN files' : files'[i].for = files'[i].sig
      <4>1. f.for = f.sig
        BY <1>2
      <4>2. ASSUME NEW i \in DOMAIN files' PROVE files'[i].for = files'[i].sig
        <5>1. CASE i \in DOMAIN files
          BY <2>2, <3>2, <5>1
        <5>2. CASE i = Len(files) + 1
          BY <2>2, <4>1, <5>2
        <5> QED
          BY <2>2, <5>1, <5>2
      <4> QED
        BY <4>2
    <3>5. Len(toTraceSignals') - Len(files') >= 0
      BY <1>3, <2>2, <3>1
    <3>6. strays' = <<>>
      BY <1>1
    <3> QED
      BY <1>4, <3>3, <3>4, <3>5, <3>6, Zenon DEF AllPaired
  <2>5. \E V : files' \in Seq(V)
    BY <2>2
  <2> QED
    BY <1>1, <1>3, <1>6, <2>3, <2>4, <2>5 DEF ListInv
<1>7. CASE ~namesSet
  <2>1. files' = <<>> /\ files' \in Seq({})
    BY <1>1, <1>7 DEF ListInv
  <2>2. AllPaired'
    <3>1. DOMAIN files' = {} /\ Len(files') = 0
      BY <2>1
    <3>2. Len(toTraceSignals') - Len(files') >= 0
      BY <1>3, <3>1 DEF ListInv
    <3> QED
      BY <1>1, <1>4, <3>1, <3>2 DEF AllPaired
  <2> QED
    BY <1>3, <2>1, <2>2 DEF ListInv
<1> QED
  BY <1>6, <1>7

LEMMA StepOpen ==
  ASSUME ListInv, bufferSize \in Nat, OpenFiles
  PROVE  ListInv'
<1> DEFINE n == Len(toTraceSignals)
           U == {files'[i] : i \in 1 .. n}
<1>1. /\ files' = [i \in 1 .. n |-> Fresh(toTraceSignals[i], names[i])]
      /\ namesSet' = TRUE /\ strays' = <<>>
      /\ UNCHANGED <<toTraceSignals, dependencies>>
  BY FilesOpened DEF ListInv, AllPaired, lists
<1>2. n \in Nat /\ DOMAIN toTraceSignals = 1 .. n
  BY DEF ListInv
<1>3. DOMAIN files' = 1 .. n
      /\ \A i \in 1 .. n : /\ AnyStream(files'[i]) /\ files'[i].sig = toTraceSignals[i]
                            /\ files'[i].for = files'[i].sig
  BY <1>1, <1>2, StreamMade
<1>4. files' \in Seq(U) /\ Len(files') = n
  <2>1. files' = [i \in 1 .. n |-> files'[i]] /\ \A i \in 1 .. n : files'[i] \in U
    BY <1>1, <1>2
  <2> HIDE DEF U, n
  <2> QED
    BY <1>2, <2>1
<1> HIDE DEF U
<1>5. AllPaired'
  BY <1>1, <1>2, <1>3, <1>4 DEF ListInv, AllPaired
<1>6. \E V : files' \in Seq(V)
  BY <1>4
<1> QED
  BY <1>1, <1>3, <1>5, <1>6 DEF ListInv

LEMMA InitLists == Init => ListInv
<1> SUFFICES ASSUME Init PROVE ListInv
  OBVIOUS
<1>1. toTraceSignals \in Seq(Signals) /\ files \in Seq({}) /\ files = <<>>
  BY DEF Init
<1>2. AllPaired
  BY DEF Init, AllPaired, Reverse
<1> QED
  BY <1>1, <1>2 DEF ListInv

LEMMA NextLists == ListInv /\ bufferSize \in Nat /\ [Next]_vars => ListInv'
<1> SUFFICES ASSUME ListInv, bufferSize \in Nat, [Next]_vars PROVE ListInv'
  OBVIOUS
<1>1. ASSUME NEW s \in Signals, NEW given \in Given, AddSignalToTrace(s, given) PROVE ListInv'
  BY <1>1, StepAdd
<1>2. CASE OpenFiles
  BY <1>2, StepOpen
<1>3. CASE CloseFiles \/ ClearSignalToTrace \/ Renew
  BY <1>3, NoFiles DEF CloseFiles, ClearSignalToTrace, Renew, lists, clearDependency
<1>4. CASE Start \/ Stop
  BY <1>4, SameLists DEF Start, Stop, lists
<1>5. ASSUME NEW t \in {0, 1}, SetTimeStart(t) PROVE ListInv'
  BY <1>5, SameLists DEF SetTimeStart, lists
<1>6. ASSUME NEW n \in BufferSizes, SetBufferSize(n) PROVE ListInv'
  BY <1>6, SameLists DEF SetBufferSize, lists
<1>7. ASSUME NEW s \in Signals, Compute(s) PROVE ListInv'
  BY <1>7, SameLists DEF Compute, lists, settings
<1>8. CASE Record
  <2>1. /\ files' = [i \in DOMAIN files |-> Recorded(files[i], toTraceSignals[i])]
        /\ UNCHANGED <<toTraceSignals, dependencies, namesSet, strays>>
    BY <1>8 DEF Record, lists, settings
  <2>2. \A i \in DOMAIN files : SameStream(files'[i], files[i])
    BY <2>1, StreamKept DEF ListInv, SameStream
  <2> QED
    BY <2>1, <2>2, SameSignals
<1>9. CASE Trace
  <2> DEFINE reached == {i \in DOMAIN files : \A j \in 1 .. i : Good(files[j])}
  <2>1. /\ files' = [i \in DOMAIN files |-> IF i \in reached THEN Dumped(files[i]) ELSE files[i]]
        /\ UNCHANGED <<toTraceSignals, dependencies, namesSet, strays>>
    BY <1>9 DEF Trace, lists, settings
  <2> HIDE DEF reached
  <2>2. \A i \in DOMAIN files : SameStream(files'[i], files[i])
    BY <2>1, StreamKept DEF ListInv, SameStream
  <2> QED
    BY <2>1, <2>2, SameSignals
<1>10. CASE EmptyBuffers
  <2>1. /\ files' = [i \in DOMAIN files |->
                       [files[i] EXCEPT !.buffer = <<>>, !.full = FALSE,
                                        !.taken = SubSeq(@, 1, files[i].pos)]]
        /\ UNCHANGED <<toTraceSignals, dependencies, namesSet, strays>>
    BY <1>10 DEF EmptyBuffers, lists, settings
  <2>2. \A i \in DOMAIN files : SameStream(files'[i], files[i])
    <3> SUFFICES ASSUME NEW i \in DOMAIN files PROVE SameStream(files'[i], files[i])
      OBVIOUS
    <3> DEFINE f == files[i]
               x == SubSeq(f.taken, 1, f.pos)
    <3>1. AnyStream(f) /\ files'[i] = [f EXCEPT !.buffer = <<>>, !.full = FALSE, !.taken = x]
      BY <2>1 DEF ListInv
    <3> HIDE DEF f, x
    <3>2. SameStream(files'[i], f)
      BY <3>1 DEF AnyStream, SameStream
    <3> QED
      BY <3>2 DEF f
  <2> QED
    BY <2>1, <2>2, SameSignals
<1>11. CASE UNCHANGED vars
  BY <1>11, SameLists DEF vars, opened
<1> QED
  BY <1>1, <1>2, <1>3, <1>4, <1>5, <1>6, <1>7, <1>8, <1>9, <1>10, <1>11 DEF Next

(***************************************************************************)
(* The files on disk.                                                      *)
(***************************************************************************)

\* Writing leaves cells; at the end of a file it appends.
LEMMA WriteCells ==
  ASSUME NEW old \in Seq(Cells), NEW pos \in Nat, NEW cells \in Seq(Cells)
  PROVE  /\ WriteAt(old, pos, cells) \in Seq(Cells)
         /\ pos = Len(old) => WriteAt(old, pos, cells) = old \o cells
<1> DEFINE n == IF pos + Len(cells) > Len(old) THEN pos + Len(cells) ELSE Len(old)
           new == WriteAt(old, pos, cells)
<1>1. n \in Nat /\ Len(cells) \in Nat /\ Len(old) \in Nat
  OBVIOUS
<1>2. new = [i \in 1 .. n |-> IF i \in pos + 1 .. pos + Len(cells) THEN cells[i - pos]
                              ELSE IF i <= Len(old) THEN old[i] ELSE Hole]
  BY DEF WriteAt
<1> HIDE DEF new
<1>3. ASSUME NEW i \in 1 .. n PROVE new[i] \in Cells
  <2>1. CASE i \in pos + 1 .. pos + Len(cells)
    <3>1. i - pos \in 1 .. Len(cells)
      BY <2>1
    <3>2. cells[i - pos] \in Cells
      BY <3>1
    <3> QED  BY <1>2, <2>1, <3>2
  <2>2. CASE i \notin pos + 1 .. pos + Len(cells)
    <3>1. Hole \in Cells
      BY DEF Cells
    <3>2. i <= Len(old) => old[i] \in Cells
      OBVIOUS
    <3> QED  BY <1>2, <2>2, <3>1, <3>2
  <2> QED  BY <2>1, <2>2
<1> HIDE DEF n
<1>4. new \in Seq(Cells) /\ Len(new) = n
  <2>1. new = [i \in 1 .. n |-> new[i]]
    BY <1>2
  <2> QED  BY <1>1, <1>3, <2>1
<1>5. ASSUME pos = Len(old) PROVE new = old \o cells
  <2>1. n = Len(old) + Len(cells)
    BY <1>1, <1>5 DEF n
  <2>2. /\ old \o cells \in Seq(Cells) /\ Len(old \o cells) = Len(old) + Len(cells)
        /\ \A i \in 1 .. Len(old) + Len(cells) :
             (old \o cells)[i] = IF i <= Len(old) THEN old[i] ELSE cells[i - Len(old)]
    BY ConcatProperties, Zenon
  <2>3. \A i \in 1 .. n : new[i] = (old \o cells)[i]
    BY <1>1, <1>2, <1>5, <2>1, <2>2
  <2> QED  BY <1>4, <2>1, <2>2, <2>3, SeqEqual
<1> QED  BY <1>4, <1>5 DEF new

Disks == [FileNames -> Seq(Cells)]

\* The files that can be written and have one stream, by the place of the stream.
Alone ==
  {i \in DOMAIN files : /\ Good(files[i])
                        /\ \A j \in DOMAIN files \ {i} : files[j].file # files[i].file}

\* What the loop makes of the disk d at the file of place i.
Turn(d, i, cells) ==
  IF Good(files[i]) /\ cells[i] # <<>>
  THEN [d EXCEPT ![files[i].file] = WriteAt(@, files[i].pos, cells[i])]
  ELSE d

\* Cells for each of n files, which are open on the disk.
ToWrite(n, cells) ==
  /\ DOMAIN files = 1 .. n /\ disk \in Disks
  /\ \A i \in 1 .. n : files[i].file \in FileNames /\ files[i].pos \in Nat
  /\ \A i \in Alone : files[i].pos = Len(disk[files[i].file])
  /\ cells \in [1 .. n -> Seq(Cells)]

\* A whole loop over the files, however many, writes to the file of a stream that
\* is alone what the stream was given, and nothing else.
LEMMA WrittenAll ==
  ASSUME NEW n \in Nat, NEW cells, ToWrite(n, cells)
  PROVE  /\ Written(cells) \in Disks
         /\ \A i \in Alone : Written(cells)[files[i].file] = disk[files[i].file] \o cells[i]
<1> DEFINE Solves(f) == f = [R \in SUBSET DOMAIN Indices |->
                               IF R = {} THEN disk
                               ELSE LET x == Max(R)
                                    IN  IF Good(files[Indices[x]]) /\ cells[Indices[x]] # <<>>
                                        THEN [f[R \ {x}] EXCEPT ![files[Indices[x]].file] =
                                                WriteAt(@, files[Indices[x]].pos, cells[Indices[x]])]
                                        ELSE f[R \ {x}]]
           it == CHOOSE f : Solves(f)
<1>1. Written(cells) = it[DOMAIN Indices]
  BY Zenon DEF Written, FoldLeft, MapThenFoldSet
<1>2. DOMAIN Indices = 1 .. n /\ \A k \in 1 .. n : Indices[k] = k
  BY DEF Indices, ToWrite
<1>3. ASSUME NEW d \in Disks, NEW i \in 1 .. n
      PROVE  Turn(d, i, cells) \in Disks
  <2>1. d[files[i].file] \in Seq(Cells) /\ files[i].pos \in Nat /\ cells[i] \in Seq(Cells)
    BY DEF Disks, ToWrite
  <2>2. WriteAt(d[files[i].file], files[i].pos, cells[i]) \in Seq(Cells)
    BY <2>1, WriteCells
  <2> QED  BY <2>2 DEF Turn, Disks
<1>4. \E f : Solves(f)
  <2> DEFINE G == [p \in Disks \X (1 .. n) |-> Turn(p[1], p[2], cells)]
  <2>1. G \in [Disks \X (1 .. n) -> Disks]
    BY <1>3
  <2>2. \A d \in Disks, k \in 1 .. n : G[<<d, k>>] = Turn(d, k, cells)
    OBVIOUS
  <2> HIDE DEF G
  <2>3. PICK f : Folded(f, Disks, G, disk, n)
    <3>1. disk \in Disks
      BY DEF ToWrite
    <3> QED  BY <2>1, <3>1, Folds
  <2>4. ASSUME NEW R \in SUBSET (1 .. n), R # {}
        PROVE  Max(R) \in 1 .. n /\ f[R] = Turn(f[R \ {Max(R)}], Max(R), cells)
    <3>1. Max(R) \in 1 .. n
      BY <2>4, MaxOf
    <3>2. f[R \ {Max(R)}] \in Disks
      BY <2>3 DEF Folded
    <3>3. f[R] = G[<<f[R \ {Max(R)}], Max(R)>>]
      BY <2>3, <2>4 DEF Folded
    <3> QED  BY <2>2, <3>1, <3>2, <3>3
  <2>5. f = [R \in SUBSET (1 .. n) |-> f[R]] /\ f[{}] = disk
    BY <2>3 DEF Folded
  <2>6. ASSUME NEW R \in SUBSET (1 .. n), R # {}
        PROVE  f[R] = LET x == Max(R)
                      IN  IF Good(files[Indices[x]]) /\ cells[Indices[x]] # <<>>
                          THEN [f[R \ {x}] EXCEPT ![files[Indices[x]].file] =
                                  WriteAt(@, files[Indices[x]].pos, cells[Indices[x]])]
                          ELSE f[R \ {x}]
    <3>1. Indices[Max(R)] = Max(R) /\ f[R] = Turn(f[R \ {Max(R)}], Max(R), cells)
      BY <1>2, <2>4, <2>6
    <3> QED  BY <3>1 DEF Turn
  <2>7. Solves(f)
    BY <1>2, <2>5, <2>6, Zenon
  <2> QED  BY <2>7
<1>5. Solves(it)
  BY <1>4
<1> DEFINE S == {k \in 0 .. n :
                   /\ it[1 .. k] \in Disks
                   /\ \A i \in Alone : it[1 .. k][files[i].file] =
                        IF i <= k THEN disk[files[i].file] \o cells[i] ELSE disk[files[i].file]}
<1> HIDE DEF it
<1>6. 0 \in S
  <2>1. it[1 .. 0] = disk /\ disk \in Disks
    BY <1>5 DEF ToWrite
  <2>2. \A i \in Alone : ~ (i <= 0)
    BY DEF Alone, ToWrite
  <2> QED  BY <2>1, <2>2
<1>7. ASSUME NEW k \in 0 .. n, k # n, k \in S
      PROVE  k + 1 \in S
  <2> DEFINE d == it[1 .. k]
             e == it[1 .. k + 1]
  <2>1. k + 1 \in 1 .. n /\ k + 1 \in 0 .. n /\ k + 1 \in Nat /\ k + 1 # 0 /\ k + 1 - 1 = k
    BY <1>7
  <2>2. /\ 1 .. k + 1 # {} /\ Max(1 .. k + 1) = k + 1
        /\ (1 .. k + 1) \ {k + 1} = 1 .. k
    <3> DEFINE m == k + 1
    <3>1. m \in Nat /\ m # 0 /\ m - 1 = k
      BY <2>1
    <3> HIDE DEF m
    <3>2. 1 .. m # {} /\ Max(1 .. m) = m /\ (1 .. m) \ {m} = 1 .. (m - 1)
      BY <3>1, Prefix, Zenon
    <3> QED  BY <3>1, <3>2, Zenon DEF m
  <2>3. 1 .. k + 1 \in SUBSET DOMAIN Indices
    BY <1>2, <2>1
  <2>4. e = Turn(d, k + 1, cells)
    <3> DEFINE R == 1 .. k + 1
    <3>1. R \in SUBSET DOMAIN Indices /\ R # {}
      BY <2>2, <2>3
    <3>2. it[R] = LET x == Max(R)
                  IN  IF Good(files[Indices[x]]) /\ cells[Indices[x]] # <<>>
                      THEN [it[R \ {x}] EXCEPT ![files[Indices[x]].file] =
                              WriteAt(@, files[Indices[x]].pos, cells[Indices[x]])]
                      ELSE it[R \ {x}]
      <4> HIDE DEF R
      <4> QED  BY <1>5, <3>1, Zenon
    <3>3. Max(R) = k + 1 /\ R \ {k + 1} = 1 .. k /\ Indices[k + 1] = k + 1
      BY <1>2, <2>1, <2>2
    <3> HIDE DEF R
    <3>4. it[R] = Turn(it[1 .. k], k + 1, cells)
      BY <3>2, <3>3 DEF Turn
    <3> QED  BY <3>4 DEF R
  <2>5. /\ d \in Disks
        /\ \A i \in Alone : d[files[i].file] =
             IF i <= k THEN disk[files[i].file] \o cells[i] ELSE disk[files[i].file]
    BY <1>7
  <2> HIDE DEF d, e
  <2>6. e \in Disks
    BY <1>3, <2>1, <2>4, <2>5
  <2>7. ASSUME NEW i \in Alone
        PROVE  e[files[i].file] =
                 IF i <= k + 1 THEN disk[files[i].file] \o cells[i] ELSE disk[files[i].file]
    <3>1. i \in 1 .. n /\ files[i].file \in FileNames
      BY DEF Alone, ToWrite
    <3>2. CASE i # k + 1
      <4>1. files[k + 1].file # files[i].file
        BY <2>1, <3>2 DEF Alone, ToWrite
      <4>2. e[files[i].file] = d[files[i].file]
        BY <2>4, <2>5, <3>1, <4>1 DEF Turn, Disks
      <4>3. i <= k + 1 <=> i <= k
        BY <2>1, <3>1, <3>2
      <4> QED  BY <2>5, <4>2, <4>3
    <3>3. CASE i = k + 1
      <4> DEFINE old == disk[files[i].file]
      <4>1. old \in Seq(Cells) /\ cells[i] \in Seq(Cells) /\ files[i].pos = Len(old)
              /\ files[i].pos \in Nat
        BY <3>1 DEF Disks, ToWrite
      <4>2. d[files[i].file] = old
        BY <2>1, <2>5, <3>1, <3>3
      <4>3. Good(files[i])
        BY DEF Alone
      <4>4. CASE cells[i] = <<>>
        <5>1. e = d
          BY <2>4, <3>3, <4>4 DEF Turn
        <5>2. old \o cells[i] = old
          BY <4>1, <4>4, ConcatEmptySeq
        <5> QED  BY <2>1, <3>3, <4>2, <5>1, <5>2
      <4>5. CASE cells[i] # <<>>
        <5>1. e = [d EXCEPT ![files[i].file] = WriteAt(@, files[i].pos, cells[i])]
          BY <2>4, <3>3, <4>3, <4>5 DEF Turn
        <5>2. e[files[i].file] = WriteAt(old, files[i].pos, cells[i])
          BY <2>5, <3>1, <4>2, <5>1 DEF Disks
        <5>3. WriteAt(old, files[i].pos, cells[i]) = old \o cells[i]
          BY <3>1, <4>1, WriteCells
        <5>4. i <= k + 1
          BY <2>1, <3>3
        <5> QED  BY <5>2, <5>3, <5>4
      <4> QED  BY <4>4, <4>5
    <3> QED  BY <3>2, <3>3
  <2> QED  BY <2>1, <2>6, <2>7 DEF e
<1> HIDE DEF S
<1>8. n \in S
  BY <1>6, <1>7, UpTo
<1>9. \A i \in Alone : i <= n
  BY DEF Alone, ToWrite
<1> QED  BY <1>1, <1>2, <1>8, <1>9 DEF S

(***************************************************************************)
(* The streams.                                                            *)
(***************************************************************************)

\* A stream of this tracer: the lines it should hold are of its signal, and what
\* was written to the file and what the buffer holds are some of them.
StreamOK(f) ==
  /\ AnyStream(f)
  /\ f.sig \in Signals /\ f.file \in FileNames /\ f.pos \in Nat /\ f.size \in Nat
  /\ f.buffer \in Seq(Cells) /\ f.taken \in Seq(Cells)
  /\ Len(f.buffer) <= f.size
  /\ ~realTime => f.buffer = <<>>
  /\ f.pos + Len(f.buffer) <= Len(f.taken)
  /\ \A c \in DOMAIN f.taken : f.taken[c][1] = f.sig

\* The file and the buffer hold them all, and the stream is at the end of the file.
Whole(f) == f.pos = Len(disk[f.file]) /\ disk[f.file] \o f.buffer = f.taken

SettingsOK ==
  /\ realTime \in BOOLEAN /\ namesSet \in BOOLEAN /\ play \in BOOLEAN
  /\ toTraceSignals \in Seq(Signals)
  /\ names \in Seq(Given) /\ asked \in Seq(Given) /\ Len(names) >= Len(toTraceSignals)
  /\ timeStart \in Nat /\ bufferSize \in BufferSizes /\ BufferSizes \subseteq Nat
  /\ signalTime \in [Signals -> 0 .. MaxTime]

FilesOK ==
  /\ disk \in Disks
  /\ \A i \in DOMAIN files : StreamOK(files[i])
  /\ \A i \in Alone : Whole(files[i])

FileInv == ListInv /\ SettingsOK /\ FilesOK

LEMMA LineCells ==
  ASSUME SettingsOK, NEW s \in Signals
  PROVE  Line(s) \in Seq(Cells) /\ \A c \in DOMAIN Line(s) : Line(s)[c][1] = s
<1>1. Width[s] \in Nat /\ signalTime[s] \in 0 .. MaxTime
  BY TracerAssumption DEF SettingsOK
<1>2. <<s, signalTime[s]>> \in Cells
  BY <1>1 DEF Cells
<1>3. <<>> \in Seq(Cells) /\ DOMAIN <<>> = {}
  OBVIOUS
<1> DEFINE line == [i \in 1 .. Width[s] |-> <<s, signalTime[s]>>]
<1>4. line \in Seq(Cells) /\ \A c \in DOMAIN line : line[c][1] = s
  <2> DEFINE n == Width[s]
             cell == <<s, signalTime[s]>>
             run == [i \in 1 .. n |-> cell]
  <2>1. cell[1] = s /\ cell \in Cells /\ n \in Nat
    BY <1>1, <1>2
  <2> HIDE DEF n, cell
  <2>2. run \in Seq(Cells) /\ \A c \in DOMAIN run : run[c][1] = s
    BY <2>1
  <2> QED  BY <2>2 DEF n, cell
<1> QED  BY <1>3, <1>4 DEF Line

\* What each operation makes of the parts of a stream.
LEMMA AdvancedParts ==
  ASSUME NEW f, NEW cells, AnyStream(f)
  PROVE  LET g == Advanced(f, cells)
         IN  /\ AnyStream(g) /\ g.sig = f.sig /\ g.file = f.file /\ g.size = f.size
             /\ g.buffer = f.buffer /\ g.taken = f.taken
             /\ g.pos = IF Good(f) THEN f.pos + Len(cells) ELSE f.pos
<1> DEFINE x == f.pos + Len(cells)
<1>1. Advanced(f, cells) = IF Good(f) THEN [f EXCEPT !.pos = x] ELSE f
  BY DEF Advanced
<1> HIDE DEF x
<1> QED  BY <1>1 DEF AnyStream, x

LEMMA AddedParts ==
  ASSUME NEW f, NEW data, AnyStream(f)
  PROVE  LET g == AddData(f, data)
         IN  /\ AnyStream(g) /\ g.sig = f.sig /\ g.file = f.file /\ g.size = f.size
             /\ g.pos = f.pos /\ g.taken = f.taken
             /\ g.buffer = IF Len(f.buffer) + Len(data) > f.size THEN f.buffer
                           ELSE f.buffer \o data
<1> DEFINE x == f.buffer \o data
           over == Len(f.buffer) + Len(data) > f.size
<1>1. AddData(f, data) = IF over THEN [f EXCEPT !.full = TRUE] ELSE [f EXCEPT !.buffer = x]
  BY DEF AddData
<1> HIDE DEF x, over
<1>2. CASE over
  <2>0. PICK v : v = TRUE
    OBVIOUS
  <2> DEFINE g == [f EXCEPT !.full = v]
  <2>1. /\ AnyStream(g) /\ g.sig = f.sig /\ g.file = f.file /\ g.size = f.size
        /\ g.pos = f.pos /\ g.taken = f.taken /\ g.buffer = f.buffer
    BY DEF AnyStream
  <2>2. AddData(f, data) = g
    BY <1>1, <1>2, <2>0, Zenon
  <2> HIDE DEF g
  <2> QED  BY <1>2, <2>1, <2>2 DEF over
<1>3. CASE ~over
  <2> DEFINE g == [f EXCEPT !.buffer = x]
  <2>1. /\ AnyStream(g) /\ g.sig = f.sig /\ g.file = f.file /\ g.size = f.size
        /\ g.pos = f.pos /\ g.taken = f.taken /\ g.buffer = x
    BY DEF AnyStream
  <2> HIDE DEF g
  <2>2. AddData(f, data) = g
    BY <1>1, <1>3 DEF g
  <2> QED  BY <1>3, <2>1, <2>2 DEF over, x
<1> QED  BY <1>2, <1>3

LEMMA DumpedParts ==
  ASSUME NEW f, AnyStream(f), Good(f)
  PROVE  LET g == Dumped(f)
         IN  /\ AnyStream(g) /\ g.sig = f.sig /\ g.file = f.file /\ g.size = f.size
             /\ g.buffer = <<>> /\ g.taken = f.taken /\ g.pos = f.pos + Len(f.buffer)
<1> DEFINE h == Advanced(f, f.buffer)
<1>1. /\ AnyStream(h) /\ h.sig = f.sig /\ h.file = f.file /\ h.size = f.size
      /\ h.taken = f.taken /\ h.pos = f.pos + Len(f.buffer)
  BY AdvancedParts
<1>2. PICK v : v = FALSE
  OBVIOUS
<1> DEFINE g == [h EXCEPT !.buffer = <<>>, !.full = v]
<1>3. Dumped(f) = g
  BY <1>2, Zenon DEF Dumped
<1> HIDE DEF h
<1>4. /\ AnyStream(g) /\ g.sig = h.sig /\ g.file = h.file /\ g.size = h.size
      /\ g.buffer = <<>> /\ g.taken = h.taken /\ g.pos = h.pos
  <2> DEFINE k == [h EXCEPT !.full = v]
             l == [k EXCEPT !.buffer = <<>>]
  <2>1. g = l
    BY <1>1 DEF AnyStream
  <2>2. /\ AnyStream(k) /\ k.sig = h.sig /\ k.file = h.file /\ k.size = h.size
        /\ k.taken = h.taken /\ k.pos = h.pos
    BY <1>1 DEF AnyStream
  <2> HIDE DEF k
  <2>3. /\ AnyStream(l) /\ l.sig = k.sig /\ l.file = k.file /\ l.size = k.size
        /\ l.buffer = <<>> /\ l.taken = k.taken /\ l.pos = k.pos
    BY <2>2 DEF AnyStream
  <2> HIDE DEF l, g
  <2> QED  BY <2>1, <2>2, <2>3
<1> HIDE DEF g
<1> QED  BY <1>1, <1>3, <1>4

LEMMA EmptiedParts ==
  ASSUME NEW f, AnyStream(f)
  PROVE  LET g == [f EXCEPT !.buffer = <<>>, !.full = FALSE, !.taken = SubSeq(@, 1, f.pos)]
         IN  /\ AnyStream(g) /\ g.sig = f.sig /\ g.file = f.file /\ g.size = f.size
             /\ g.buffer = <<>> /\ g.taken = SubSeq(f.taken, 1, f.pos) /\ g.pos = f.pos
<1> DEFINE x == SubSeq(f.taken, 1, f.pos)
           e == [f EXCEPT !.buffer = <<>>, !.full = FALSE, !.taken = SubSeq(@, 1, f.pos)]
<1>1. PICK v : v = FALSE
  OBVIOUS
<1> DEFINE g == [f EXCEPT !.buffer = <<>>, !.full = v, !.taken = x]
<1>2. e = g
  BY <1>1, Zenon
<1> HIDE DEF x, e
<1>3. /\ AnyStream(g) /\ g.sig = f.sig /\ g.file = f.file /\ g.size = f.size
      /\ g.buffer = <<>> /\ g.taken = x /\ g.pos = f.pos
  <2> DEFINE k == [f EXCEPT !.full = v]
             l == [k EXCEPT !.buffer = <<>>]
             m == [l EXCEPT !.taken = x]
  <2>1. g = m
    BY DEF AnyStream
  <2>2. /\ AnyStream(k) /\ k.sig = f.sig /\ k.file = f.file /\ k.size = f.size
        /\ k.pos = f.pos
    BY DEF AnyStream
  <2> HIDE DEF k
  <2>3. /\ AnyStream(l) /\ l.sig = k.sig /\ l.file = k.file /\ l.size = k.size
        /\ l.buffer = <<>> /\ l.pos = k.pos
    BY <2>2 DEF AnyStream
  <2> HIDE DEF l
  <2>4. /\ AnyStream(m) /\ m.sig = l.sig /\ m.file = l.file /\ m.size = l.size
        /\ m.buffer = l.buffer /\ m.taken = x /\ m.pos = l.pos
    BY <2>3 DEF AnyStream
  <2> HIDE DEF m, g
  <2> QED  BY <2>1, <2>2, <2>3, <2>4
<1> HIDE DEF g
<1> QED  BY <1>2, <1>3 DEF x, e

LEMMA RecordedParts ==
  ASSUME NEW f, NEW s, AnyStream(f)
  PROVE  LET g == Recorded(f, s)
             fits == realTime => Len(f.buffer) + Len(Line(s)) <= f.size
         IN  /\ AnyStream(g) /\ g.sig = f.sig /\ g.file = f.file /\ g.size = f.size
             /\ g.taken = IF fits THEN f.taken \o Line(s) ELSE f.taken
             /\ g.buffer = IF ~realTime \/ Len(f.buffer) + Len(Line(s)) > f.size THEN f.buffer
                           ELSE f.buffer \o Line(s)
             /\ g.pos = IF realTime \/ ~Good(f) THEN f.pos ELSE f.pos + Len(Line(s))
<1> DEFINE h == IF realTime THEN RecordSignal(f, s) ELSE Advanced(f, Line(s))
           fits == realTime => Len(f.buffer) + Len(Line(s)) <= f.size
           x == IF fits THEN h.taken \o Line(s) ELSE h.taken
           b == IF ~realTime \/ Len(f.buffer) + Len(Line(s)) > f.size THEN f.buffer
                ELSE f.buffer \o Line(s)
           p == IF realTime \/ ~Good(f) THEN f.pos ELSE f.pos + Len(Line(s))
<1>1. /\ AnyStream(h) /\ h.sig = f.sig /\ h.file = f.file /\ h.size = f.size
      /\ h.taken = f.taken /\ h.buffer = b /\ h.pos = p
  BY AdvancedParts, AddedParts DEF RecordSignal
<1>2. Recorded(f, s) = [h EXCEPT !.taken = x]
  BY DEF Recorded
<1> HIDE DEF h, x, b, p, fits
<1>3. LET g == [h EXCEPT !.taken = x]
      IN  /\ AnyStream(g) /\ g.sig = h.sig /\ g.file = h.file /\ g.size = h.size
          /\ g.buffer = h.buffer /\ g.taken = x /\ g.pos = h.pos
  BY <1>1 DEF AnyStream
<1>4. x = IF fits THEN f.taken \o Line(s) ELSE f.taken
  BY <1>1 DEF x
<1> QED  BY <1>1, <1>2, <1>3, <1>4 DEF b, p, fits

LEMMA Joined ==
  ASSUME NEW a \in Seq(Cells), NEW b \in Seq(Cells), NEW c \in Seq(Cells)
  PROVE  /\ a \o b \in Seq(Cells) /\ Len(a \o b) = Len(a) + Len(b)
         /\ (a \o b) \o c = a \o (b \o c) /\ a \o <<>> = a
<1>1. a \o b \in Seq(Cells) /\ Len(a \o b) = Len(a) + Len(b)
  BY ConcatProperties, Zenon
<1>2. (a \o b) \o c = a \o (b \o c)
  BY ConcatAssociative
<1>3. a \o <<>> = a
  BY ConcatEmptySeq
<1> QED  BY <1>1, <1>2, <1>3

LEMMA CellsJoined ==
  ASSUME NEW a \in Seq(Cells), NEW b \in Seq(Cells), NEW s,
         \A c \in DOMAIN a : a[c][1] = s, \A c \in DOMAIN b : b[c][1] = s
  PROVE  \A c \in DOMAIN (a \o b) : (a \o b)[c][1] = s
<1> DEFINE t == a \o b
<1>1. /\ t \in Seq(Cells) /\ Len(t) = Len(a) + Len(b)
      /\ \A i \in 1 .. Len(a) + Len(b) : t[i] = IF i <= Len(a) THEN a[i] ELSE b[i - Len(a)]
  BY ConcatProperties, Zenon
<1> HIDE DEF t
<1>2. ASSUME NEW c \in DOMAIN t PROVE t[c][1] = s
  <2>1. c \in 1 .. Len(a) + Len(b) /\ Len(a) \in Nat /\ Len(b) \in Nat
    BY <1>1
  <2>2. CASE c <= Len(a)
    BY <1>1, <2>1, <2>2
  <2>3. CASE ~ (c <= Len(a))
    <3>1. c - Len(a) \in DOMAIN b
      BY <2>1, <2>3
    <3> QED  BY <1>1, <2>1, <2>3, <3>1
  <2> QED  BY <2>2, <2>3
<1> QED  BY <1>2 DEF t

LEMMA RecordedOK ==
  ASSUME SettingsOK, NEW f, StreamOK(f)
  PROVE  StreamOK(Recorded(f, f.sig)) /\ Recorded(f, f.sig).file = f.file
<1> DEFINE line == Line(f.sig)
           g == Recorded(f, f.sig)
           fits == realTime => Len(f.buffer) + Len(line) <= f.size
           b == IF ~realTime \/ Len(f.buffer) + Len(line) > f.size THEN f.buffer
                ELSE f.buffer \o line
<1>1. line \in Seq(Cells) /\ \A c \in DOMAIN line : line[c][1] = f.sig
  BY LineCells DEF StreamOK
<1>2. /\ AnyStream(g) /\ g.sig = f.sig /\ g.file = f.file /\ g.size = f.size
      /\ g.taken = IF fits THEN f.taken \o line ELSE f.taken
      /\ g.buffer = b
      /\ g.pos = IF realTime \/ ~Good(f) THEN f.pos ELSE f.pos + Len(line)
  BY RecordedParts DEF StreamOK
<1> HIDE DEF g, line
<1>3. /\ f.sig \in Signals /\ f.file \in FileNames /\ f.pos \in Nat /\ f.size \in Nat
      /\ f.buffer \in Seq(Cells) /\ f.taken \in Seq(Cells)
      /\ Len(f.buffer) <= f.size
      /\ ~realTime => f.buffer = <<>>
      /\ f.pos + Len(f.buffer) <= Len(f.taken)
      /\ \A c \in DOMAIN f.taken : f.taken[c][1] = f.sig
  BY DEF StreamOK
<1>4. /\ f.taken \o line \in Seq(Cells) /\ Len(f.taken \o line) = Len(f.taken) + Len(line)
      /\ f.buffer \o line \in Seq(Cells) /\ Len(f.buffer \o line) = Len(f.buffer) + Len(line)
  BY <1>1, <1>3, Joined
<1>5. \A c \in DOMAIN (f.taken \o line) : (f.taken \o line)[c][1] = f.sig
  BY <1>1, <1>3, CellsJoined
<1>6. Len(line) \in Nat /\ Len(f.taken) \in Nat /\ Len(f.buffer) \in Nat
  BY <1>1, <1>3
<1>7. g.buffer \in Seq(Cells) /\ Len(g.buffer) <= g.size /\ (~realTime => g.buffer = <<>>)
  BY <1>2, <1>3, <1>4, <1>6
<1>8. g.taken \in Seq(Cells) /\ \A c \in DOMAIN g.taken : g.taken[c][1] = g.sig
  BY <1>2, <1>3, <1>4, <1>5, Zenon
<1>9. g.pos \in Nat /\ g.pos + Len(g.buffer) <= Len(g.taken)
  <2>1. CASE ~realTime
    <3>1. g.taken = f.taken \o line /\ g.buffer = f.buffer /\ Len(f.buffer) = 0
      BY <1>2, <1>3, <2>1
    <3>2. g.pos = f.pos \/ g.pos = f.pos + Len(line)
      BY <1>2
    <3> QED  BY <1>3, <1>4, <1>6, <3>1, <3>2
  <2>2. CASE realTime /\ fits
    <3>1. g.taken = f.taken \o line /\ g.buffer = f.buffer \o line /\ g.pos = f.pos
      BY <1>2, <1>3, <1>6, <2>2
    <3> QED  BY <1>3, <1>4, <1>6, <3>1
  <2>3. CASE realTime /\ ~fits
    <3>1. g.taken = f.taken /\ g.buffer = f.buffer /\ g.pos = f.pos
      BY <1>2, <1>3, <1>6, <2>3
    <3> QED  BY <1>3, <3>1
  <2> QED  BY <2>1, <2>2, <2>3
<1> QED  BY <1>2, <1>3, <1>7, <1>8, <1>9 DEF StreamOK, g

LEMMA DumpedOK ==
  ASSUME NEW f, StreamOK(f), Good(f)
  PROVE  StreamOK(Dumped(f)) /\ Dumped(f).file = f.file
<1> DEFINE g == Dumped(f)
<1>1. /\ AnyStream(g) /\ g.sig = f.sig /\ g.file = f.file /\ g.size = f.size
      /\ g.buffer = <<>> /\ g.taken = f.taken /\ g.pos = f.pos + Len(f.buffer)
  BY DumpedParts DEF StreamOK
<1> HIDE DEF g
<1>2. g.buffer \in Seq(Cells) /\ Len(g.buffer) = 0
  BY <1>1
<1> QED  BY <1>1, <1>2 DEF StreamOK, g

LEMMA EmptiedOK ==
  ASSUME NEW f, StreamOK(f)
  PROVE  LET g == [f EXCEPT !.buffer = <<>>, !.full = FALSE, !.taken = SubSeq(@, 1, f.pos)]
         IN  StreamOK(g) /\ g.file = f.file
<1> DEFINE g == [f EXCEPT !.buffer = <<>>, !.full = FALSE, !.taken = SubSeq(@, 1, f.pos)]
           t == SubSeq(f.taken, 1, f.pos)
<1>1. /\ AnyStream(g) /\ g.sig = f.sig /\ g.file = f.file /\ g.size = f.size
      /\ g.buffer = <<>> /\ g.taken = t /\ g.pos = f.pos
  BY EmptiedParts DEF StreamOK
<1> HIDE DEF g
<1>2. g.buffer \in Seq(Cells) /\ Len(g.buffer) = 0
  BY <1>1
<1>3. /\ f.taken \in Seq(Cells) /\ f.pos \in Nat /\ f.pos <= Len(f.taken)
      /\ \A c \in DOMAIN f.taken : f.taken[c][1] = f.sig
  BY DEF StreamOK
<1>4. t \in Seq(Cells) /\ Len(t) = f.pos /\ \A c \in 1 .. f.pos : t[c] = f.taken[c]
  BY <1>3
<1> HIDE DEF t
<1>5. \A c \in DOMAIN t : t[c][1] = f.sig
  BY <1>3, <1>4
<1> QED  BY <1>1, <1>2, <1>4, <1>5 DEF StreamOK, g

LEMMA OpenedOK ==
  ASSUME SettingsOK, NEW s \in Signals, NEW given \in Given
  PROVE  LET f == Fresh(s, given)
         IN  StreamOK(f) /\ f.pos = 0 /\ f.buffer = <<>> /\ f.taken = <<>>
<1> DEFINE f == Fresh(s, given)
           file == IF given = "" THEN shortName[s] ELSE given
<1>1. file \in FileNames
  BY TracerAssumption DEF FileNames, Range
<1>2. bufferSize \in Nat
  BY DEF SettingsOK
<1>3. /\ AnyStream(f) /\ f.sig = s /\ f.file = file /\ f.size = bufferSize
      /\ f.pos = 0 /\ f.buffer = <<>> /\ f.taken = <<>>
  BY StreamMade DEF Fresh, Stream, HardFile
<1> HIDE DEF f, file
<1>4. <<>> \in Seq(Cells) /\ Len(<<>>) = 0 /\ DOMAIN <<>> = {}
  OBVIOUS
<1> QED  BY <1>1, <1>2, <1>3, <1>4 DEF StreamOK, f

(***************************************************************************)
(* Preservation.                                                           *)
(***************************************************************************)

LEMMA InitFiles == ASSUME BufferSizes \subseteq Nat PROVE Init => FileInv
<1> SUFFICES ASSUME Init PROVE FileInv
  OBVIOUS
<1>1. /\ toTraceSignals = <<>> /\ names = <<>> /\ asked = <<>> /\ files = <<>>
      /\ disk = [f \in FileNames |-> <<>>] /\ signalTime = [s \in Signals |-> 0]
      /\ namesSet = FALSE /\ play = FALSE /\ timeStart = 0 /\ realTime \in BOOLEAN
  BY DEF Init
<1>2. bufferSize \in BufferSizes
  BY TracerAssumption DEF Init, BufferSizeDefault
<1>3. SettingsOK
  <2>1. signalTime \in [Signals -> 0 .. MaxTime]
    BY <1>1, TracerAssumption
  <2>2. /\ toTraceSignals \in Seq(Signals) /\ names \in Seq(Given) /\ asked \in Seq(Given)
        /\ Len(names) >= Len(toTraceSignals)
    BY <1>1
  <2>3. namesSet \in BOOLEAN /\ play \in BOOLEAN /\ timeStart \in Nat
    BY <1>1
  <2> QED  BY <1>1, <1>2, <2>1, <2>2, <2>3 DEF SettingsOK
<1>4. FilesOK
  <2>1. disk \in Disks
    <3>1. <<>> \in Seq(Cells)
      OBVIOUS
    <3> QED  BY <1>1, <3>1 DEF Disks
  <2>2. DOMAIN files = {}
    BY <1>1
  <2> QED  BY <2>1, <2>2 DEF FilesOK, Alone
<1> QED  BY <1>3, <1>4, InitLists DEF FileInv

LEMMA NextSettings == SettingsOK /\ [Next]_vars => SettingsOK'
<1> SUFFICES ASSUME SettingsOK, [Next]_vars PROVE SettingsOK'
  OBVIOUS
<1> USE DEF SettingsOK
<1>1. ASSUME NEW s \in Signals, NEW given \in Given, AddSignalToTrace(s, given) PROVE SettingsOK'
  <2>1. /\ toTraceSignals' = Append(toTraceSignals, s) /\ names' = Append(names, given)
        /\ asked' = Append(asked, given) /\ UNCHANGED <<settings, signalTime>>
    BY <1>1 DEF AddSignalToTrace
  <2>2. toTraceSignals' \in Seq(Signals) /\ Len(toTraceSignals') = Len(toTraceSignals) + 1
    BY <2>1
  <2>3. names' \in Seq(Given) /\ Len(names') = Len(names) + 1 /\ asked' \in Seq(Given)
    BY <2>1
  <2>4. Len(names') >= Len(toTraceSignals')
    BY <2>2, <2>3
  <2> QED  BY <2>1, <2>2, <2>3, <2>4 DEF settings
<1>2. CASE OpenFiles
  BY <1>2 DEF OpenFiles, lists
<1>3. CASE CloseFiles
  BY <1>3 DEF CloseFiles, lists, settings
<1>4. CASE ClearSignalToTrace
  BY <1>4 DEF ClearSignalToTrace, settings
<1>5. CASE Start \/ Stop
  BY <1>5 DEF Start, Stop, lists
<1>6. ASSUME NEW t \in {0, 1}, SetTimeStart(t) PROVE SettingsOK'
  BY <1>6 DEF SetTimeStart, lists
<1>7. ASSUME NEW n \in BufferSizes, SetBufferSize(n) PROVE SettingsOK'
  BY <1>7 DEF SetBufferSize, lists
<1>8. ASSUME NEW s \in Signals, Compute(s) PROVE SettingsOK'
  <2>1. signalTime' \in [Signals -> 0 .. MaxTime] /\ UNCHANGED <<lists, settings>>
    BY <1>8, TracerAssumption DEF Compute
  <2> QED  BY <2>1 DEF lists, settings
<1>9. CASE Record \/ Trace \/ EmptyBuffers
  BY <1>9 DEF Record, Trace, EmptyBuffers, lists, settings
<1>10. CASE Renew
  <2>1. /\ toTraceSignals' = <<>> /\ names' = <<>> /\ asked' = <<>>
        /\ namesSet' = FALSE /\ play' = FALSE /\ timeStart' = 0 /\ bufferSize' = BufferSizeDefault
        /\ UNCHANGED <<realTime, signalTime>>
    BY <1>10 DEF Renew
  <2>2. BufferSizeDefault \in BufferSizes
    BY TracerAssumption DEF BufferSizeDefault
  <2>3. /\ toTraceSignals' \in Seq(Signals) /\ names' \in Seq(Given) /\ asked' \in Seq(Given)
        /\ Len(names') >= Len(toTraceSignals')
    BY <2>1
  <2> QED  BY <2>1, <2>2, <2>3
<1>11. CASE UNCHANGED vars
  BY <1>11 DEF vars
<1> QED
  BY <1>1, <1>2, <1>3, <1>4, <1>5, <1>6, <1>7, <1>8, <1>9, <1>10, <1>11 DEF Next

\* No file is opened, closed or written.
LEMMA SameFiles ==
  ASSUME FilesOK, UNCHANGED <<opened, disk, realTime>>
  PROVE  FilesOK'
BY DEF FilesOK, StreamOK, AnyStream, Whole, Alone, Good, Disks, opened

LEMMA AllClosed ==
  ASSUME FilesOK, files' = <<>>, UNCHANGED <<disk, realTime>>
  PROVE  FilesOK'
<1>1. DOMAIN files' = {}
  OBVIOUS
<1> QED  BY <1>1 DEF FilesOK, Alone, Disks

\* The files stay open and each goes on.
LEMMA FilesGoOn ==
  ASSUME FilesOK, UNCHANGED realTime, disk' \in Disks, DOMAIN files' = DOMAIN files,
         \A i \in DOMAIN files : StreamOK(files'[i]) /\ files'[i].file = files[i].file,
         \A i \in Alone :
           /\ files'[i].pos = Len(disk'[files[i].file])
           /\ disk'[files[i].file] \o files'[i].buffer = files'[i].taken
  PROVE  FilesOK'
<1>1. Alone' = Alone
  BY DEF Alone, Good
<1>2. \A i \in Alone : i \in DOMAIN files
  BY DEF Alone
<1>3. \A i \in DOMAIN files' : StreamOK(files[i])'
  BY DEF StreamOK, AnyStream
<1>4. \A i \in Alone' : Whole(files[i])'
  BY <1>1, <1>2 DEF Whole
<1> QED  BY <1>3, <1>4 DEF FilesOK, Disks

\* Files are opened: what was open on another name goes on.
LEMMA StepAddFile ==
  ASSUME FileInv, NEW s \in Signals, NEW given \in Given, AddSignalToTrace(s, given), namesSet
  PROVE  FilesOK'
<1> DEFINE f == Fresh(s, given)
           n == Len(files)
<1>1. /\ files' = Append(files, f) /\ UNCHANGED realTime
      /\ disk' = [x \in FileNames |-> IF f.file = x THEN <<>> ELSE disk[x]]
  <2>1. strays = <<>> /\ bufferSize \in Nat
    BY DEF FileInv, SettingsOK, ListInv, AllPaired
  <2>2. files' = IF namesSet THEN Append(files, Fresh(s, given)) ELSE files
    BY <2>1, FileAdded
  <2>3. disk' = IF namesSet THEN Truncated(Fresh(s, given).file) ELSE disk
    BY <2>1, FileAdded
  <2>4. UNCHANGED realTime
    BY DEF AddSignalToTrace, settings
  <2> QED  BY <2>2, <2>3, <2>4 DEF Truncated
<1>2. StreamOK(f) /\ f.pos = 0 /\ f.buffer = <<>> /\ f.taken = <<>>
  BY OpenedOK DEF FileInv
<1>3. disk' = [x \in FileNames |-> IF f.file = x THEN <<>> ELSE disk[x]]
  BY <1>1
<1> HIDE DEF f
<1>4. PICK T : files \in Seq(T)
  BY DEF FileInv, ListInv
<1>5. /\ n \in Nat /\ DOMAIN files = 1 .. n /\ DOMAIN files' = 1 .. n + 1
      /\ files'[n + 1] = f /\ \A i \in 1 .. n : files'[i] = files[i]
  BY <1>1, <1>4
<1> HIDE DEF n
<1>6. disk' \in Disks
  <2>1. <<>> \in Seq(Cells)
    OBVIOUS
  <2> QED  BY <1>3, <2>1 DEF FileInv, FilesOK, Disks
<1>7. ASSUME NEW i \in DOMAIN files'
      PROVE  StreamOK(files'[i])
  BY <1>2, <1>5 DEF FileInv, FilesOK
<1>8. ASSUME NEW i \in Alone' PROVE Whole(files[i])'
  <2>1. i \in 1 .. n + 1 /\ Good(files'[i])
        /\ \A j \in 1 .. n + 1 : j # i => files'[j].file # files'[i].file
    BY <1>5 DEF Alone, Good
  <2>2. CASE i = n + 1
    <3>1. disk'[f.file] = <<>>
      BY <1>2, <1>3 DEF StreamOK
    <3>2. f.pos = Len(<<>>) /\ <<>> \o f.buffer = f.taken
      BY <1>2
    <3>3. files'[i] = f
      BY <1>5, <2>2
    <3> QED  BY <3>1, <3>2, <3>3 DEF Whole
  <2>3. CASE i # n + 1
    <3>1. i \in 1 .. n /\ n + 1 \in 1 .. n + 1
      BY <1>5, <2>1, <2>3
    <3>2. files'[i] = files[i] /\ f.file # files[i].file
      BY <1>5, <2>1, <2>3, <3>1
    <3>3. i \in Alone
      <4>1. \A j \in 1 .. n : j \in 1 .. n + 1
        BY <1>5
      <4> QED  BY <1>5, <2>1, <3>1, <4>1 DEF Alone, Good
    <3>4. Whole(files[i]) /\ files[i].file \in FileNames
      BY <1>5, <3>1, <3>3 DEF FileInv, FilesOK, StreamOK
    <3>5. disk'[files[i].file] = disk[files[i].file]
      BY <1>3, <3>2, <3>4
    <3> QED  BY <3>2, <3>4, <3>5 DEF Whole
  <2> QED  BY <2>2, <2>3
<1>9. \A i \in DOMAIN files' : StreamOK(files[i])'
  BY <1>1, <1>7 DEF StreamOK, AnyStream
<1> QED  BY <1>6, <1>8, <1>9 DEF FilesOK, Disks

LEMMA StepOpenFiles ==
  ASSUME FileInv, OpenFiles
  PROVE  FilesOK'
<1> DEFINE n == Len(toTraceSignals)
<1>1. /\ files' = [i \in 1 .. n |-> Fresh(toTraceSignals[i], names[i])]
      /\ Opened(files') /\ UNCHANGED realTime
  BY FilesOpened DEF FileInv, SettingsOK, ListInv, AllPaired
<1>2. /\ n \in Nat /\ DOMAIN toTraceSignals = 1 .. n
      /\ \A i \in 1 .. n : toTraceSignals[i] \in Signals /\ names[i] \in Given
  BY DEF FileInv, SettingsOK
<1> HIDE DEF n
<1>3. /\ DOMAIN files' = 1 .. n
      /\ \A i \in 1 .. n : files'[i] = Fresh(toTraceSignals[i], names[i])
  BY <1>1, <1>2
<1>4. \A i \in 1 .. n : /\ StreamOK(files'[i]) /\ files'[i].pos = 0
                        /\ files'[i].buffer = <<>> /\ files'[i].taken = <<>>
  BY <1>2, <1>3, OpenedOK DEF FileInv
<1>5. disk' = [f \in FileNames |->
                 IF \E i \in DOMAIN files' : files'[i].file = f THEN <<>> ELSE disk[f]]
  BY <1>1 DEF Opened
<1>6. disk' \in Disks
  <2>1. <<>> \in Seq(Cells)
    OBVIOUS
  <2> QED  BY <1>5, <2>1 DEF FileInv, FilesOK, Disks
<1>7. ASSUME NEW i \in 1 .. n PROVE Whole(files[i])'
  <2>1. disk'[files'[i].file] = <<>>
    BY <1>3, <1>4, <1>5 DEF StreamOK
  <2>2. files'[i].pos = Len(<<>>) /\ <<>> \o files'[i].buffer = files'[i].taken
    BY <1>4
  <2> QED  BY <2>1, <2>2 DEF Whole
<1>8. \A i \in DOMAIN files' : StreamOK(files[i])'
  BY <1>1, <1>3, <1>4 DEF StreamOK, AnyStream
<1>9. \A i \in Alone' : i \in 1 .. n
  BY <1>3 DEF Alone
<1> QED  BY <1>6, <1>7, <1>8, <1>9 DEF FilesOK, Disks

\* The loops are given cells for the open files.
LEMMA Writable ==
  ASSUME FileInv, NEW cells \in [DOMAIN files -> Seq(Cells)]
  PROVE  /\ Written(cells) \in Disks
         /\ \A i \in Alone : /\ i \in DOMAIN files /\ Good(files[i])
                             /\ disk[files[i].file] \in Seq(Cells)
                             /\ Written(cells)[files[i].file] = disk[files[i].file] \o cells[i]
                             /\ files[i].pos = Len(disk[files[i].file])
                             /\ disk[files[i].file] \o files[i].buffer = files[i].taken
<1> DEFINE n == Len(files)
<1>1. PICK T : files \in Seq(T)
  BY DEF FileInv, ListInv
<1>2. n \in Nat /\ DOMAIN files = 1 .. n
  BY <1>1
<1> HIDE DEF n
<1>3. ASSUME NEW i \in Alone
      PROVE  /\ i \in DOMAIN files /\ Good(files[i])
             /\ disk[files[i].file] \in Seq(Cells)
             /\ files[i].pos = Len(disk[files[i].file])
             /\ disk[files[i].file] \o files[i].buffer = files[i].taken
  BY DEF Alone, FileInv, FilesOK, Whole, StreamOK, Disks
<1>4. ToWrite(n, cells)
  BY <1>2, <1>3 DEF ToWrite, FileInv, FilesOK, StreamOK
<1> QED  BY <1>2, <1>3, <1>4, WrittenAll

LEMMA StepRecord ==
  ASSUME FileInv, Record
  PROVE  FilesOK'
<1> DEFINE cells == [i \in DOMAIN files |-> Line(toTraceSignals[i])]
<1>1. /\ Len(files) = Len(toTraceSignals) /\ UNCHANGED realTime
      /\ files' = [i \in DOMAIN files |-> Recorded(files[i], toTraceSignals[i])]
      /\ disk' = IF realTime THEN disk ELSE Written(cells)
  BY DEF Record, settings
<1>2. ASSUME NEW i \in DOMAIN files
      PROVE  toTraceSignals[i] = files[i].sig /\ StreamOK(files[i])
  <2>1. PICK T : files \in Seq(T)
    BY DEF FileInv, ListInv
  <2>2. i \in Nat /\ Len(toTraceSignals) - Len(files) + i = i
    BY <1>1, <2>1 DEF FileInv, SettingsOK
  <2> QED  BY <2>2 DEF FileInv, ListInv, AllPaired, FilesOK
<1>3. \A i \in DOMAIN files : Line(files[i].sig) \in Seq(Cells)
  BY <1>2, LineCells DEF FileInv, StreamOK
<1>4. cells \in [DOMAIN files -> Seq(Cells)] /\ \A i \in DOMAIN files : cells[i] = Line(files[i].sig)
  BY <1>2, <1>3
<1> HIDE DEF cells
<1>5. \A i \in DOMAIN files : files'[i] = Recorded(files[i], files[i].sig)
  BY <1>1, <1>2
<1>6. \A i \in DOMAIN files : StreamOK(files'[i]) /\ files'[i].file = files[i].file
  BY <1>2, <1>5, RecordedOK DEF FileInv
<1>7. disk' \in Disks
  BY <1>1, <1>4, Writable DEF FileInv, FilesOK
<1>8. ASSUME NEW i \in Alone
      PROVE  /\ files'[i].pos = Len(disk'[files[i].file])
             /\ disk'[files[i].file] \o files'[i].buffer = files'[i].taken
  <2> DEFINE f == files[i]
             g == files'[i]
             old == disk[f.file]
             line == Line(f.sig)
             fits == realTime => Len(f.buffer) + Len(line) <= f.size
  <2>1. /\ i \in DOMAIN files /\ Good(f) /\ old \in Seq(Cells)
        /\ Written(cells)[f.file] = old \o line
        /\ f.pos = Len(old) /\ old \o f.buffer = f.taken
    BY <1>4, Writable
  <2>2. /\ line \in Seq(Cells) /\ f.buffer \in Seq(Cells) /\ f.size \in Nat
        /\ ~realTime => f.buffer = <<>>
    BY <1>2, <1>3, <2>1 DEF StreamOK
  <2>3. /\ g.taken = IF fits THEN f.taken \o line ELSE f.taken
        /\ g.buffer = IF ~realTime \/ Len(f.buffer) + Len(line) > f.size THEN f.buffer
                      ELSE f.buffer \o line
        /\ g.pos = IF realTime \/ ~Good(f) THEN f.pos ELSE f.pos + Len(line)
    <3>1. AnyStream(f) /\ g = Recorded(f, f.sig)
      BY <1>2, <1>5, <2>1 DEF StreamOK
    <3> HIDE DEF f, g
    <3> QED  BY <3>1, RecordedParts
  <2>4. disk'[f.file] = IF realTime THEN old ELSE old \o line
    BY <1>1, <2>1
  <2> HIDE DEF f, g, old, line
  <2>5. CASE ~realTime
    <3>1. /\ disk'[f.file] = old \o line /\ g.taken = f.taken \o line /\ g.buffer = <<>>
          /\ g.pos = Len(old) + Len(line) /\ old \o <<>> = f.taken
      BY <2>1, <2>2, <2>3, <2>4, <2>5
    <3>2. Len(old \o line) = Len(old) + Len(line) /\ old \o <<>> = old
      BY <2>1, <2>2, Joined
    <3>3. (old \o line) \o <<>> = old \o line
      BY <2>1, <2>2, Joined
    <3>4. g.pos = Len(disk'[f.file]) /\ disk'[f.file] \o g.buffer = g.taken
      BY <3>1, <3>2, <3>3
    <3> QED  BY <3>4 DEF f, g
  <2>6. CASE realTime /\ fits
    <3>1. /\ disk'[f.file] = old /\ g.taken = f.taken \o line /\ g.buffer = f.buffer \o line
          /\ g.pos = Len(old)
      BY <2>1, <2>2, <2>3, <2>4, <2>6
    <3>2. (old \o f.buffer) \o line = old \o (f.buffer \o line)
      <4>1. \A x, y, z \in Seq(Cells) : (x \o y) \o z = x \o (y \o z)
        BY Joined
      <4> QED  BY <2>1, <2>2, <4>1, Zenon
    <3>3. g.pos = Len(disk'[f.file]) /\ disk'[f.file] \o g.buffer = g.taken
      BY <2>1, <3>1, <3>2
    <3> QED  BY <3>3 DEF f, g
  <2>7. CASE realTime /\ ~fits
    <3>1. /\ disk'[f.file] = old /\ g.taken = f.taken /\ g.buffer = f.buffer
          /\ g.pos = Len(old)
      BY <2>1, <2>2, <2>3, <2>4, <2>7
    <3>2. g.pos = Len(disk'[f.file]) /\ disk'[f.file] \o g.buffer = g.taken
      BY <2>1, <3>1
    <3> QED  BY <3>2 DEF f, g
  <2> QED  BY <2>5, <2>6, <2>7
<1>9. DOMAIN files' = DOMAIN files
  BY <1>1
<1> QED  BY <1>1, <1>6, <1>7, <1>8, <1>9, FilesGoOn DEF FileInv

LEMMA StepTrace ==
  ASSUME FileInv, Trace
  PROVE  FilesOK'
<1> DEFINE reached == {i \in DOMAIN files : \A j \in 1 .. i : Good(files[j])}
           cells == [i \in DOMAIN files |-> IF i \in reached THEN files[i].buffer ELSE <<>>]
<1>1. /\ UNCHANGED realTime
      /\ files' = [i \in DOMAIN files |-> IF i \in reached THEN Dumped(files[i]) ELSE files[i]]
      /\ disk' = Written(cells)
  BY DEF Trace, settings
<1>2. ASSUME NEW i \in DOMAIN files
      PROVE  StreamOK(files[i]) /\ (i \in reached => Good(files[i]))
  <2>1. PICK T : files \in Seq(T)
    BY DEF FileInv, ListInv
  <2>2. i \in 1 .. i
    BY <2>1
  <2> QED  BY <2>2 DEF FileInv, FilesOK
<1> HIDE DEF reached
<1>3. cells \in [DOMAIN files -> Seq(Cells)]
      /\ \A i \in DOMAIN files : cells[i] = IF i \in reached THEN files[i].buffer ELSE <<>>
  <2>1. <<>> \in Seq(Cells)
    OBVIOUS
  <2> QED  BY <1>2, <2>1 DEF StreamOK
<1> HIDE DEF cells
<1>4. \A i \in DOMAIN files : StreamOK(files'[i]) /\ files'[i].file = files[i].file
  BY <1>1, <1>2, DumpedOK
<1>5. disk' \in Disks
  BY <1>1, <1>3, Writable
<1>6. ASSUME NEW i \in Alone
      PROVE  /\ files'[i].pos = Len(disk'[files[i].file])
             /\ disk'[files[i].file] \o files'[i].buffer = files'[i].taken
  <2> DEFINE f == files[i]
             g == files'[i]
             old == disk[f.file]
  <2>1. /\ i \in DOMAIN files /\ Good(f) /\ old \in Seq(Cells)
        /\ disk'[f.file] = old \o cells[i]
        /\ f.pos = Len(old) /\ old \o f.buffer = f.taken
    BY <1>1, <1>3, Writable
  <2>2. AnyStream(f) /\ f.buffer \in Seq(Cells) /\ f.taken \in Seq(Cells)
    BY <1>2, <2>1 DEF StreamOK
  <2>3. g = IF i \in reached THEN Dumped(f) ELSE f
    BY <1>1, <2>1
  <2>4. cells[i] = IF i \in reached THEN f.buffer ELSE <<>>
    BY <1>3, <2>1
  <2> HIDE DEF f, g, old
  <2>5. CASE i \in reached
    <3>1. g.buffer = <<>> /\ g.taken = f.taken /\ g.pos = f.pos + Len(f.buffer)
      BY <2>1, <2>2, <2>3, <2>5, DumpedParts
    <3>2. Len(old \o f.buffer) = Len(old) + Len(f.buffer) /\ f.taken \o <<>> = f.taken
      BY <2>1, <2>2, Joined
    <3>3. g.pos = Len(disk'[f.file]) /\ disk'[f.file] \o g.buffer = g.taken
      BY <2>1, <2>4, <2>5, <3>1, <3>2
    <3> QED  BY <3>3 DEF f, g
  <2>6. CASE i \notin reached
    <3>1. old \o <<>> = old
      BY <2>1, Joined
    <3>2. g.pos = Len(disk'[f.file]) /\ disk'[f.file] \o g.buffer = g.taken
      BY <2>1, <2>3, <2>4, <2>6, <3>1
    <3> QED  BY <3>2 DEF f, g
  <2> QED  BY <2>5, <2>6
<1>7. DOMAIN files' = DOMAIN files
  BY <1>1
<1> QED  BY <1>1, <1>4, <1>5, <1>6, <1>7, FilesGoOn DEF FileInv

LEMMA StepEmpty ==
  ASSUME FileInv, EmptyBuffers
  PROVE  FilesOK'
<1>1. /\ UNCHANGED <<realTime, disk>>
      /\ files' = [i \in DOMAIN files |->
                     [files[i] EXCEPT !.buffer = <<>>, !.full = FALSE,
                                      !.taken = SubSeq(@, 1, files[i].pos)]]
  BY DEF EmptyBuffers, settings
<1>2. \A i \in DOMAIN files : StreamOK(files[i])
  BY DEF FileInv, FilesOK
<1>3. ASSUME NEW i \in DOMAIN files
      PROVE  /\ StreamOK(files'[i]) /\ files'[i].file = files[i].file
             /\ files'[i].buffer = <<>> /\ files'[i].pos = files[i].pos
             /\ files'[i].taken = SubSeq(files[i].taken, 1, files[i].pos)
  <2> DEFINE f == files[i]
  <2>1. StreamOK(f) /\ AnyStream(f)
    BY <1>2 DEF StreamOK
  <2>2. files'[i] = [f EXCEPT !.buffer = <<>>, !.full = FALSE, !.taken = SubSeq(@, 1, f.pos)]
    BY <1>1, Zenon
  <2> HIDE DEF f
  <2>3. /\ StreamOK(files'[i]) /\ files'[i].file = f.file
        /\ files'[i].buffer = <<>> /\ files'[i].pos = f.pos
        /\ files'[i].taken = SubSeq(f.taken, 1, f.pos)
    BY <2>1, <2>2, EmptiedOK, EmptiedParts, Zenon
  <2> QED  BY <2>3 DEF f
<1>4. ASSUME NEW i \in Alone
      PROVE  /\ files'[i].pos = Len(disk'[files[i].file])
             /\ disk'[files[i].file] \o files'[i].buffer = files'[i].taken
  <2> DEFINE f == files[i]
             old == disk[f.file]
  <2>1. /\ i \in DOMAIN files /\ old \in Seq(Cells)
        /\ f.pos = Len(old) /\ old \o f.buffer = f.taken /\ f.buffer \in Seq(Cells)
    BY <1>2 DEF Alone, FileInv, FilesOK, Whole, StreamOK, Disks
  <2>2. files'[i].buffer = <<>> /\ files'[i].pos = f.pos
        /\ files'[i].taken = SubSeq(f.taken, 1, f.pos) /\ disk'[f.file] = old
    BY <1>1, <1>3, <2>1
  <2> HIDE DEF f, old
  <2>3. SubSeq(old \o f.buffer, 1, Len(old)) = old
    <3> DEFINE t == old \o f.buffer
    <3>1. /\ t \in Seq(Cells) /\ Len(t) = Len(old) + Len(f.buffer)
          /\ \A j \in 1 .. Len(old) + Len(f.buffer) :
               t[j] = IF j <= Len(old) THEN old[j] ELSE f.buffer[j - Len(old)]
      BY <2>1, ConcatProperties, Zenon
    <3> HIDE DEF t
    <3>2. Len(old) \in Nat /\ Len(f.buffer) \in Nat
      BY <2>1
    <3>3. /\ SubSeq(t, 1, Len(old)) \in Seq(Cells) /\ Len(SubSeq(t, 1, Len(old))) = Len(old)
          /\ \A j \in 1 .. Len(old) : SubSeq(t, 1, Len(old))[j] = t[j]
      BY <3>1, <3>2
    <3>4. \A j \in 1 .. Len(old) : t[j] = old[j]
      BY <3>1, <3>2
    <3>5. SubSeq(t, 1, Len(old)) = old
      BY <2>1, <3>3, <3>4, SeqEqual
    <3> QED  BY <3>5 DEF t
  <2>4. old \o <<>> = old
    BY <2>1, Joined
  <2>5. /\ files'[i].pos = Len(disk'[f.file])
        /\ disk'[f.file] \o files'[i].buffer = files'[i].taken
    BY <2>1, <2>2, <2>3, <2>4
  <2> QED  BY <2>5 DEF f
<1>5. DOMAIN files' = DOMAIN files /\ disk' \in Disks
  BY <1>1 DEF FileInv, FilesOK
<1> QED  BY <1>1, <1>3, <1>4, <1>5, FilesGoOn DEF FileInv

LEMMA NextFiles == FileInv /\ [Next]_vars => FileInv'
<1> SUFFICES ASSUME FileInv, [Next]_vars PROVE FilesOK'
  BY NextLists, NextSettings DEF FileInv, SettingsOK
<1>1. FilesOK
  BY DEF FileInv
<1>2. ASSUME NEW s \in Signals, NEW given \in Given, AddSignalToTrace(s, given) PROVE FilesOK'
  <2>1. CASE namesSet
    BY <1>2, <2>1, StepAddFile
  <2>2. CASE ~namesSet
    BY <1>1, <1>2, <2>2, FileAdded, SameFiles
    DEF FileInv, SettingsOK, ListInv, AllPaired, settings, opened
  <2> QED  BY <2>1, <2>2
<1>3. CASE OpenFiles
  BY <1>3, StepOpenFiles
<1>4. CASE CloseFiles \/ ClearSignalToTrace \/ Renew
  BY <1>1, <1>4, AllClosed DEF CloseFiles, ClearSignalToTrace, Renew, settings
<1>5. CASE Start \/ Stop
  BY <1>1, <1>5, SameFiles DEF Start, Stop
<1>6. ASSUME NEW t \in {0, 1}, SetTimeStart(t) PROVE FilesOK'
  BY <1>1, <1>6, SameFiles DEF SetTimeStart
<1>7. ASSUME NEW n \in BufferSizes, SetBufferSize(n) PROVE FilesOK'
  BY <1>1, <1>7, SameFiles DEF SetBufferSize
<1>8. ASSUME NEW s \in Signals, Compute(s) PROVE FilesOK'
  BY <1>1, <1>8, SameFiles DEF Compute, settings
<1>9. CASE Record
  BY <1>9, StepRecord
<1>10. CASE Trace
  BY <1>10, StepTrace
<1>11. CASE EmptyBuffers
  BY <1>11, StepEmpty
<1>12. CASE UNCHANGED vars
  BY <1>1, <1>12, SameFiles DEF vars, opened
<1> QED
  BY <1>2, <1>3, <1>4, <1>5, <1>6, <1>7, <1>8, <1>9, <1>10, <1>11, <1>12 DEF Next

\* The files that are open are those of the last signals of the list, in whatever
\* order signals were added and cleared and files opened and closed: when record()
\* finds the lists equally long, each signal is written to its own file.
THEOREM FilesMatch == ASSUME BufferSizes \subseteq Nat PROVE Spec => []FilesMatchSignals
<1>1. FileInv => FilesMatchSignals
  BY DEF FileInv, ListInv, AllPaired, FilesMatchSignals
<1> QED
  BY <1>1, InitFiles, NextFiles, PTL DEF Spec

\* The types of a tracer: the buffers hold no more than the size they were made
\* with, and what ofstreams leave of the files, holes included, are cells.
THEOREM TypeCorrect == ASSUME BufferSizes \subseteq Nat PROVE Spec => []TypeOK
<1>1. FileInv => TypeOK
  <2> SUFFICES ASSUME FileInv PROVE TypeOK
    OBVIOUS
  <2>1. strays \in Seq([sig : Signals, file : FileNames, pos : {0}])
    BY DEF FileInv, ListInv, AllPaired
  <2> QED  BY <2>1 DEF FileInv, SettingsOK, FilesOK, StreamOK, Disks, TypeOK
<1> QED
  BY <1>1, InitFiles, NextFiles, PTL DEF Spec

\* A file that can be written and has one stream holds with the buffer the lines
\* recorded since it was opened, less those refused or trashed: whole, once, in
\* order, of its own signal; for any number of files and lines, sizes of buffers,
\* files that others overwrite, and dumps that a bad file stops.
THEOREM FilesAreWhole == ASSUME BufferSizes \subseteq Nat PROVE Spec => []FilesWhole
<1>1. FileInv => FilesWhole
  <2> SUFFICES ASSUME FileInv, NEW i \in DOMAIN files, files[i].file \notin Unwritable,
                      \A j \in DOMAIN files \ {i} : files[j].file # files[i].file
               PROVE  /\ disk[files[i].file] \o files[i].buffer = files[i].taken
                      /\ \A c \in DOMAIN files[i].taken : files[i].taken[c][1] = files[i].sig
    BY DEF FilesWhole
  <2>1. i \in Alone
    BY DEF Alone, Good
  <2> QED  BY <2>1 DEF FileInv, FilesOK, Whole, StreamOK
<1> QED
  BY <1>1, InitFiles, NextFiles, PTL DEF Spec
=============================================================================
