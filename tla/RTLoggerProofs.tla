--------------------------- MODULE RTLoggerProofs ---------------------------
(***************************************************************************)
(* Type correctness of RTLogger, and what wmutex guarantees to any number  *)
(* of concurrent writers.  For callers that open one entry at a time, the  *)
(* protection of the slot being copied, the exactness of the indices, and  *)
(* what comes out: exactly what was logged, in the order of a bounded      *)
(* queue (LogQueue), in each stream, and before the logger is deleted.     *)
(***************************************************************************)
EXTENDS RTLogger, SequenceTheorems, NatLemmas, TLAPS

USE NAssumption, BoundsAssumption, NoOneAssumption

----------------------------------------------------------------------------
(* The operators of the ring.                                              *)

Cell == [chars : Seq(Chars), pos : Nat]

\* The next index is an index.
LEMMA SuccType == \A i \in Slots : Succ(i) \in Slots
  BY DEF Slots, Succ

\* Succ without the remainder, the form the arithmetic of the proofs uses.
LEMMA SuccCases ==
  \A i \in Slots : Succ(i) = IF i = N - 1 THEN 0 ELSE i + 1
  BY DEF Slots, Succ

\* Writing a character into a slot keeps it a slot, ...
LEMMA PutType ==
  ASSUME NEW b \in Cell, NEW c \in Chars
  PROVE  Put(b, c) \in Cell
<1>1. CASE b.pos < Len(b.chars)
  <2>1. b.pos + 1 \in 1 .. Len(b.chars)
    BY <1>1, LenProperties DEF Cell
  <2>2. [b.chars EXCEPT ![b.pos + 1] = c] \in Seq(Chars)
    BY <2>1, ExceptSeq DEF Cell
  <2> QED  BY <1>1, <2>2 DEF Put, Cell
<1>2. CASE ~(b.pos < Len(b.chars))
  BY <1>2 DEF Put, Cell
<1> QED  BY <1>1, <1>2

\* ... also when oss_ has no slot to write to.
LEMMA PutSlotType ==
  ASSUME NEW b \in [Slots -> Cell], NEW i \in Slots \cup {NoSlot}, NEW c \in Chars
  PROVE  [b EXCEPT ![i] = Put(@, c)] \in [Slots -> Cell]
<1>1. CASE i \in Slots
  <2>1. Put(b[i], c) \in Cell  BY <1>1, PutType
  <2> QED  BY <1>1, <2>1
<1>2. CASE i \notin Slots
  BY <1>2
<1> QED  BY <1>1, <1>2

\* c_str() gives a string of the characters of the slot.
LEMMA CStrType ==
  ASSUME NEW b \in Cell
  PROVE  CStr(b) \in Seq(Chars)
<1> DEFINE nul == {i \in DOMAIN b.chars : b.chars[i] = NUL}
           first == CHOOSE i \in nul : \A j \in nul : i <= j
<1>1. CASE nul = {}
  BY <1>1 DEF CStr, Cell
<1>2. CASE nul # {}
  <2>1. nul \subseteq Nat /\ nul \subseteq 1 .. Len(b.chars)
    BY LenProperties DEF Cell
  <2>2. PICK m \in nul : \A j \in nul : m <= j
    <3>1. IsFiniteSet(1 .. Len(b.chars))
      BY FS_Interval, LenProperties DEF Cell
    <3>2. IsFiniteSet(nul)
      BY <3>1, <2>1, FS_Subset
    <3> QED  BY <1>2, <2>1, <3>2, LeastElement
  <2>3. first \in nul  BY <2>2
  <2>4. first \in 1 .. Len(b.chars)  BY <2>1, <2>3
  <2>5. \A i \in 1 .. first - 1 : b.chars[i] \in Chars
    BY <2>4, ElementOfSeq, LenProperties DEF Cell
  <2>6. SubSeq(b.chars, 1, first - 1) \in Seq(Chars)
    BY <2>4, <2>5, SubSeqProperties
  <2> QED  BY <1>2, <2>6 DEF CStr
<1> QED  BY <1>1, <1>2
----------------------------------------------------------------------------
(* Type correctness.                                                       *)

\* The constructor leaves a well-typed state.
LEMMA InitType == Init => TypeOK
  BY EmptySeq DEF Init, TypeOK, Slots, NoEntry, Chars, NoSlot

\* Type correctness of the steps of front() and of RTLoggerStream.
LEMMA WriterType ==
  ASSUME TypeOK, NEW w \in Writers, Writer(w)
  PROVE  TypeOK'
<1> USE DEF TypeOK, Goto
<1>0. buffer \in [Slots -> Cell]
  BY DEF Cell
<1> DEFINE Started == /\ nbFronts' \in Chars
                      /\ entry' \in [Writers -> [id : Chars, len : 0 .. MaxLen,
                                                 left : 0 .. MaxLen]]
<1>1. ASSUME StartEntry(w)
      PROVE  Started
  <2>1. nbFronts + 1 \in Chars
    <3>1. nbFronts \in Chars /\ nbFronts < MaxEntries
      BY <1>1 DEF StartEntry
    <3> HIDE DEF TypeOK
    <3> QED  BY <3>1, BoundsAssumption DEF Chars
  <2>2. PICK n \in 1 .. MaxLen :
          entry' = [entry EXCEPT ![w] = [id |-> nbFronts + 1, len |-> n, left |-> n]]
    BY <1>1 DEF StartEntry
  <2>3. nbFronts' = nbFronts + 1
    BY <1>1 DEF StartEntry
  <2> QED  BY <2>1, <2>2, <2>3
<1>2. CountDiscard(w) => nbDiscarded' \in Nat
  <2>1. nbDiscarded \in Nat
    OBVIOUS
  <2> HIDE DEF TypeOK
  <2> QED  BY <2>1 DEF CountDiscard
<1>3. NUL \in Chars
  BY DEF NUL, Chars
<1>4. \A c \in Chars : [buffer EXCEPT ![oss] = Put(@, c)] \in [Slots -> Cell]
  BY <1>0, PutSlotType
<1>5. NoEntry \in [id : Chars, len : 0 .. MaxLen, left : 0 .. MaxLen]
  BY DEF NoEntry, Chars
<1>a. CASE FrontDiscard(w)
  <2>1. StartEntry(w) /\ CountDiscard(w)
    BY <1>a DEF FrontDiscard
  <2>2. Started /\ nbDiscarded' \in Nat
    BY <1>1, <1>2, <2>1
  <2> QED  BY <1>a, <2>2 DEF FrontDiscard, ringVars, readerVars, mainVars
<1>b. CASE FrontAccept(w)
  BY <1>b, <1>1 DEF FrontAccept, ringVars, readerVars, mainVars
<1>c. CASE TryLockFails(w)
  BY <1>c, <1>2 DEF TryLockFails, ringVars, readerVars, mainVars
<1>d. CASE TryLockSucceeds(w)
  BY <1>d DEF TryLockSucceeds, ringVars, readerVars, mainVars
<1>e. CASE OpenEntry(w)
  <2>1. buffer' \in [Slots -> Cell]
    <3>1. buffer' = [buffer EXCEPT ![backIdx].pos = 0] /\ backIdx \in Slots
      BY <1>e DEF OpenEntry
    <3> HIDE DEF TypeOK
    <3> QED  BY <1>0, <3>1 DEF Cell
  <2>2. wpc' = [wpc EXCEPT ![w] = "open"] /\ oss' \in Slots
    BY <1>e DEF OpenEntry
  <2> QED  BY <1>e, <2>1, <2>2 DEF OpenEntry, readerVars, mainVars, Cell
<1>f. CASE WriteChar(w)
  <2>1. entry[w].id \in Chars /\ entry[w].left - 1 \in 0 .. MaxLen
    <3>1. entry[w].id \in Chars /\ entry[w].left \in 0 .. MaxLen
      OBVIOUS
    <3>2. entry[w].left > 0
      BY <1>f DEF WriteChar
    <3> HIDE DEF TypeOK
    <3> QED  BY <3>1, <3>2
  <2>2. buffer' \in [Slots -> Cell]
    <3>1. buffer' = [buffer EXCEPT ![oss] = Put(@, entry[w].id)]
      BY <1>f DEF WriteChar
    <3> QED  BY <1>4, <2>1, <3>1, Zenon
  <2>3. entry' \in [Writers -> [id : Chars, len : 0 .. MaxLen, left : 0 .. MaxLen]]
    <3>1. entry' = [entry EXCEPT ![w].left = entry[w].left - 1]
      BY <1>f DEF WriteChar
    <3>2. entry \in [Writers -> [id : Chars, len : 0 .. MaxLen, left : 0 .. MaxLen]]
      OBVIOUS
    <3> HIDE DEF TypeOK
    <3> QED  BY <2>1, <3>1, <3>2
  <2> QED  BY <1>f, <2>2, <2>3 DEF WriteChar, readerVars, mainVars, Cell
<1>g. CASE Ends(w)
  <2>1. buffer' \in [Slots -> Cell]
    BY <1>g, <1>3, <1>4 DEF Ends
  <2> QED  BY <1>g, <2>1 DEF Ends, readerVars, mainVars, Cell
<1>h. CASE EndsDiscarded(w)
  <2>1. buffer' \in [Slots -> Cell]
    BY <1>h, <1>0, <1>3, <1>4 DEF EndsDiscarded
  <2> QED  BY <1>h, <1>5, <2>1 DEF EndsDiscarded, readerVars, mainVars, Cell
<1>i. CASE FrontReady(w)
  <2>1. [id |-> entry[w].id, len |-> entry[w].len] \in [id : Chars, len : 0 .. MaxLen]
    OBVIOUS
  <2>2. published' \in Seq([id : Chars, len : 0 .. MaxLen])
    BY <1>i, <2>1 DEF FrontReady
  <2> QED  BY <1>i, <2>2, SuccType DEF FrontReady, readerVars, mainVars
<1>j. CASE Unlock(w)
  BY <1>j, <1>5 DEF Unlock, ringVars, readerVars, mainVars
<1> QED
  BY <1>a, <1>b, <1>c, <1>d, <1>e, <1>f, <1>g, <1>h, <1>i, <1>j DEF Writer

\* Type correctness of the steps of the spin thread.
LEMMA ReaderType ==
  ASSUME TypeOK, Reader
  PROVE  TypeOK'
<1> USE DEF TypeOK, writerVars, mainVars
<1>a. CASE SpinLoop \/ SpinEmpty \/ SpinNotEmpty
  BY <1>a DEF SpinLoop, SpinEmpty, SpinNotEmpty, ringVars
<1>b. CASE TakeSlot
  BY <1>b, SuccType DEF TakeSlot
<1>c. CASE CopySlot
  <2>1. CStr(buffer[rslot]) \in Seq(Chars)
    BY <1>c, CStrType DEF CopySlot, Cell
  <2>2. consumed' \in Seq(Seq(Chars)) /\ rstr' \in Seq(Chars)
    BY <1>c, <2>1 DEF CopySlot
  <2> QED  BY <1>c, <2>2 DEF CopySlot, ringVars
<1>d. CASE WriteOutput
  <2>1. ri < Len(outputs) /\ ri \in Nat /\ outputs \in Seq(Streams)
    BY <1>d DEF WriteOutput
  <2>2. outputs[ri + 1] \in Streams /\ ri + 1 \in Nat
    <3> HIDE DEF TypeOK
    <3> QED  BY <2>1
  <2>3. Append(delivered[outputs[ri + 1]], rstr) \in Seq(Seq(Chars))
    BY <2>2
  <2>4. delivered' = [delivered EXCEPT ![outputs[ri + 1]] =
                        Append(delivered[outputs[ri + 1]], rstr)]
    BY <1>d DEF WriteOutput
  <2>5. delivered' \in [Streams -> Seq(Seq(Chars))]
    BY <2>3, <2>4
  <2> QED  BY <1>d, <2>2, <2>5 DEF WriteOutput, ringVars
<1>e. CASE SpinReturn
  BY <1>e, EmptySeq DEF SpinReturn, ringVars
<1> QED  BY <1>a, <1>b, <1>c, <1>d, <1>e DEF Reader

\* Type correctness of the steps of the application.
LEMMA MainType ==
  ASSUME TypeOK, Main
  PROVE  TypeOK'
<1> USE DEF TypeOK, ringVars, writerVars, readerVars
<1>a. CASE \E s \in Streams : AddOutputStream(s)
  <2>1. PICK s \in Streams : AddOutputStream(s)
    BY <1>a
  <2>2. outputs' \in Seq(Streams)
    BY <2>1 DEF AddOutputStream
  <2> QED  BY <2>1, <2>2 DEF AddOutputStream
<1>b. CASE ClearOutputStreams
  BY <1>b, EmptySeq DEF ClearOutputStreams
<1>c. CASE RequestShutdown
  BY <1>c, LenProperties DEF RequestShutdown
<1>d. CASE DeleteInstance
  BY <1>d DEF DeleteInstance
<1> QED  BY <1>a, <1>b, <1>c, <1>d DEF Main
\* Every variable of the logger keeps its type: indices stay in the ring, and
\* oss_ never points outside it.
THEOREM TypeCorrect == Spec => []TypeOK
<1>1. TypeOK /\ [Next]_vars => TypeOK'
  <2> SUFFICES ASSUME TypeOK, [Next]_vars
               PROVE  TypeOK'
    OBVIOUS
  <2>1. CASE UNCHANGED vars
    BY <2>1 DEF TypeOK, vars, ringVars, writerVars, readerVars, mainVars
  <2>2. CASE \E w \in Writers : Writer(w)
    BY <2>2, WriterType
  <2> QED  BY <2>1, <2>2, ReaderType, MainType DEF Next, Terminated
<1> QED  BY <1>1, InitType, PTL DEF Spec

----------------------------------------------------------------------------
(* What the mutex gives, however many threads log at once.                 *)

\* MutexInv is inductive: oss_ and backIdx_ are moved only by the owner of wmutex.
LEMMA MutexStep ==
  ASSUME TypeOK, MutexInv, [Next]_vars
  PROVE  MutexInv'
<1> USE DEF TypeOK, MutexInv, OssOnBackSlot, InFront
<1>1. CASE UNCHANGED vars \/ Reader \/ Main
  <2>1. UNCHANGED <<wpc, wmutex, backIdx, oss>>
    BY <1>1 DEF vars, ringVars, writerVars, Reader, SpinLoop, SpinEmpty,
       SpinNotEmpty, TakeSlot, CopySlot, WriteOutput, SpinReturn, Main,
       AddOutputStream, ClearOutputStreams, RequestShutdown, DeleteInstance
  <2> QED  BY <2>1
<1>2. ASSUME NEW w \in Writers, Writer(w)
      PROVE  MutexInv'
  <2> USE DEF Goto
  <2>a. CASE FrontDiscard(w) \/ FrontAccept(w)
    BY <2>a DEF FrontDiscard, FrontAccept, ringVars
  <2>b. CASE TryLockFails(w)
    BY <2>b DEF TryLockFails, ringVars
  <2>c. CASE TryLockSucceeds(w)
    BY <2>c DEF TryLockSucceeds, ringVars
  <2>d. CASE OpenEntry(w)
    BY <2>d DEF OpenEntry
  <2>e. CASE WriteChar(w)
    BY <2>e DEF WriteChar
  <2>f. CASE Ends(w) \/ EndsDiscarded(w)
    BY <2>f DEF Ends, EndsDiscarded
  <2>g. CASE FrontReady(w)
    BY <2>g DEF FrontReady
  <2>h. CASE Unlock(w)
    BY <2>h DEF Unlock, ringVars
  <2> QED
    BY <1>2, <2>a, <2>b, <2>c, <2>d, <2>e, <2>f, <2>g, <2>h DEF Writer
<1> QED  BY <1>1, <1>2 DEF Next, Terminated

\* MutexInv holds in every reachable state, with any number of writers.
LEMMA MutexAlways == Spec => []MutexInv
<1>1. Init => MutexInv
  BY DEF Init, MutexInv, OssOnBackSlot, InFront
<1> QED  BY <1>1, MutexStep, TypeCorrect, PTL DEF Spec

\* No two writers are between try_lock() and unlock() together.
THEOREM MutualExclusion == Spec => []WriterAlone
<1>1. MutexInv => WriterAlone
  BY DEF MutexInv, WriterAlone
<1> QED  BY <1>1, MutexAlways, PTL

\* An open entry always writes to the slot that frontReady() will publish,
\* whatever the other writers do meanwhile.
THEOREM WritesToBackSlot == Spec => []OssOnBackSlot
<1>1. MutexInv => OssOnBackSlot
  BY DEF MutexInv
<1> QED  BY <1>1, MutexAlways, PTL
----------------------------------------------------------------------------
(* One open entry at a time.                                               *)

\* The distance between two indices of the ring, as size computes it.
Dist(f, b) == IF f <= b THEN b - f ELSE b + N - f

\* What one step of an index does to the distance between the two.
LEMMA DistSteps ==
  ASSUME NEW f \in Slots, NEW b \in Slots
  PROVE  /\ Succ(b) # f => Dist(f, Succ(b)) = Dist(f, b) + 1
         /\ f # b => Dist(Succ(f), b) = Dist(f, b) - 1
         /\ f # b => Succ(b) # Succ(f)
  BY SuccCases DEF Dist, Slots

\* A writer that respects the discipline keeps RingInv: nobody else can use up
\* the room that front() saw.
LEMMA RingWriterStep ==
  ASSUME TypeOK, RingInv, OneWriterAtATime, NEW w \in Writers, Writer(w), MutexInv'
  PROVE  RingInv'
<1> USE DEF RingInv, RingHoldsUnread, Taken, Goto
<1>0. \A v \in Writers : v # w /\ wpc[w] # "idle" => wpc[v] = "idle"
  OBVIOUS
<1>1. wpc \in [Writers -> {"idle", "null", "tryLock", "locked", "open",
                          "ended", "ready"}]
  BY DEF TypeOK
<1>a. CASE FrontDiscard(w)
  BY <1>a, <1>1 DEF FrontDiscard, StartEntry, ringVars, readerVars, full, empty, size
<1>b. CASE FrontAccept(w)
  BY <1>b, <1>1 DEF FrontAccept, StartEntry, ringVars, readerVars, full, empty, size
<1>c. CASE TryLockFails(w) \/ TryLockSucceeds(w) \/ Unlock(w)
  BY <1>c, <1>0, <1>1
     DEF TryLockFails, TryLockSucceeds, Unlock, ringVars, readerVars, full, empty, size
<1>d. CASE OpenEntry(w) \/ WriteChar(w) \/ Ends(w) \/ EndsDiscarded(w)
  BY <1>d, <1>0, <1>1
     DEF OpenEntry, WriteChar, Ends, EndsDiscarded, readerVars, full, empty, size
<1>e. CASE FrontReady(w)
  <2>1. ~full /\ frontIdx \in Slots /\ backIdx \in Slots
    BY <1>e DEF FrontReady, TypeOK
  <2>2. size' = size + 1 /\ ~empty'
    <3>1. Dist(frontIdx, Succ(backIdx)) = Dist(frontIdx, backIdx) + 1
      BY <2>1, DistSteps DEF full
    <3> QED  BY <1>e, <2>1, <3>1 DEF FrontReady, size, empty, full, Dist
  <2>3. Len(published') = Len(published) + 1
    BY <1>e, LenProperties DEF FrontReady, TypeOK
  <2>4. RingHoldsUnread'
    <3>1. Taken' = Taken /\ Taken \in Nat /\ Len(published) \in Nat
      BY <1>e, LenProperties DEF FrontReady, readerVars, TypeOK
    <3> HIDE DEF Taken
    <3> QED  BY <2>2, <2>3, <3>1 
  <2>5. \A v, u \in Writers : wpc'[v] # "idle" /\ wpc'[u] # "idle" => v = u
    BY <1>e, <1>0, <1>1 DEF FrontReady
  <2>6. \A v \in Writers : wpc'[v] \notin {"tryLock", "locked", "open", "ended"}
    BY <1>e, <1>0, <1>1 DEF FrontReady
  <2> QED  BY <1>e, <2>2, <2>4, <2>5, <2>6 DEF FrontReady, readerVars
<1> QED  BY <1>a, <1>b, <1>c, <1>d, <1>e DEF Writer

\* The spin thread keeps RingInv: it only makes room.
LEMMA RingReaderStep ==
  ASSUME TypeOK, RingInv, Reader, MutexInv'
  PROVE  RingInv'
<1> USE DEF RingInv, RingHoldsUnread, Taken, writerVars
<1>a. CASE SpinLoop \/ SpinEmpty \/ SpinNotEmpty \/ WriteOutput \/ SpinReturn
  BY <1>a DEF SpinLoop, SpinEmpty, SpinNotEmpty, WriteOutput, SpinReturn,
     ringVars, full, empty, size
<1>b. CASE TakeSlot
  <2>1. frontIdx # backIdx /\ frontIdx \in Slots /\ backIdx \in Slots
    BY <1>b DEF TakeSlot, empty, TypeOK
  <2>2. size' = size - 1 /\ ~full'
    <3>1. Dist(Succ(frontIdx), backIdx) = Dist(frontIdx, backIdx) - 1
      BY <2>1, DistSteps
    <3>2. Succ(backIdx) # Succ(frontIdx)
      BY <2>1, DistSteps
    <3> QED  BY <1>b, <3>1, <3>2 DEF TakeSlot, size, full, Dist
  <2>3. RingHoldsUnread'
    <3>1. Taken' = Taken + 1 /\ Taken \in Nat
      BY <1>b, LenProperties DEF TakeSlot, TypeOK
    <3>2. Len(published') = Len(published) /\ Len(published) \in Nat
      BY <1>b, LenProperties DEF TakeSlot, TypeOK
    <3> HIDE DEF Taken
    <3> QED  BY <2>2, <3>1, <3>2
  <2> QED  BY <1>b, <2>2, <2>3 DEF TakeSlot
<1>c. CASE CopySlot
  <2>1. Len(consumed') = Len(consumed) + 1
    BY <1>c, LenProperties DEF CopySlot, TypeOK
  <2>2. RingHoldsUnread'
    BY <1>c, <2>1, LenProperties DEF CopySlot, ringVars, TypeOK, size
  <2> QED  BY <1>c, <2>2 DEF CopySlot, ringVars, full, empty
<1> QED  BY <1>a, <1>b, <1>c DEF Reader

\* RingInv holds in every reachable state of a logger with one open entry at a
\* time.
LEMMA RingAlways == OneWriterAtATime => (Spec => []RingInv)
<1> SUFFICES ASSUME OneWriterAtATime PROVE Spec => []RingInv
  OBVIOUS
<1>1. Init => RingInv
  <2>1. ASSUME Init PROVE RingHoldsUnread
    BY <2>1, EmptySeq DEF Init, RingHoldsUnread, Taken, size
  <2> QED  BY <2>1 DEF Init, RingInv, MutexInv, OssOnBackSlot, InFront
<1>2. TypeOK /\ RingInv /\ [Next]_vars => RingInv'
  <2> SUFFICES ASSUME TypeOK, RingInv, [Next]_vars
               PROVE  RingInv'
    OBVIOUS
  <2>0. MutexInv'
    BY MutexStep DEF RingInv
  <2>1. CASE UNCHANGED vars \/ Main
    <3>1. UNCHANGED <<ringVars, writerVars, readerVars>>
      BY <2>1 DEF vars, Main, AddOutputStream, ClearOutputStreams,
         RequestShutdown, DeleteInstance
    <3> QED  BY <2>0, <3>1 DEF RingInv, RingHoldsUnread, Taken, ringVars,
                writerVars, readerVars, full, empty, size
  <2>2. CASE \E w \in Writers : Writer(w)
    BY <2>0, <2>2, RingWriterStep
  <2> QED  BY <2>0, <2>1, <2>2, RingReaderStep DEF Next, Terminated
<1> QED  BY <1>1, <1>2, TypeCorrect, PTL DEF Spec

\* An open entry is never written into the slot the spin thread is copying.
THEOREM SlotsExclusive == OneWriterAtATime => (Spec => []SlotExclusion)
<1> SUFFICES ASSUME OneWriterAtATime PROVE Spec => []SlotExclusion
  OBVIOUS
<1>1. RingInv => SlotExclusion
  BY DEF RingInv, MutexInv, OssOnBackSlot, SlotExclusion, full
<1> QED  BY <1>1, RingAlways, PTL

\* The indices tell how many entries wait: no closed entry is ever lost to a
\* full ring that looks empty.
THEOREM RingExact == OneWriterAtATime => (Spec => []RingHoldsUnread)
<1> SUFFICES ASSUME OneWriterAtATime PROVE Spec => []RingHoldsUnread
  OBVIOUS
<1>1. RingInv => RingHoldsUnread
  BY DEF RingInv
<1> QED  BY <1>1, RingAlways, PTL

----------------------------------------------------------------------------
(* What comes out of the logger.                                           *)

Entry == [id : Chars, len : 0 .. MaxLen]

----------------------------------------------------------------------------
(* A slot as a text.                                                       *)

\* A character goes to the put position, and what is before it stays.
LEMMA PutEffect ==
  ASSUME NEW b \in Cell, NEW c \in Chars, b.pos <= Len(b.chars)
  PROVE  /\ Put(b, c).pos = b.pos + 1
         /\ Put(b, c).pos <= Len(Put(b, c).chars)
         /\ \A i \in 1 .. b.pos : Put(b, c).chars[i] = b.chars[i]
         /\ Put(b, c).chars[b.pos + 1] = c
<1> DEFINE s == b.chars
           n == b.pos
<1>1. s \in Seq(Chars) /\ n \in Nat /\ Len(s) \in Nat
  BY LenProperties DEF Cell
<1>2. /\ Put(b, c).pos = n + 1
      /\ Put(b, c).chars = IF n < Len(s) THEN [s EXCEPT ![n + 1] = c] ELSE Append(s, c)
  BY DEF Put
<1> HIDE DEF s, n
<1>3. CASE n < Len(s)
  <2>1. n + 1 \in 1 .. Len(s) /\ DOMAIN s = 1 .. Len(s)
    BY <1>1, <1>3
  <2>2. [s EXCEPT ![n + 1] = c] \in Seq(Chars) /\ Len([s EXCEPT ![n + 1] = c]) = Len(s)
    BY <1>1, <2>1
  <2> QED
    BY <1>1, <1>2, <2>1, <2>2, <1>3 DEF s, n
<1>4. CASE n = Len(s)
  BY <1>1, <1>2, <1>4 DEF s, n
<1> QED
  BY <1>3, <1>4, <1>1 DEF s, n

\* Writing on behind the terminator leaves the text.
LEMMA SealedPut ==
  ASSUME NEW b \in Cell, NEW c \in Chars, NEW e, e.len \in Nat, Sealed(b, e)
  PROVE  Sealed(Put(b, c), e)
<1>1. b.pos \in Nat /\ e.len + 1 \in 1 .. b.pos /\ b.pos <= Len(b.chars)
  BY DEF Sealed, Begins, Cell
<1>2. \A i \in 1 .. e.len : i \in 1 .. b.pos
  BY <1>1
<1> QED
  BY <1>1, <1>2, PutEffect DEF Sealed, Begins

\* The next character of an open entry.
LEMMA BeginsPut ==
  ASSUME NEW b \in Cell, NEW e, e.id \in Chars, Begins(b, e, b.pos)
  PROVE  Begins(Put(b, e.id), e, b.pos + 1)
<1>1. b.pos \in Nat /\ b.pos <= Len(b.chars)
  BY DEF Begins, Cell
<1>2. \A i \in 1 .. b.pos + 1 : i \in 1 .. b.pos \/ i = b.pos + 1
  BY <1>1
<1> QED
  BY <1>1, <1>2, PutEffect DEF Begins

\* std::ends behind the last one.
LEMMA SealingPut ==
  ASSUME NEW b \in Cell, NEW e, e.id # NUL, Begins(b, e, e.len), b.pos = e.len
  PROVE  Sealed(Put(b, NUL), e)
<1>1. b.pos \in Nat /\ b.pos <= Len(b.chars) /\ NUL \in Chars
  BY DEF Begins, Cell, NUL, Chars
<1> QED
  BY <1>1, PutEffect DEF Begins, Sealed

\* c_str() shows a sealed slot as the entry that was written, whatever a longer
\* one has left behind it.
LEMMA SealedText ==
  ASSUME NEW b \in Cell, NEW e, e.len \in Nat, Sealed(b, e)
  PROVE  CStr(b) = Text(e)
<1> DEFINE s == b.chars
           n == e.len
           nul == {i \in DOMAIN s : s[i] = NUL}
           first == CHOOSE i \in nul : \A j \in nul : i <= j
<1>1. s \in Seq(Chars) /\ DOMAIN s = 1 .. Len(s) /\ Len(s) \in Nat /\ n \in Nat
  BY LenProperties DEF Cell
<1>2. n + 1 \in 1 .. Len(s) /\ s[n + 1] = NUL /\ e.id # NUL
      /\ \A i \in 1 .. n : s[i] = e.id
  BY <1>1 DEF Sealed, Begins, Cell
<1>3. CStr(b) = IF nul = {} THEN s ELSE SubSeq(s, 1, first - 1)
  BY DEF CStr
<1> HIDE DEF s, n
<1>4. n + 1 \in nul /\ \A j \in nul : n + 1 <= j
  BY <1>1, <1>2
<1>5. nul \subseteq Nat
  BY <1>1
<1>6. first = n + 1
  <2> HIDE DEF nul
  <2>1. first \in nul /\ \A j \in nul : first <= j
    BY <1>4
  <2>2. first <= n + 1 /\ n + 1 <= first /\ first \in Nat
    BY <1>4, <1>5, <2>1
  <2> HIDE DEF first
  <2> QED
    BY <1>1, <2>2
<1>7. CStr(b) = SubSeq(s, 1, n)
  <2>1. nul # {} /\ first - 1 = n
    BY <1>1, <1>4, <1>6
  <2> HIDE DEF nul, first
  <2> QED
    BY <1>3, <2>1
<1>8. SubSeq(s, 1, n) = [i \in 1 .. n |-> s[i]]
  BY <1>1
<1>9. Text(e) = [i \in 1 .. n |-> e.id]
  BY DEF Text, n
<1> QED
  BY <1>2, <1>7, <1>8, <1>9

----------------------------------------------------------------------------
(* The ring.                                                               *)

\* The slot i - 1 places behind the front index.
SlotAt(f, i) == (f + i - 1) % N

LEMMA SlotAtCases ==
  ASSUME NEW f \in Slots, NEW i \in 1 .. N
  PROVE  /\ SlotAt(f, i) \in Slots
         /\ SlotAt(f, i) = IF f + i - 1 < N THEN f + i - 1 ELSE f + i - 1 - N
<1>1. f \in Nat /\ N \in Nat \ {0} /\ f + i - 1 \in Nat /\ f + i - 1 < 2 * N
  BY DEF Slots
<1>2. CASE f + i - 1 < N
  BY <1>1, <1>2 DEF SlotAt, Slots
<1>3. CASE ~(f + i - 1 < N)
  BY <1>1, <1>3 DEF SlotAt, Slots
<1> QED
  BY <1>2, <1>3

\* Where the slots that wait are, and where they are after a step of an index.
LEMMA RingSlots ==
  ASSUME NEW f \in Slots, NEW b \in Slots
  PROVE  /\ Dist(f, b) \in 0 .. N - 1
         /\ \A i \in 1 .. Dist(f, b) : SlotAt(f, i) \in Slots /\ SlotAt(f, i) # b
         /\ SlotAt(f, Dist(f, b) + 1) = b
         /\ f # b => \A i \in 1 .. Dist(f, b) - 1 : SlotAt(Succ(f), i) = SlotAt(f, i + 1)
         /\ SlotAt(f, 1) = f
<1>1. f \in Nat /\ b \in Nat /\ N \in Nat \ {0} /\ f < N /\ b < N
  BY DEF Slots
<1>2. Dist(f, b) \in 0 .. N - 1
  BY <1>1 DEF Dist
<1>3. ASSUME NEW i \in 1 .. Dist(f, b) PROVE SlotAt(f, i) \in Slots /\ SlotAt(f, i) # b
  <2>1. i \in 1 .. N
    BY <1>2, <1>1
  <2> QED
    BY <1>1, <2>1, SlotAtCases DEF Dist
<1>4. SlotAt(f, Dist(f, b) + 1) = b
  <2>1. Dist(f, b) + 1 \in 1 .. N
    BY <1>2, <1>1
  <2> QED
    BY <1>1, <2>1, SlotAtCases DEF Dist
<1>5. ASSUME f # b, NEW i \in 1 .. Dist(f, b) - 1
      PROVE  SlotAt(Succ(f), i) = SlotAt(f, i + 1)
  <2>1. i \in 1 .. N /\ i + 1 \in 1 .. N /\ Succ(f) \in Slots
    BY <1>2, <1>1, SuccType
  <2>2. Succ(f) = IF f = N - 1 THEN 0 ELSE f + 1
    BY SuccCases
  <2> QED
    BY <1>1, <2>1, <2>2, SlotAtCases
<1>6. SlotAt(f, 1) = f
  BY <1>1, SlotAtCases
<1> QED
  BY <1>2, <1>3, <1>4, <1>5, <1>6
----------------------------------------------------------------------------
(* What was logged comes out.                                              *)

\* What the other facts say of the variables.
LEMMA RingFacts ==
  ASSUME TypeOK, RingInv
  PROVE  /\ buffer \in [Slots -> Cell] /\ frontIdx \in Slots /\ backIdx \in Slots
         /\ size = Dist(frontIdx, backIdx) /\ size \in 0 .. N - 1
         /\ Taken \in Nat /\ Len(consumed) \in Nat /\ Len(published) = Taken + size
         /\ \A k \in 1 .. Len(published) : published[k] \in Entry
         /\ rpc = "read" => /\ rslot \in Slots /\ Succ(rslot) = frontIdx
                            /\ Taken = Len(consumed) + 1 /\ Taken \in 1 .. Len(published)
         /\ rpc # "read" => Taken = Len(consumed)
<1>1. /\ buffer \in [Slots -> Cell] /\ frontIdx \in Slots /\ backIdx \in Slots
      /\ published \in Seq(Entry) /\ consumed \in Seq(Seq(Chars))
      /\ rpc = "read" => rslot \in Slots
  BY DEF TypeOK, Cell, Entry
<1>2. /\ Len(consumed) \in Nat /\ Len(published) \in Nat
      /\ \A k \in 1 .. Len(published) : published[k] \in Entry
  BY <1>1, LenProperties, ElementOfSeq
<1>3. size = Dist(frontIdx, backIdx) /\ size \in 0 .. N - 1
  BY <1>1, RingSlots DEF size, Dist
<1>4. Taken \in Nat /\ Taken = IF rpc = "read" THEN Len(consumed) + 1 ELSE Len(consumed)
  BY <1>2 DEF Taken
<1>5. Len(published) - Taken = size /\ (rpc = "read" => Succ(rslot) = frontIdx)
  BY DEF RingInv, RingHoldsUnread
<1> HIDE DEF size, Taken
<1>6. Len(published) = Taken + size
  BY <1>2, <1>3, <1>4, <1>5
<1>7. rpc = "read" => Taken \in 1 .. Len(published)
  BY <1>2, <1>3, <1>4, <1>6
<1> QED
  BY <1>1, <1>2, <1>3, <1>4, <1>5, <1>6, <1>7

\* A writer that does not move the indices leaves what waits as it is, as long as
\* it writes to the back slot, or behind terminators.
LEMMA WaitingKept ==
  ASSUME TypeOK, RingInv, WaitingSealed, CopyingSealed, DeliveredIntact,
         UNCHANGED <<frontIdx, backIdx, rpc, rslot, published, consumed>>,
         \E w \in Writers : wpc[w] \in {"tryLock", "locked", "open", "ended"}
           \/ \A e \in Entry : Sealed(buffer[backIdx], e) => Sealed(buffer'[backIdx], e),
         \A k \in Slots, e \in Entry :
           k # backIdx /\ Sealed(buffer[k], e) => Sealed(buffer'[k], e)
  PROVE  WaitingSealed' /\ CopyingSealed' /\ DeliveredIntact'
<1>1. size' = size /\ Taken' = Taken
  BY DEF size, Taken
<1>2. WaitingSealed'
  <2> SUFFICES ASSUME NEW i \in 1 .. size
               PROVE  Sealed(buffer'[SlotAt(frontIdx, i)], published[Taken + i])
    BY <1>1 DEF WaitingSealed, SlotAt
  <2>1. Sealed(buffer[SlotAt(frontIdx, i)], published[Taken + i])
    BY DEF WaitingSealed, SlotAt
  <2>2. SlotAt(frontIdx, i) \in Slots /\ SlotAt(frontIdx, i) # backIdx
    BY RingFacts, RingSlots
  <2>3. published[Taken + i] \in Entry
    <3>1. Taken \in Nat /\ size \in Nat /\ Len(published) = Taken + size
          /\ \A k \in 1 .. Len(published) : published[k] \in Entry
      BY RingFacts
    <3> HIDE DEF size, Taken
    <3>2. Taken + i \in 1 .. Len(published)
      BY <3>1
    <3> QED
      BY <3>1, <3>2
  <2> QED
    BY <2>1, <2>2, <2>3
<1>3. CopyingSealed'
  <2> SUFFICES ASSUME rpc = "read"
               PROVE  Sealed(buffer'[rslot], published[Taken])
    BY <1>1 DEF CopyingSealed
  <2>1. /\ Sealed(buffer[rslot], published[Taken]) /\ rslot \in Slots
        /\ published[Taken] \in Entry /\ Succ(rslot) = frontIdx
    BY RingFacts DEF CopyingSealed
  <2>2. CASE rslot # backIdx
    BY <2>1, <2>2
  <2>3. CASE rslot = backIdx
    <3>1. full
      BY <2>1, <2>3 DEF full
    <3>2. \A w \in Writers : wpc[w] \notin {"tryLock", "locked", "open", "ended"}
      BY <3>1 DEF RingInv
    <3> QED
      BY <2>1, <2>3, <3>2
  <2> QED
    BY <2>2, <2>3
<1> QED
  BY <1>2, <1>3 DEF DeliveredIntact

\* Type of an entry.
LEMMA EntryFacts ==
  ASSUME TypeOK, NEW w \in Writers
  PROVE  /\ entry[w] = [id |-> entry[w].id, len |-> entry[w].len, left |-> entry[w].left]
         /\ entry[w].id \in Chars /\ entry[w].len \in Nat /\ entry[w].left \in Nat
         /\ entry[w].len \in 0 .. MaxLen
         /\ [id |-> entry[w].id, len |-> entry[w].len] \in Entry
BY DEF TypeOK, Entry

\* The steps that do not write to a slot.
LEMMA ContentQuiet ==
  ASSUME TypeOK, RingInv, ContentInv, OneWriterAtATime, NEW w \in Writers,
         \/ FrontDiscard(w) \/ FrontAccept(w)
         \/ TryLockFails(w) \/ TryLockSucceeds(w) \/ Unlock(w)
  PROVE  ContentInv'
<1> USE DEF Goto
<1>1. UNCHANGED <<ringVars, readerVars, published>>
  BY DEF FrontDiscard, FrontAccept, TryLockFails, TryLockSucceeds, Unlock
<1>2. WaitingSealed' /\ CopyingSealed' /\ DeliveredIntact'
  BY <1>1 DEF ContentInv, WaitingSealed, CopyingSealed, DeliveredIntact, ringVars,
              readerVars, size, Taken
<1>3. OpenWritten'
  <2>1. wpc \in [Writers -> {"idle", "null", "tryLock", "locked", "open", "ended", "ready"}]
        /\ entry \in [Writers -> [id : Chars, len : 0 .. MaxLen, left : 0 .. MaxLen]]
    BY DEF TypeOK
  <2>2. /\ wpc'[w] \in {"idle", "null", "tryLock", "locked"}
        /\ \A v \in Writers : v # w => wpc'[v] = wpc[v] /\ entry'[v] = entry[v]
    BY <2>1 DEF FrontDiscard, FrontAccept, StartEntry, TryLockFails, TryLockSucceeds, Unlock
  <2>3. wpc'[w] # "idle" => /\ entry'[w].id # NUL /\ entry'[w].len # 0
                            /\ wpc'[w] \in {"tryLock", "locked"} => entry'[w].left = entry'[w].len
    <3>1. CASE FrontDiscard(w) \/ FrontAccept(w)
      <4>1. PICK n \in 1 .. MaxLen :
              entry' = [entry EXCEPT ![w] = [id |-> nbFronts + 1, len |-> n, left |-> n]]
        BY <3>1 DEF FrontDiscard, FrontAccept, StartEntry
      <4>2. nbFronts \in Nat
        BY DEF TypeOK, Chars
      <4> QED
        BY <2>1, <4>1, <4>2 DEF NUL
    <3>2. CASE TryLockFails(w) \/ TryLockSucceeds(w)
      BY <2>1, <3>2 DEF ContentInv, OpenWritten, TryLockFails, TryLockSucceeds
    <3>3. CASE Unlock(w)
      BY <2>1, <3>3 DEF Unlock
    <3> QED
      BY <3>1, <3>2, <3>3
  <2>4. UNCHANGED <<buffer, backIdx>>
    BY <1>1 DEF ringVars
  <2> QED
    BY <2>2, <2>3, <2>4 DEF ContentInv, OpenWritten
<1> QED
  BY <1>2, <1>3 DEF ContentInv

\* The steps that write to the back slot.
LEMMA ContentWrites ==
  ASSUME TypeOK, RingInv, ContentInv, OneWriterAtATime, NEW w \in Writers,
         OpenEntry(w) \/ WriteChar(w) \/ Ends(w)
  PROVE  ContentInv'
<1> USE DEF Goto
<1>1. /\ UNCHANGED <<frontIdx, backIdx, rpc, rslot, published, consumed>>
      /\ wpc[w] \in {"locked", "open"}
      /\ \A v \in Writers : v # w => wpc[v] = "idle"
  BY DEF OpenEntry, WriteChar, Ends, readerVars, RingInv
<1>2. /\ buffer \in [Slots -> Cell] /\ backIdx \in Slots
      /\ wpc \in [Writers -> {"idle", "null", "tryLock", "locked", "open", "ended", "ready"}]
      /\ entry \in [Writers -> [id : Chars, len : 0 .. MaxLen, left : 0 .. MaxLen]]
  BY DEF TypeOK, Cell
<1>3. wpc[w] = "open" => oss = backIdx
  BY DEF RingInv, MutexInv, OssOnBackSlot
<1>4. \A k \in Slots : k # backIdx => buffer'[k] = buffer[k]
  BY <1>2, <1>3 DEF OpenEntry, WriteChar, Ends
<1>5. WaitingSealed' /\ CopyingSealed' /\ DeliveredIntact'
  BY <1>1, <1>4, WaitingKept DEF ContentInv
<1> DEFINE b == buffer[backIdx]
           e == entry[w]
<1>6. /\ b \in Cell /\ e.id \in Chars /\ e.len \in Nat /\ e.left \in Nat
      /\ e.id # NUL /\ e.len # 0
      /\ wpc[w] = "locked" => e.left = e.len
      /\ wpc[w] = "open" => /\ e.left <= e.len /\ b.pos = e.len - e.left
                            /\ Begins(b, e, e.len - e.left)
  BY <1>1, <1>2, EntryFacts DEF ContentInv, OpenWritten
<1>7. LET e1 == entry'[w] IN
      /\ e1.id # NUL /\ e1.len # 0
      /\ wpc'[w] \in {"open", "ended"}
      /\ wpc'[w] = "open" =>
           /\ e1.left <= e1.len
           /\ buffer'[backIdx].pos = e1.len - e1.left
           /\ Begins(buffer'[backIdx], e1, e1.len - e1.left)
      /\ wpc'[w] = "ended" => Sealed(buffer'[backIdx], e1)
  <2>1. CASE OpenEntry(w)
    <3>1. /\ buffer'[backIdx] = [b EXCEPT !.pos = 0] /\ entry'[w] = e
          /\ wpc'[w] = "open" /\ wpc[w] = "locked"
      BY <1>2, <2>1 DEF OpenEntry
    <3>2. b = [chars |-> b.chars, pos |-> b.pos] /\ Len(b.chars) \in Nat
      BY <1>6, LenProperties DEF Cell
    <3> HIDE DEF b, e
    <3>3. buffer'[backIdx].pos = 0 /\ buffer'[backIdx].chars = b.chars
      BY <3>1, <3>2
    <3>4. e.len - e.left = 0
      BY <1>6, <3>1
    <3> QED
      BY <1>6, <3>1, <3>2, <3>3, <3>4 DEF Begins
  <2>2. CASE WriteChar(w)
    <3>1. /\ buffer'[backIdx] = Put(b, e.id) /\ entry'[w] = [e EXCEPT !.left = e.left - 1]
          /\ wpc'[w] = "open" /\ wpc[w] = "open" /\ e.left > 0
      BY <1>2, <1>3, <2>2 DEF WriteChar
    <3>2. e = [id |-> e.id, len |-> e.len, left |-> e.left]
      BY EntryFacts
    <3> HIDE DEF b, e
    <3>3. LET e1 == entry'[w] IN e1.id = e.id /\ e1.len = e.len /\ e1.left = e.left - 1
      BY <3>1, <3>2
    <3>4. Begins(Put(b, e.id), e, b.pos + 1) /\ Put(b, e.id).pos = b.pos + 1
      BY <1>6, <3>1, BeginsPut DEF Put
    <3>5. e.len - (e.left - 1) = b.pos + 1
      BY <1>6, <3>1
    <3> QED
      BY <1>6, <3>1, <3>3, <3>4, <3>5 DEF Begins
  <2>3. CASE Ends(w)
    <3>1. /\ buffer'[backIdx] = Put(b, NUL) /\ entry'[w] = e
          /\ wpc'[w] = "ended" /\ wpc[w] = "open" /\ e.left = 0
      BY <1>2, <1>3, <2>3 DEF Ends
    <3> HIDE DEF b, e
    <3>2. b.pos = e.len /\ Begins(b, e, e.len)
      BY <1>6, <3>1
    <3> QED
      BY <1>6, <3>1, <3>2, SealingPut
  <2> QED
    BY <2>1, <2>2, <2>3
<1>8. \A v \in Writers : v # w => wpc'[v] = "idle"
  BY <1>1, <1>2 DEF OpenEntry, WriteChar, Ends
<1>9. OpenWritten'
  BY <1>1, <1>7, <1>8 DEF OpenWritten
<1> QED
  BY <1>5, <1>9 DEF ContentInv

\* A discarded entry writes its terminator behind one that is there.
LEMMA ContentDiscards ==
  ASSUME TypeOK, RingInv, ContentInv, OneWriterAtATime, NEW w \in Writers,
         EndsDiscarded(w)
  PROVE  ContentInv'
<1>1. /\ UNCHANGED <<frontIdx, backIdx, rpc, rslot, published, consumed>>
      /\ \A v \in Writers : wpc'[v] = "idle"
  BY DEF EndsDiscarded, Goto, readerVars, RingInv, TypeOK
<1>2. ASSUME NEW k \in Slots, NEW e \in Entry, Sealed(buffer[k], e)
      PROVE  Sealed(buffer'[k], e)
  <2>1. buffer \in [Slots -> Cell] /\ e.len \in Nat /\ NUL \in Chars
    BY DEF TypeOK, Cell, Entry, NUL, Chars
  <2>2. buffer'[k] = buffer[k] \/ buffer'[k] = Put(buffer[k], NUL)
    BY <2>1 DEF EndsDiscarded
  <2> QED
    BY <1>2, <2>1, <2>2, SealedPut
<1>3. WaitingSealed' /\ CopyingSealed' /\ DeliveredIntact'
  <2>1. backIdx \in Slots
    BY DEF TypeOK
  <2> QED
    BY <1>1, <1>2, <2>1, WaitingKept DEF ContentInv
<1>4. OpenWritten'
  BY <1>1 DEF OpenWritten
<1> QED
  BY <1>3, <1>4 DEF ContentInv

\* The entry that is closed is the last that waits.
LEMMA ContentReady ==
  ASSUME TypeOK, RingInv, ContentInv, OneWriterAtATime, NEW w \in Writers,
         FrontReady(w)
  PROVE  ContentInv'
<1> DEFINE e == entry[w]
           p == [id |-> e.id, len |-> e.len]
           n == Len(published)
<1>1. /\ wpc[w] = "ended" /\ backIdx' = Succ(backIdx) /\ published' = Append(published, p)
      /\ UNCHANGED <<buffer, frontIdx, rpc, rslot, consumed>> /\ ~full
  BY DEF FrontReady, Goto, readerVars, RingInv
<1>2. Sealed(buffer[backIdx], p)
  <2>1. Sealed(buffer[backIdx], e)
    BY <1>1 DEF ContentInv, OpenWritten
  <2> QED
    BY <2>1 DEF Sealed, Begins
<1>3. n \in Nat /\ published'[n + 1] = p /\ Len(published') = n + 1
      /\ \A k \in 1 .. n : published'[k] = published[k]
  <2>1. published \in Seq(Entry) /\ p \in Entry
    BY EntryFacts DEF TypeOK, Entry
  <2> HIDE DEF p
  <2> QED
    BY <1>1, <2>1
<1> HIDE DEF p, n
<1>4. Taken' = Taken /\ size' = size + 1 /\ Taken + size = n /\ Taken \in Nat /\ size \in Nat
  <2>1. frontIdx \in Slots /\ backIdx \in Slots /\ Succ(backIdx) # frontIdx
    BY <1>1 DEF TypeOK, full
  <2>2. Dist(frontIdx, Succ(backIdx)) = Dist(frontIdx, backIdx) + 1
    BY <2>1, DistSteps
  <2>3. size' = Dist(frontIdx, Succ(backIdx))
    BY <1>1 DEF size, Dist
  <2> QED
    BY <1>1, <2>2, <2>3, RingFacts DEF Taken, n
<1>5. WaitingSealed'
  <2> SUFFICES ASSUME NEW i \in 1 .. size + 1
               PROVE  Sealed(buffer[SlotAt(frontIdx, i)], published'[Taken + i])
    BY <1>1, <1>4 DEF WaitingSealed, SlotAt
  <2>1. CASE i = size + 1
    <3>1. SlotAt(frontIdx, i) = backIdx
      BY <2>1, RingFacts, RingSlots
    <3>2. Taken + i = n + 1
      BY <1>4, <2>1
    <3> QED
      BY <1>2, <1>3, <3>1, <3>2
  <2>2. CASE i # size + 1
    <3> HIDE DEF size, Taken
    <3>1. i \in 1 .. size /\ Taken + i \in 1 .. n
      BY <1>4, <2>2
    <3> QED
      BY <1>3, <3>1 DEF ContentInv, WaitingSealed, SlotAt
  <2> QED
    BY <2>1, <2>2
<1>6. CopyingSealed'
  <2>1. rpc = "read" => Taken \in 1 .. n
    BY RingFacts DEF n
  <2> QED
    BY <1>1, <1>3, <1>4, <2>1 DEF ContentInv, CopyingSealed
<1>7. OpenWritten'
  <2>1. /\ \A v \in Writers : v # w => wpc'[v] = "idle"
        /\ wpc'[w] = "ready" /\ entry' = entry
    BY DEF FrontReady, Goto, RingInv, TypeOK
  <2>2. e.id # NUL /\ e.len # 0
    BY <1>1 DEF ContentInv, OpenWritten
  <2> QED
    BY <2>1, <2>2 DEF OpenWritten
<1>8. DeliveredIntact'
  <2>1. Len(consumed) \in Nat /\ DOMAIN consumed = 1 .. Len(consumed) /\ Len(consumed) <= n
    BY LenProperties DEF TypeOK, ContentInv, DeliveredIntact, n
  <2>2. \A i \in DOMAIN consumed : i \in 1 .. n
    BY <1>3, <2>1
  <2> QED
    BY <1>1, <1>3, <2>1, <2>2 DEF ContentInv, DeliveredIntact
<1> QED
  BY <1>5, <1>6, <1>7, <1>8 DEF ContentInv

\* A writer keeps the contents.
LEMMA ContentWriter ==
  ASSUME TypeOK, RingInv, ContentInv, OneWriterAtATime, NEW w \in Writers, Writer(w)
  PROVE  ContentInv'
BY ContentQuiet, ContentWrites, ContentDiscards, ContentReady DEF Writer

\* The slot that is given back is the first that waits; the others are one place
\* nearer.
LEMMA ContentTake ==
  ASSUME TypeOK, RingInv, ContentInv, TakeSlot
  PROVE  ContentInv'
<1>1. /\ rpc = "take" /\ rpc' = "read" /\ rslot' = frontIdx /\ frontIdx' = Succ(frontIdx)
      /\ UNCHANGED <<buffer, backIdx, consumed, published, wpc, entry>>
      /\ frontIdx # backIdx
  BY DEF TakeSlot, writerVars, RingInv, empty
<1>2. /\ frontIdx \in Slots /\ backIdx \in Slots /\ size = Dist(frontIdx, backIdx)
      /\ Taken = Len(consumed) /\ Taken \in Nat /\ size \in Nat
  BY <1>1, RingFacts
<1>3. Taken' = Taken + 1 /\ size' = size - 1
  <2>1. Dist(Succ(frontIdx), backIdx) = Dist(frontIdx, backIdx) - 1
    BY <1>1, <1>2, DistSteps
  <2>2. size' = Dist(Succ(frontIdx), backIdx)
    BY <1>1 DEF size, Dist
  <2>3. Taken' = Len(consumed) + 1
    BY <1>1 DEF Taken
  <2> QED
    BY <1>2, <2>1, <2>2, <2>3
<1>4. WaitingSealed'
  <2> SUFFICES ASSUME NEW i \in 1 .. size - 1
               PROVE  Sealed(buffer[SlotAt(Succ(frontIdx), i)], published[Taken + 1 + i])
    BY <1>1, <1>3 DEF WaitingSealed, SlotAt
  <2>1. SlotAt(Succ(frontIdx), i) = SlotAt(frontIdx, i + 1)
    BY <1>1, <1>2, RingSlots
  <2>2. Sealed(buffer[SlotAt(frontIdx, i + 1)], published[Taken + (i + 1)])
    <3> HIDE DEF size, Taken
    <3>1. i + 1 \in 1 .. size
      BY <1>2
    <3> QED
      BY <3>1 DEF ContentInv, WaitingSealed, SlotAt
  <2>3. Taken + (i + 1) = Taken + 1 + i
    <3> HIDE DEF Taken
    <3> QED
      BY <1>2
  <2> QED
    BY <2>1, <2>2, <2>3
<1>5. CopyingSealed'
  <2>1. Sealed(buffer[SlotAt(frontIdx, 1)], published[Taken + 1])
    <3>1. size \in 1 .. N
      BY <1>1, <1>2 DEF Dist, Slots
    <3> HIDE DEF size, Taken
    <3>2. 1 \in 1 .. size
      BY <1>2, <3>1
    <3> QED
      BY <3>2 DEF ContentInv, WaitingSealed, SlotAt
  <2> QED
    BY <1>1, <1>2, <1>3, <2>1, RingSlots DEF CopyingSealed
<1>6. OpenWritten' /\ DeliveredIntact'
  BY <1>1 DEF ContentInv, OpenWritten, DeliveredIntact
<1> QED
  BY <1>4, <1>5, <1>6 DEF ContentInv

\* What is copied out is the entry that was closed in its turn.
LEMMA ContentCopy ==
  ASSUME TypeOK, RingInv, ContentInv, CopySlot
  PROVE  ContentInv'
<1>1. /\ rpc = "read" /\ rpc' = "write"
      /\ consumed' = Append(consumed, CStr(buffer[rslot]))
      /\ UNCHANGED <<buffer, frontIdx, backIdx, published, wpc, entry>>
  BY DEF CopySlot, ringVars, writerVars
<1> DEFINE n == Len(consumed)
<1>2. /\ Taken = n + 1 /\ Taken \in 1 .. Len(published) /\ n \in Nat
      /\ Len(published) \in Nat
  BY <1>1, RingFacts DEF TypeOK
<1>3. /\ Len(consumed') = n + 1 /\ consumed'[n + 1] = CStr(buffer[rslot])
      /\ \A i \in 1 .. n : consumed'[i] = consumed[i]
      /\ DOMAIN consumed = 1 .. n /\ DOMAIN consumed' = 1 .. n + 1
  <2>1. consumed \in Seq(Seq(Chars)) /\ CStr(buffer[rslot]) \in Seq(Chars)
    BY <1>1, RingFacts, CStrType DEF TypeOK
  <2> DEFINE t == CStr(buffer[rslot])
  <2> HIDE DEF t
  <2>2. consumed' = Append(consumed, t) /\ t \in Seq(Chars)
    BY <1>1, <2>1 DEF t
  <2>3. /\ Len(consumed') = n + 1 /\ consumed'[n + 1] = t
        /\ \A i \in 1 .. n : consumed'[i] = consumed[i]
        /\ DOMAIN consumed = 1 .. n /\ DOMAIN consumed' = 1 .. n + 1
    BY <2>1, <2>2
  <2> QED
    BY <2>3 DEF t
<1>4. Taken' = Taken /\ size' = size
  BY <1>1, <1>2, <1>3 DEF Taken, size
<1>5. WaitingSealed' /\ CopyingSealed' /\ OpenWritten'
  BY <1>1, <1>4 DEF ContentInv, WaitingSealed, CopyingSealed, OpenWritten
<1>6. CStr(buffer[rslot]) = Text(published[n + 1])
  <2>1. Sealed(buffer[rslot], published[n + 1])
    BY <1>1, <1>2 DEF ContentInv, CopyingSealed
  <2>2. buffer[rslot] \in Cell /\ published[n + 1] \in Entry
    BY <1>1, <1>2, RingFacts
  <2>3. published[n + 1].len \in Nat
    BY <2>2 DEF Entry
  <2> QED
    BY <2>1, <2>2, <2>3, SealedText
<1> HIDE DEF n
<1>7. DeliveredIntact'
  <2>1. \A i \in 1 .. n + 1 : consumed'[i] = Text(published[i])
    <3>1. \A i \in 1 .. n : consumed[i] = Text(published[i])
      BY <1>3 DEF ContentInv, DeliveredIntact
    <3>2. \A i \in 1 .. n + 1 : i \in 1 .. n \/ i = n + 1
      BY <1>2
    <3> QED
      BY <1>3, <1>6, <3>1, <3>2
  <2>2. Len(consumed') <= Len(published)
    BY <1>2, <1>3
  <2> QED
    BY <1>1, <1>3, <2>1, <2>2 DEF DeliveredIntact
<1> QED
  BY <1>5, <1>7 DEF ContentInv

\* The rest of the spin thread and the application do not touch the ring.
LEMMA ContentElsewhere ==
  ASSUME TypeOK, RingInv, ContentInv,
         \/ SpinLoop \/ SpinEmpty \/ SpinNotEmpty \/ WriteOutput \/ SpinReturn
         \/ Main \/ UNCHANGED vars
  PROVE  ContentInv'
<1>1. /\ UNCHANGED <<ringVars, writerVars, consumed>>
      /\ rpc' = "read" <=> rpc = "read"
      /\ rpc = "read" => rslot' = rslot
  BY DEF SpinLoop, SpinEmpty, SpinNotEmpty, WriteOutput, SpinReturn, Main, AddOutputStream,
         ClearOutputStreams, RequestShutdown, DeleteInstance, vars, readerVars
<1>2. Taken' = Taken /\ size' = size
  BY <1>1 DEF Taken, size, ringVars
<1> QED
  BY <1>1, <1>2 DEF ContentInv, WaitingSealed, CopyingSealed, OpenWritten, DeliveredIntact,
                    ringVars, writerVars

\* ContentInv holds in every reachable state of a logger with one open entry at a
\* time.
LEMMA ContentAlways == OneWriterAtATime => (Spec => []ContentInv)
<1> SUFFICES ASSUME OneWriterAtATime PROVE Spec => []ContentInv
  OBVIOUS
<1>1. Init => ContentInv
  BY EmptySeq DEF Init, ContentInv, WaitingSealed, CopyingSealed, OpenWritten,
                  DeliveredIntact, size
<1>2. TypeOK /\ RingInv /\ ContentInv /\ [Next]_vars => ContentInv'
  <2> SUFFICES ASSUME TypeOK, RingInv, ContentInv, [Next]_vars
               PROVE  ContentInv'
    OBVIOUS
  <2>1. CASE \E w \in Writers : Writer(w)
    BY <2>1, ContentWriter
  <2>2. CASE Reader
    BY <2>2, ContentTake, ContentCopy, ContentElsewhere DEF Reader
  <2>3. CASE Main \/ UNCHANGED vars
    BY <2>3, ContentElsewhere
  <2> QED
    BY <2>1, <2>2, <2>3 DEF Next, Terminated
<1> QED
  BY <1>1, <1>2, TypeCorrect, RingAlways, PTL DEF Spec

\* What the spin thread copies out is what was logged: each closed entry once, in
\* order, whole, though slots are used again, are given back before they are read
\* and get the terminators of discarded entries.
THEOREM Delivers == OneWriterAtATime => (Spec => []DeliveredIntact)
<1> SUFFICES ASSUME OneWriterAtATime PROVE Spec => []DeliveredIntact
  OBVIOUS
<1>1. ContentInv => DeliveredIntact
  BY DEF ContentInv
<1> QED
  BY <1>1, ContentAlways, PTL

----------------------------------------------------------------------------
(* The attached streams, and shutdown: any number of writers.              *)

\* Being given the last text that was copied out keeps the order.
LEMMA OutputWrites ==
  ASSUME TypeOK, OutputInv, WriteOutput
  PROVE  OutputInv'
<1> DEFINE s0 == outputs[ri + 1]
<1>1. /\ rpc = "write" /\ rpc' = rpc /\ rstr' = rstr /\ consumed' = consumed
      /\ delivered' = [delivered EXCEPT ![s0] = Append(delivered[s0], rstr)]
      /\ s0 \in Streams
  <2>1. ri < Len(outputs) /\ ri \in Nat /\ outputs \in Seq(Streams)
    BY DEF WriteOutput, TypeOK
  <2>2. s0 \in Streams
    BY <2>1
  <2> QED
    BY <2>2 DEF WriteOutput
<1> HIDE DEF s0
<1> DEFINE n == Len(consumed)
<1>2. /\ n \in Nat \ {0} /\ DOMAIN consumed = 1 .. n /\ rstr = consumed[n]
      /\ rstr \in Seq(Chars)
      /\ delivered \in [Streams -> Seq(Seq(Chars))]
  <2>1. consumed \in Seq(Seq(Chars)) /\ consumed # <<>>
    BY <1>1 DEF TypeOK, OutputInv
  <2> QED
    BY <1>1, <2>1, EmptySeq, LenProperties DEF TypeOK, OutputInv
<1> HIDE DEF n
<1>3. ASSUME NEW s \in Streams
      PROVE  \E at \in [DOMAIN delivered'[s] -> 1 .. n] :
               \A i \in DOMAIN delivered'[s] :
                 /\ delivered'[s][i] = consumed[at[i]]
                 /\ i > 1 => at[i - 1] <= at[i]
  <2> DEFINE d == delivered[s]
             m == Len(d)
  <2>1. PICK at \in [DOMAIN d -> 1 .. n] :
               \A i \in DOMAIN d : /\ d[i] = consumed[at[i]]
                                   /\ i > 1 => at[i - 1] <= at[i]
    BY <1>2 DEF OutputInv
  <2>2. d \in Seq(Seq(Chars)) /\ m \in Nat /\ DOMAIN d = 1 .. m
    BY <1>2, LenProperties
  <2>3. CASE s # s0
    <3>1. delivered'[s] = d
      BY <1>1, <1>2, <2>3
    <3> QED
      BY <2>1, <3>1
  <2>4. CASE s = s0
    <3>1. delivered'[s] = Append(d, rstr)
      BY <1>1, <1>2, <2>4
    <3> DEFINE e == delivered'[s]
               to == [i \in 1 .. m + 1 |-> IF i = m + 1 THEN n ELSE at[i]]
    <3> HIDE DEF d, m, e
    <3>2. /\ DOMAIN e = 1 .. m + 1 /\ e[m + 1] = rstr
          /\ \A i \in 1 .. m : e[i] = d[i]
      BY <1>2, <2>2, <3>1 DEF m, e
    <3>3. to \in [1 .. m + 1 -> 1 .. n]
      BY <1>2, <2>1, <2>2
    <3>4. ASSUME NEW i \in 1 .. m + 1
          PROVE  e[i] = consumed[to[i]] /\ (i > 1 => to[i - 1] <= to[i])
      <4>1. CASE i = m + 1
        <5>1. e[i] = consumed[to[i]] /\ to[i] = n
          BY <1>2, <3>2, <4>1
        <5>2. i > 1 => to[i - 1] \in 1 .. n
          BY <2>2, <3>3, <4>1
        <5> QED
          BY <1>2, <5>1, <5>2
      <4>2. CASE i \in 1 .. m
        <5>1. i # m + 1 /\ to[i] = at[i] /\ e[i] = consumed[at[i]]
          BY <2>1, <2>2, <3>2, <4>2
        <5>2. i > 1 => to[i - 1] = at[i - 1]
          BY <2>2, <4>2
        <5>3. i > 1 => at[i - 1] <= at[i]
          BY <2>1, <2>2, <4>2
        <5> QED
          BY <5>1, <5>2, <5>3
      <4> QED
        BY <2>2, <4>1, <4>2
    <3> HIDE DEF to
    <3> QED
      BY <3>2, <3>3, <3>4 DEF e
  <2> QED
    BY <2>3, <2>4
<1>4. rpc' = "write" => consumed' # <<>> /\ rstr' = consumed'[Len(consumed')]
  BY <1>1 DEF OutputInv
<1>5. DOMAIN consumed' = 1 .. n
  BY <1>1, <1>2
<1>6. \A s \in Streams :
        \E at \in [DOMAIN delivered'[s] -> DOMAIN consumed'] :
          \A i \in DOMAIN delivered'[s] :
            /\ delivered'[s][i] = consumed'[at[i]]
            /\ i > 1 => at[i - 1] <= at[i]
  <2> SUFFICES ASSUME NEW s \in Streams
               PROVE  \E at \in [DOMAIN delivered'[s] -> 1 .. n] :
                        \A i \in DOMAIN delivered'[s] :
                          /\ delivered'[s][i] = consumed[at[i]]
                          /\ i > 1 => at[i - 1] <= at[i]
    BY <1>1, <1>5
  <2> QED
    BY <1>3
<1> QED
  BY <1>4, <1>6 DEF OutputInv

\* The text that is copied out is then the last one.
LEMMA OutputCopies ==
  ASSUME TypeOK, OutputInv, CopySlot
  PROVE  OutputInv'
<1> DEFINE n == Len(consumed)
           t == CStr(buffer[rslot])
<1>1. rstr' = t /\ consumed' = Append(consumed, t) /\ delivered' = delivered /\ t \in Seq(Chars)
  BY CStrType DEF CopySlot, TypeOK, Cell
<1> HIDE DEF t
<1>2. consumed \in Seq(Seq(Chars))
  BY DEF TypeOK
<1>3. /\ n \in Nat /\ DOMAIN consumed = 1 .. n /\ DOMAIN consumed' = 1 .. n + 1
      /\ consumed'[n + 1] = t /\ Len(consumed') = n + 1 /\ consumed' # <<>>
      /\ \A i \in 1 .. n : consumed'[i] = consumed[i]
  BY <1>1, <1>2
<1> HIDE DEF n
<1>4. ASSUME NEW s \in Streams
      PROVE  \E at \in [DOMAIN delivered[s] -> 1 .. n + 1] :
               \A i \in DOMAIN delivered[s] :
                 /\ delivered[s][i] = consumed'[at[i]]
                 /\ i > 1 => at[i - 1] <= at[i]
  <2>1. PICK at \in [DOMAIN delivered[s] -> 1 .. n] :
               \A i \in DOMAIN delivered[s] : /\ delivered[s][i] = consumed[at[i]]
                                              /\ i > 1 => at[i - 1] <= at[i]
    BY <1>3 DEF OutputInv
  <2>2. at \in [DOMAIN delivered[s] -> 1 .. n + 1]
    BY <1>3
  <2> QED
    BY <1>3, <2>1, <2>2
<1> QED
  BY <1>1, <1>3, <1>4 DEF OutputInv

LEMMA OutputAlways == Spec => []OutputInv
<1>1. Init => OutputInv
  <2> SUFFICES ASSUME Init, NEW s \in Streams
               PROVE  \E at \in [DOMAIN delivered[s] -> DOMAIN consumed] :
                        \A i \in DOMAIN delivered[s] :
                          /\ delivered[s][i] = consumed[at[i]]
                          /\ i > 1 => at[i - 1] <= at[i]
    BY DEF Init, OutputInv
  <2>1. delivered[s] = <<>> /\ DOMAIN delivered[s] = {}
    BY DEF Init
  <2>2. [i \in {} |-> 0] \in [{} -> DOMAIN consumed]
    OBVIOUS
  <2> QED
    BY <2>1, <2>2
<1>2. TypeOK /\ OutputInv /\ [Next]_vars => OutputInv'
  <2> SUFFICES ASSUME TypeOK, OutputInv, [Next]_vars
               PROVE  OutputInv'
    OBVIOUS
  <2>1. CASE \/ \E w \in Writers : Writer(w)
             \/ SpinLoop \/ SpinEmpty \/ SpinNotEmpty \/ TakeSlot \/ SpinReturn
             \/ Main \/ UNCHANGED vars
    <3>1. /\ UNCHANGED <<consumed, delivered>>
          /\ rpc' = "write" => rpc = "write" /\ rstr' = rstr
      BY <2>1 DEF Writer, FrontDiscard, FrontAccept, TryLockFails, TryLockSucceeds, OpenEntry,
             WriteChar, Ends, EndsDiscarded, FrontReady, Unlock,
             SpinLoop, SpinEmpty, SpinNotEmpty, TakeSlot, SpinReturn, Main,
             AddOutputStream, ClearOutputStreams, RequestShutdown, DeleteInstance,
             vars, readerVars
    <3> QED
      BY <3>1 DEF OutputInv
  <2> QED
    BY <2>1, OutputWrites, OutputCopies DEF Next, Reader, Terminated
<1> QED
  BY <1>1, <1>2, TypeCorrect, PTL DEF Spec

\* Every stream, whenever it was attached, is given whole entries in the order in
\* which they were closed.
THEOREM StreamsOrdered == OneWriterAtATime => (Spec => []StreamsInOrder)
<1> SUFFICES ASSUME OneWriterAtATime PROVE Spec => []StreamsInOrder
  OBVIOUS
<1>1. TypeOK /\ OutputInv /\ DeliveredIntact => StreamsInOrder
  <2> SUFFICES ASSUME TypeOK, OutputInv, DeliveredIntact, NEW s \in Streams
               PROVE  \E at \in [DOMAIN delivered[s] -> DOMAIN published] :
                        \A i \in DOMAIN delivered[s] :
                          /\ delivered[s][i] = Text(published[at[i]])
                          /\ i > 1 => at[i - 1] <= at[i]
    BY DEF StreamsInOrder
  <2>1. PICK at \in [DOMAIN delivered[s] -> DOMAIN consumed] :
               \A i \in DOMAIN delivered[s] : /\ delivered[s][i] = consumed[at[i]]
                                              /\ i > 1 => at[i - 1] <= at[i]
    BY DEF OutputInv
  <2>2. DOMAIN consumed \subseteq DOMAIN published
    <3>1. /\ Len(consumed) \in Nat /\ Len(published) \in Nat
          /\ DOMAIN consumed = 1 .. Len(consumed) /\ DOMAIN published = 1 .. Len(published)
      BY LenProperties DEF TypeOK
    <3> QED
      BY <3>1 DEF DeliveredIntact
  <2>3. at \in [DOMAIN delivered[s] -> DOMAIN published]
    BY <2>2
  <2> QED
    BY <2>1, <2>3 DEF DeliveredIntact
<1> QED
  BY <1>1, TypeCorrect, OutputAlways, Delivers, PTL

\* destroy() deletes the logger only when all that was closed before the request
\* has been taken and written.
THEOREM DrainsOnShutdown == OneWriterAtATime => (Spec => []ShutdownDrains)
<1> SUFFICES ASSUME OneWriterAtATime PROVE Spec => []ShutdownDrains
  OBVIOUS
<1>1. Init => ShutdownInv
  BY DEF Init, ShutdownInv
<1>2. TypeOK /\ RingInv /\ ShutdownInv /\ [Next]_vars => ShutdownInv'
  <2> SUFFICES ASSUME TypeOK, RingInv, ShutdownInv, [Next]_vars
               PROVE  ShutdownInv'
    OBVIOUS
  <2>1. Len(published) \in Nat /\ Len(consumed) \in Nat /\ owed \in Nat
    BY LenProperties DEF TypeOK
  <2>2. ASSUME NEW w \in Writers, Writer(w)
        PROVE  ShutdownInv'
    <3>1. UNCHANGED <<dpc, rpc, owed, consumed>>
      BY <2>2 DEF Writer, FrontDiscard, FrontAccept, TryLockFails, TryLockSucceeds, OpenEntry,
         WriteChar, Ends, EndsDiscarded, FrontReady, Unlock, mainVars, readerVars
    <3>2. Len(published') >= Len(published) /\ Len(published') \in Nat
      <4>1. published' = published \/ \E p : published' = Append(published, p)
        BY <2>2 DEF Writer, FrontDiscard, FrontAccept, TryLockFails, TryLockSucceeds, OpenEntry,
           WriteChar, Ends, EndsDiscarded, FrontReady, Unlock
      <4>2. \A p : Len(Append(published, p)) = Len(published) + 1
        BY DEF TypeOK
      <4> QED
        BY <2>1, <4>1, <4>2
    <3> QED
      BY <2>1, <3>1, <3>2 DEF ShutdownInv
  <2>3. CASE SpinLoop
    <3>1. UNCHANGED <<dpc, owed, consumed, published>> /\ rpc = "loop"
          /\ rpc' = IF dpc = "running" \/ ~empty THEN "poll" ELSE "done"
      BY <2>3 DEF SpinLoop, writerVars, mainVars
    <3>2. empty => Len(published) = Len(consumed)
      <4>1. empty => size = 0
        BY DEF empty, size, TypeOK, Slots
      <4>2. Len(published) = Taken + size /\ Taken = Len(consumed)
        BY <3>1, RingFacts
      <4> QED
        BY <2>1, <4>1, <4>2
    <3> QED
      BY <2>1, <3>1, <3>2 DEF ShutdownInv
  <2>4. CASE SpinEmpty \/ SpinNotEmpty \/ TakeSlot \/ CopySlot \/ WriteOutput \/ SpinReturn
    <3>1. UNCHANGED <<dpc, owed, published>> /\ rpc # "done" /\ rpc' # "done"
      BY <2>4 DEF SpinEmpty, SpinNotEmpty, TakeSlot, CopySlot, WriteOutput, SpinReturn,
         writerVars, mainVars
    <3> QED
      BY <3>1 DEF ShutdownInv
  <2>5. CASE Main \/ UNCHANGED vars
    BY <2>1, <2>5 DEF Main, AddOutputStream, ClearOutputStreams, RequestShutdown,
       DeleteInstance, ShutdownInv, vars, mainVars, readerVars, writerVars
  <2> QED
    BY <2>2, <2>3, <2>4, <2>5 DEF Next, Reader, Terminated
<1>3. ShutdownInv => ShutdownDrains
  BY DEF ShutdownInv, ShutdownDrains
<1> QED
  BY <1>1, <1>2, <1>3, TypeCorrect, RingAlways, PTL DEF Spec

----------------------------------------------------------------------------
(* The ring as a queue.                                                    *)

\* The texts of n entries of p behind the first a.
Run(p, a, n) == [i \in 1 .. n |-> Text(p[a + i])]

LEMMA TextType == \A e \in Entry : Text(e) \in Seq(Chars)
<1> SUFFICES ASSUME NEW e \in Entry PROVE Text(e) \in Seq(Chars)
  OBVIOUS
<1>1. e.len \in Nat /\ e.id \in Chars
  BY DEF Entry
<1> DEFINE n == e.len
<1> HIDE DEF n
<1> QED
  BY <1>1 DEF Text, n

LEMMA RunType ==
  ASSUME NEW p, NEW a \in Nat, NEW n \in Nat, \A i \in 1 .. n : p[a + i] \in Entry
  PROVE  /\ Run(p, a, n) \in Seq(Seq(Chars)) /\ Len(Run(p, a, n)) = n
         /\ \A i \in 1 .. n : Run(p, a, n)[i] = Text(p[a + i])
<1>1. \A i \in 1 .. n : Text(p[a + i]) \in Seq(Chars)
  BY TextType
<1>2. Run(p, a, n) = [i \in 1 .. n |-> Text(p[a + i])]
  BY DEF Run
<1> QED
  BY <1>1, <1>2

\* One entry more at the end, ...
LEMMA RunGrows ==
  ASSUME NEW p, NEW a \in Nat, NEW n \in Nat, \A i \in 1 .. n + 1 : p[a + i] \in Entry
  PROVE  Run(p, a, n + 1) = Append(Run(p, a, n), Text(p[a + n + 1]))
<1> DEFINE s == Run(p, a, n)
           t == Run(p, a, n + 1)
           x == Text(p[a + n + 1])
<1>1. /\ s \in Seq(Seq(Chars)) /\ Len(s) = n
      /\ \A i \in 1 .. n : s[i] = Text(p[a + i])
  <2>1. \A i \in 1 .. n : p[a + i] \in Entry
    OBVIOUS
  <2> QED
    BY <2>1, RunType
<1>2. /\ t \in Seq(Seq(Chars)) /\ Len(t) = n + 1
      /\ \A i \in 1 .. n + 1 : t[i] = Text(p[a + i])
  <2>1. n + 1 \in Nat
    OBVIOUS
  <2> QED
    BY <2>1, RunType
<1>3. x \in Seq(Chars) /\ a + (n + 1) = a + n + 1
  <2>1. n + 1 \in 1 .. n + 1 /\ a + (n + 1) = a + n + 1
    OBVIOUS
  <2>2. p[a + n + 1] \in Entry
    BY <2>1
  <2> QED
    BY <2>1, <2>2, TextType
<1> HIDE DEF s, t
<1>4. t[n + 1] = x /\ \A i \in 1 .. n : t[i] = s[i]
  BY <1>1, <1>2, <1>3
<1> HIDE DEF x
<1>5. /\ Append(s, x) \in Seq(Seq(Chars)) /\ Len(Append(s, x)) = n + 1
      /\ \A i \in 1 .. n + 1 : Append(s, x)[i] = IF i = n + 1 THEN x ELSE s[i]
  BY <1>1, <1>3
<1>6. \A i \in 1 .. Len(t) : t[i] = Append(s, x)[i]
  BY <1>2, <1>4, <1>5
<1>7. t = Append(s, x)
  BY <1>2, <1>5, <1>6, SeqEqual
<1> QED
  BY <1>7 DEF s, t, x

\* ... or one less at the front.
LEMMA RunShrinks ==
  ASSUME NEW p, NEW a \in Nat, NEW n \in Nat \ {0}, \A i \in 1 .. n : p[a + i] \in Entry
  PROVE  /\ Run(p, a, n) # <<>>
         /\ Head(Run(p, a, n)) = Text(p[a + 1])
         /\ Tail(Run(p, a, n)) = Run(p, a + 1, n - 1)
<1> DEFINE s == Run(p, a, n)
           t == Run(p, a + 1, n - 1)
<1>1. /\ s \in Seq(Seq(Chars)) /\ Len(s) = n
      /\ \A i \in 1 .. n : s[i] = Text(p[a + i])
  BY RunType
<1>2. /\ t \in Seq(Seq(Chars)) /\ Len(t) = n - 1
      /\ \A i \in 1 .. n - 1 : t[i] = Text(p[a + 1 + i])
  <2>1. \A i \in 1 .. n - 1 : p[a + 1 + i] \in Entry
    <3> SUFFICES ASSUME NEW i \in 1 .. n - 1 PROVE p[a + 1 + i] \in Entry
      OBVIOUS
    <3>1. i + 1 \in 1 .. n /\ a + (i + 1) = a + 1 + i
      OBVIOUS
    <3> QED
      BY <3>1
  <2>2. a + 1 \in Nat /\ n - 1 \in Nat
    OBVIOUS
  <2> QED
    BY <2>1, <2>2, RunType
<1> HIDE DEF s, t
<1>3. s # <<>>
  BY <1>1, EmptySeq
<1>4. /\ Head(s) = s[1] /\ Tail(s) \in Seq(Seq(Chars)) /\ Len(Tail(s)) = n - 1
      /\ \A i \in 1 .. n - 1 : Tail(s)[i] = s[i + 1]
  BY <1>1, <1>3, HeadTailProperties
<1>5. \A i \in 1 .. Len(t) : Tail(s)[i] = t[i]
  <2> SUFFICES ASSUME NEW i \in 1 .. n - 1 PROVE s[i + 1] = t[i]
    BY <1>2, <1>4
  <2>1. i + 1 \in 1 .. n /\ a + (i + 1) = a + 1 + i
    OBVIOUS
  <2> QED
    BY <1>1, <1>2, <2>1
<1>6. Tail(s) = t
  BY <1>2, <1>4, <1>5, SeqEqual
<1>7. Head(s) = Text(p[a + 1])
  BY <1>1, <1>4
<1> QED
  BY <1>3, <1>6, <1>7 DEF s, t

\* The queue of the refinement, read off the slots, holds the closed entries that
\* were not taken; what was handed over are the others.
LEMMA QueueState ==
  TypeOK /\ RingInv /\ ContentInv =>
    Waiting = Run(published, Taken, size) /\ Handled = Run(published, 0, Taken)
<1> SUFFICES ASSUME TypeOK, RingInv, ContentInv
             PROVE  Waiting = Run(published, Taken, size) /\ Handled = Run(published, 0, Taken)
  OBVIOUS
<1> DEFINE p == published
           a == Taken
           n == size
<1>1. /\ buffer \in [Slots -> Cell] /\ frontIdx \in Slots /\ backIdx \in Slots
      /\ n = Dist(frontIdx, backIdx) /\ n \in Nat
      /\ a \in Nat /\ Len(consumed) \in Nat /\ Len(p) = a + n
      /\ \A k \in 1 .. Len(p) : p[k] \in Entry
      /\ rpc = "read" => rslot \in Slots /\ a = Len(consumed) + 1 /\ a \in 1 .. Len(p)
      /\ rpc # "read" => a = Len(consumed)
  BY RingFacts
<1>2. \A i \in 1 .. n : Sealed(buffer[SlotAt(frontIdx, i)], p[a + i])
  BY DEF ContentInv, WaitingSealed, SlotAt
<1>3. Waiting = [i \in 1 .. n |-> CStr(buffer[SlotAt(frontIdx, i)])]
  BY DEF Waiting, SlotAt
<1>4. \A i \in 1 .. n : SlotAt(frontIdx, i) \in Slots
  BY <1>1, RingSlots
<1>5. rpc = "read" => Sealed(buffer[rslot], p[a])
  BY DEF ContentInv, CopyingSealed
<1>6. /\ consumed \in Seq(Seq(Chars))
      /\ \A i \in 1 .. Len(consumed) : consumed[i] = Text(p[i])
  <2>1. consumed \in Seq(Seq(Chars)) /\ DOMAIN consumed = 1 .. Len(consumed)
    BY LenProperties DEF TypeOK
  <2> QED
    BY <2>1 DEF ContentInv, DeliveredIntact
<1> HIDE DEF p, a, n
<1>7. Waiting = Run(p, a, n)
  <2> SUFFICES ASSUME NEW i \in 1 .. n
               PROVE  CStr(buffer[SlotAt(frontIdx, i)]) = Text(p[a + i])
    BY <1>3 DEF Run
  <2>1. a + i \in 1 .. Len(p)
    BY <1>1
  <2>2. p[a + i] \in Entry /\ p[a + i].len \in Nat
    BY <1>1, <2>1 DEF Entry
  <2>3. buffer[SlotAt(frontIdx, i)] \in Cell
    BY <1>1, <1>4
  <2> QED
    BY <1>2, <2>2, <2>3, SealedText
<1>8. \A i \in 1 .. a : p[0 + i] \in Entry
  BY <1>1
<1>9. consumed = Run(p, 0, Len(consumed))
  <2> DEFINE c == Len(consumed)
  <2>1. c \in Nat /\ 0 \in Nat /\ \A i \in 1 .. c : p[0 + i] \in Entry
    BY <1>1
  <2> HIDE DEF c
  <2>2. /\ Run(p, 0, c) \in Seq(Seq(Chars)) /\ Len(Run(p, 0, c)) = c
        /\ \A i \in 1 .. c : Run(p, 0, c)[i] = Text(p[0 + i])
    BY <2>1, RunType
  <2>3. c = Len(consumed)
    BY DEF c
  <2>4. \A i \in 1 .. Len(consumed) : consumed[i] = Run(p, 0, c)[i]
    BY <1>6, <2>1, <2>2, <2>3
  <2>5. consumed = Run(p, 0, c)
    BY <1>6, <2>2, <2>3, <2>4, SeqEqual
  <2> QED
    BY <2>3, <2>5
<1>10. Handled = Run(p, 0, a)
  <2>1. CASE rpc # "read"
    BY <1>1, <1>9, <2>1 DEF Handled
  <2>2. CASE rpc = "read"
    <3>1. p[a] \in Entry /\ p[a].len \in Nat /\ buffer[rslot] \in Cell
      BY <1>1, <2>2 DEF Entry
    <3>2. CStr(buffer[rslot]) = Text(p[a])
      BY <1>5, <2>2, <3>1, SealedText
    <3>3. Handled = Append(Run(p, 0, Len(consumed)), Text(p[a]))
      BY <1>9, <2>2, <3>2 DEF Handled
    <3> DEFINE c == Len(consumed)
    <3>4. c \in Nat /\ a = c + 1 /\ 0 + c + 1 = a
      BY <1>1, <2>2
    <3> HIDE DEF c
    <3>5. Run(p, 0, c + 1) = Append(Run(p, 0, c), Text(p[0 + c + 1]))
      BY <1>8, <3>4, RunGrows
    <3> QED
      BY <3>3, <3>4, <3>5 DEF c
  <2> QED
    BY <2>1, <2>2
<1> QED
  BY <1>7, <1>10 DEF p, a, n

\* The state of the queue moves with what was closed and what was taken only.
LEMMA QueueMoves ==
  /\ OneWriterAtATime
  /\ TypeOK /\ RingInv /\ ContentInv
  /\ TypeOK' /\ RingInv' /\ ContentInv'
  => /\ Waiting = Run(published, Taken, size)
     /\ Handled = Run(published, 0, Taken)
     /\ Waiting' = Run(published', Taken', size')
     /\ Handled' = Run(published', 0, Taken')
     /\ Taken \in Nat /\ Taken' \in Nat /\ size \in 0 .. N - 1 /\ size' \in 0 .. N - 1
     /\ Len(published) = Taken + size /\ Len(published') = Taken' + size'
     /\ published \in Seq(Entry) /\ published' \in Seq(Entry)
     /\ \A k \in 1 .. Len(published) : published[k] \in Entry
     /\ \A k \in 1 .. Len(published') : published'[k] \in Entry
<1>1. (TypeOK /\ RingInv /\ ContentInv) =>
        /\ Waiting = Run(published, Taken, size) /\ Handled = Run(published, 0, Taken)
        /\ Taken \in Nat /\ size \in 0 .. N - 1 /\ Len(published) = Taken + size
        /\ published \in Seq(Entry)
        /\ \A k \in 1 .. Len(published) : published[k] \in Entry
  BY QueueState, RingFacts DEF TypeOK, Entry
<1>2. (TypeOK /\ RingInv /\ ContentInv =>
        /\ Waiting = Run(published, Taken, size) /\ Handled = Run(published, 0, Taken)
        /\ Taken \in Nat /\ size \in 0 .. N - 1 /\ Len(published) = Taken + size
        /\ published \in Seq(Entry)
        /\ \A k \in 1 .. Len(published) : published[k] \in Entry)'
  BY <1>1, PTL
<1> QED
  BY <1>1, <1>2

LEMMA QueueAccepts ==
  ASSUME OneWriterAtATime, TypeOK, RingInv, ContentInv, TypeOK', RingInv', ContentInv',
         NEW w \in Writers, Alive, FrontReady(w)
  PROVE  Queue!Accept
<1> DEFINE e == [id |-> entry[w].id, len |-> entry[w].len]
           p == published
           q == published'
           a == Taken
           n == size
<1>1. q = Append(p, e) /\ a' = a /\ wpc[w] = "ended" /\ dpc' = dpc
  BY DEF FrontReady, Goto, readerVars, mainVars, Taken
<1>2. /\ e \in Entry /\ e.id \in 1 .. MaxEntries /\ e.len \in 1 .. MaxLen
      /\ Text(e) = Text([id |-> e.id, len |-> e.len])
  <2>1. entry[w].id # NUL /\ entry[w].len # 0
    BY <1>1 DEF ContentInv, OpenWritten
  <2>2. entry[w].id \in Chars /\ entry[w].len \in 0 .. MaxLen /\ e \in Entry
    BY EntryFacts
  <2>3. entry[w].id \in 1 .. MaxEntries /\ entry[w].len \in 1 .. MaxLen
    BY <2>1, <2>2 DEF Chars, NUL
  <2>4. e.id = entry[w].id /\ e.len = entry[w].len
    OBVIOUS
  <2> QED
    BY <2>2, <2>3, <2>4
<1>3. /\ Waiting = Run(p, a, n) /\ Handled = Run(p, 0, a)
      /\ Waiting' = Run(q, a, n') /\ Handled' = Run(q, 0, a)
      /\ a \in Nat /\ n \in 0 .. N - 1 /\ n' \in 0 .. N - 1
      /\ Len(p) = a + n /\ Len(q) = a + n'
      /\ p \in Seq(Entry)
      /\ \A k \in 1 .. Len(p) : p[k] \in Entry
      /\ \A k \in 1 .. Len(q) : q[k] \in Entry
  BY <1>1, QueueMoves
<1> HIDE DEF e, p, q, a, n
<1>4. n' = n + 1 /\ n < N - 1 /\ n \in Nat
  BY <1>1, <1>3
<1>5. /\ q[a + n + 1] = e
      /\ \A i \in 1 .. n : q[a + i] = p[a + i]
      /\ \A i \in 1 .. a : q[0 + i] = p[0 + i]
  <2>1. q[Len(p) + 1] = e /\ \A k \in 1 .. Len(p) : q[k] = p[k]
    <3>1. p \in Seq(Entry) /\ e \in Entry /\ q = Append(p, e)
      BY <1>1, <1>2, <1>3
    <3>2. Len(p) \in Nat /\ DOMAIN p = 1 .. Len(p)
      BY <3>1, LenProperties
    <3> QED
      BY <3>1, <3>2
  <2> QED
    BY <1>3, <1>4, <2>1
<1>6. Run(q, a, n) = Run(p, a, n) /\ Run(q, 0, a) = Run(p, 0, a)
  BY <1>5 DEF Run
<1>7. Waiting' = Append(Waiting, Text(e)) /\ Handled' = Handled
  <2>1. \A i \in 1 .. n + 1 : q[a + i] \in Entry
    BY <1>3, <1>4
  <2> QED
    BY <1>3, <1>4, <1>5, <1>6, <2>1, RunGrows
<1>8. Len(Waiting) = n
  <2>1. \A i \in 1 .. n : p[a + i] \in Entry
    BY <1>3, <1>4
  <2> QED
    BY <1>3, <1>4, <2>1, RunType
<1> QED
  BY <1>1, <1>2, <1>4, <1>7, <1>8 DEF Queue!Accept, Alive

LEMMA QueueHandles ==
  ASSUME OneWriterAtATime, TypeOK, RingInv, ContentInv, TypeOK', RingInv', ContentInv',
         Alive, TakeSlot
  PROVE  Queue!Handle
<1> DEFINE p == published
           a == Taken
           n == size
<1>1. /\ published' = p /\ dpc' = dpc /\ rpc = "take" /\ rpc' = "read"
      /\ consumed' = consumed
  BY DEF TakeSlot, writerVars, mainVars
<1>2. a' = a + 1 /\ n # 0
  <2>1. Len(consumed) \in Nat /\ frontIdx \in Slots /\ backIdx \in Slots /\ frontIdx # backIdx
    BY <1>1, RingFacts DEF RingInv, empty
  <2> QED
    BY <1>1, <2>1 DEF Taken, size, Slots
<1>3. /\ Waiting = Run(p, a, n) /\ Handled = Run(p, 0, a)
      /\ Waiting' = Run(p, a', n') /\ Handled' = Run(p, 0, a')
      /\ a \in Nat /\ n \in 0 .. N - 1 /\ n' \in 0 .. N - 1
      /\ Len(p) = a + n /\ Len(p) = a' + n'
      /\ \A k \in 1 .. Len(p) : p[k] \in Entry
  BY <1>1, QueueMoves
<1> HIDE DEF p, a, n
<1>4. n' = n - 1 /\ n \in Nat \ {0}
  BY <1>2, <1>3
<1>5. \A i \in 1 .. n : p[a + i] \in Entry
  BY <1>3, <1>4
<1>6. Waiting # <<>> /\ Head(Waiting) = Text(p[a + 1]) /\ Tail(Waiting) = Waiting'
  BY <1>2, <1>3, <1>4, <1>5, RunShrinks
<1>7. Handled' = Append(Handled, Text(p[a + 1]))
  <2>1. \A i \in 1 .. a + 1 : p[0 + i] \in Entry
    BY <1>3, <1>4
  <2>2. Run(p, 0, a + 1) = Append(Run(p, 0, a), Text(p[0 + a + 1]))
    BY <1>3, <2>1, RunGrows
  <2>3. 0 + a + 1 = a + 1
    BY <1>3
  <2> QED
    BY <1>2, <1>3, <2>2, <2>3
<1> QED
  BY <1>1, <1>6, <1>7 DEF Queue!Handle, Alive

\* No other step moves it.
LEMMA QueueStutters ==
  ASSUME OneWriterAtATime, TypeOK, RingInv, ContentInv, TypeOK', RingInv', ContentInv',
         UNCHANGED <<published, Taken, size>>
  PROVE  UNCHANGED <<Waiting, Handled>>
BY QueueMoves

LEMMA QueueStep ==
  OneWriterAtATime =>
    (TypeOK /\ RingInv /\ ContentInv /\ TypeOK' /\ RingInv' /\ ContentInv' /\ [Next]_vars
      => [Queue!Next]_(Queue!vars))
<1> SUFFICES ASSUME OneWriterAtATime, TypeOK, RingInv, ContentInv,
                    TypeOK', RingInv', ContentInv', [Next]_vars
             PROVE  Queue!Next \/ UNCHANGED <<Waiting, Handled, dpc = "deleted">>
  BY DEF Queue!vars
<1> USE DEF Goto
<1>1. ASSUME NEW w \in Writers, Writer(w)
      PROVE  Queue!Next \/ UNCHANGED <<Waiting, Handled, dpc = "deleted">>
  <2>1. CASE FrontReady(w)
    BY <1>1, <2>1, QueueAccepts DEF Writer, Queue!Next
  <2>2. CASE ~FrontReady(w)
    <3>1. UNCHANGED <<published, frontIdx, backIdx, consumed, rpc, dpc>>
      BY <1>1, <2>2 DEF Writer, FrontDiscard, FrontAccept, TryLockFails, TryLockSucceeds,
           OpenEntry, WriteChar, Ends, EndsDiscarded, Unlock, ringVars, readerVars, mainVars
    <3>2. UNCHANGED <<published, Taken, size>>
      BY <3>1 DEF Taken, size
    <3> QED
      BY <3>1, <3>2, QueueStutters
  <2> QED
    BY <2>1, <2>2
<1>2. ASSUME Reader
      PROVE  Queue!Next \/ UNCHANGED <<Waiting, Handled, dpc = "deleted">>
  <2>1. CASE TakeSlot
    BY <1>2, <2>1, QueueHandles DEF Reader, Queue!Next
  <2>2. CASE ~TakeSlot
    <3>1. UNCHANGED <<published, frontIdx, backIdx, dpc>>
      BY <1>2, <2>2 DEF Reader, SpinLoop, SpinEmpty, SpinNotEmpty, CopySlot, WriteOutput,
           SpinReturn, ringVars, writerVars, mainVars
    <3>2. Taken' = Taken
      <4>1. CASE CopySlot
        BY <4>1 DEF CopySlot, Taken, TypeOK
      <4>2. CASE ~CopySlot
        BY <1>2, <2>2, <4>2 DEF Reader, SpinLoop, SpinEmpty, SpinNotEmpty, WriteOutput,
             SpinReturn, Taken
      <4> QED
        BY <4>1, <4>2
    <3>3. size' = size
      BY <3>1 DEF size
    <3> QED
      BY <3>1, <3>2, <3>3, QueueStutters
  <2> QED
    BY <2>1, <2>2
<1>3. ASSUME Main \/ Terminated \/ UNCHANGED vars
      PROVE  Queue!Next \/ UNCHANGED <<Waiting, Handled, dpc = "deleted">>
  <2>1. UNCHANGED <<published, frontIdx, backIdx, consumed, rpc>>
    BY <1>3 DEF Main, AddOutputStream, ClearOutputStreams, RequestShutdown, DeleteInstance,
         Terminated, vars, ringVars, writerVars, readerVars
  <2>2. UNCHANGED <<published, Taken, size>>
    BY <2>1 DEF Taken, size
  <2>3. UNCHANGED <<Waiting, Handled>>
    BY <2>2, QueueStutters
  <2>4. CASE DeleteInstance
    BY <2>3, <2>4 DEF DeleteInstance, Queue!Next, Queue!Close
  <2>5. CASE ~DeleteInstance
    BY <1>3, <2>3, <2>5 DEF Main, AddOutputStream, ClearOutputStreams, RequestShutdown,
         Terminated, vars, mainVars
  <2> QED
    BY <2>4, <2>5
<1> QED
  BY <1>1, <1>2, <1>3 DEF Next

\* One open entry at a time: the ring of buffers, which gives a slot back before it
\* reads it and is read through c_str(), is the bounded queue of whole entries that
\* LogQueue describes (its safety part: what is accepted, handed over and kept).
THEOREM ImplementsQueue == OneWriterAtATime => (Spec => QueueSafe)
<1> SUFFICES ASSUME OneWriterAtATime PROVE Spec => Queue!SafeSpec
  BY DEF QueueSafe
<1>1. Init => Queue!Init
  <2> SUFFICES ASSUME Init PROVE Queue!Init
    OBVIOUS
  <2>1. size = 0 /\ rpc # "read" /\ consumed = <<>> /\ dpc # "deleted"
    BY DEF Init, size
  <2> QED
    BY <2>1 DEF Queue!Init, Waiting, Handled
<1>2. TypeOK /\ RingInv /\ ContentInv /\ TypeOK' /\ RingInv' /\ ContentInv' /\ [Next]_vars
      => [Queue!Next]_(Queue!vars)
  BY QueueStep
<1> QED
  BY <1>1, <1>2, TypeCorrect, RingAlways, ContentAlways, PTL DEF Spec, Queue!SafeSpec
=============================================================================
