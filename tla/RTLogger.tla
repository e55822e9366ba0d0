------------------------------ MODULE RTLogger ------------------------------
(***************************************************************************)
(* The real-time logger: a ring of string buffers filled by real-time      *)
(* threads through front() and RTLoggerStream, and emptied by the spin     *)
(* thread through spinOnce().  Only wmutex synchronises the writers;       *)
(* nothing synchronises a writer with the reader except the order in which *)
(* frontIdx_ and backIdx_ move, so every access to shared memory that      *)
(* another thread can observe is a step of its own.                        *)
(*                                                                         *)
(* A character of an entry is the entry's number, NUL the terminator that  *)
(* std::ends writes.  published and consumed are history variables.        *)
(***************************************************************************)
EXTENDS Integers, Sequences, FiniteSets

CONSTANTS
  N,                  \* buffer_.size()
  Writers,            \* threads that call front()
  Streams,            \* the LoggerStream objects an application may attach
  MaxEntries,         \* bound: number of calls of front()
  MaxLen,             \* bound: characters of an entry
  OneWriterAtATime    \* TRUE: callers obey the header's note, one open entry

ASSUME NAssumption == N \in Nat \ {0}
ASSUME BoundsAssumption == MaxEntries \in Nat /\ MaxLen \in Nat
ASSUME DisciplineAssumption == OneWriterAtATime \in BOOLEAN

Slots  == 0 .. N-1
NUL    == 0
NoSlot == -1
NoOne  == "no one"
ASSUME NoOneAssumption == NoOne \notin Writers

VARIABLES
  buffer,          \* the slots: what each stringbuf holds and its put position
  frontIdx, backIdx,
  oss,             \* the slot oss_ writes to, NoSlot while its rdbuf is NULL
  wmutex,          \* the writer that holds the mutex, or NoOne
  outputs,         \* the attached streams, in order
  nbDiscarded,
  wpc,             \* where each writer is in front() / ~RTLoggerStream
  entry,           \* the entry a writer is writing and its characters to come
  nbFronts,        \* calls of front() so far
  rpc,             \* where the spin thread is
  rslot, rstr, ri, \* its local data, str and i of spinOnce()
  dpc,             \* where the thread that calls destroy() is
  delivered,       \* what each stream was given
  published,       \* history: the entries closed by frontReady()
  consumed,        \* history: the texts the spin thread copied out
  owed             \* history: entries published when shutdown was requested

ringVars   == <<buffer, frontIdx, backIdx, oss>>
writerVars == <<wpc, entry, nbFronts, wmutex, nbDiscarded, published>>
readerVars == <<rpc, rslot, rstr, ri, delivered, consumed>>
mainVars   == <<outputs, dpc, owed>>
vars       == <<ringVars, writerVars, readerVars, mainVars>>

----------------------------------------------------------------------------
\* Definitions named Mutant... are faults the checks must notice; the
\* specification uses none of them.
MutantSuccNoWrap(i) == i + 1
Succ(i) == (i + 1) % N
empty == frontIdx = backIdx
size  == IF frontIdx <= backIdx THEN backIdx - frontIdx
                                ELSE backIdx + N - frontIdx
\* No slot is kept free.
MutantFullAtN == size = N
full  == Succ(backIdx) = frontIdx

\* sputc at the put position: overwrites what an older, longer entry left.
Put(b, c) ==
  [chars |-> IF b.pos < Len(b.chars) THEN [b.chars EXCEPT ![b.pos + 1] = c]
                                     ELSE Append(b.chars, c),
   pos   |-> b.pos + 1]

\* str passed to the outputs instead of str.c_str().
MutantWholeStr(b) == b.chars

\* What str.c_str() shows of a buffer: the characters before the first NUL.
CStr(b) ==
  LET nul == {i \in DOMAIN b.chars : b.chars[i] = NUL}
  IN  IF nul = {} THEN b.chars
      ELSE SubSeq(b.chars, 1, (CHOOSE i \in nul : \A j \in nul : i <= j) - 1)

NoEntry == [id |-> 0, len |-> 0, left |-> 0]
Text(e) == [i \in 1 .. e.len |-> e.id]

Alive == dpc # "deleted"

Init ==
  /\ buffer = [i \in Slots |-> [chars |-> <<>>, pos |-> 0]]
  /\ frontIdx = 0 /\ backIdx = 0 /\ oss = NoSlot
  /\ wmutex = NoOne /\ nbDiscarded = 0
  /\ wpc = [w \in Writers |-> "idle"]
  /\ entry = [w \in Writers |-> NoEntry]
  /\ nbFronts = 0
  /\ rpc = "loop" /\ rslot = NoSlot /\ rstr = <<>> /\ ri = 0
  /\ dpc = "running" /\ outputs = <<>>
  /\ delivered = [s \in Streams |-> <<>>]
  /\ published = <<>> /\ consumed = <<>> /\ owed = 0

----------------------------------------------------------------------------
(* Writers.                                                                *)

Goto(w, from, to) == wpc[w] = from /\ wpc' = [wpc EXCEPT ![w] = to]

\* nbDiscarded_++ is a plain increment: it may be lost to another writer's.
CountDiscard(w) ==
  \/ nbDiscarded' = nbDiscarded + 1
  \/ /\ \E v \in Writers \ {w} : wpc[v] # "idle"
     /\ nbDiscarded' = nbDiscarded

StartEntry(w) ==
  /\ nbFronts < MaxEntries
  /\ OneWriterAtATime => \A v \in Writers : wpc[v] = "idle"
  /\ nbFronts' = nbFronts + 1
  /\ \E n \in 1 .. MaxLen :
       entry' = [entry EXCEPT ![w] = [id |-> nbFronts + 1, len |-> n, left |-> n]]

\* front(), no output or ring full: the stream is given no logger.
FrontDiscard(w) ==
  /\ Goto(w, "idle", "null")
  /\ StartEntry(w)
  /\ outputs = <<>> \/ full
  /\ CountDiscard(w)
  /\ UNCHANGED <<wmutex, published>>
  /\ UNCHANGED <<ringVars, readerVars, mainVars>>

\* front(), room in the ring: go on to try_lock() without having the mutex.
FrontAccept(w) ==
  /\ Goto(w, "idle", "tryLock")
  /\ StartEntry(w)
  /\ outputs # <<>> /\ ~full
  /\ UNCHANGED <<wmutex, nbDiscarded, published>>
  /\ UNCHANGED <<ringVars, readerVars, mainVars>>

\* lock() instead of try_lock().
MutantLockWaits(w) ==
  wpc[w] = "tryLock" /\ wmutex # NoOne /\ UNCHANGED vars

TryLockFails(w) ==
  /\ Goto(w, "tryLock", "null")
  /\ wmutex # NoOne
  /\ CountDiscard(w)
  /\ UNCHANGED <<entry, nbFronts, wmutex, published>>
  /\ UNCHANGED <<ringVars, readerVars, mainVars>>

\* "alone" not tested.
MutantLockIgnored(w) ==
  /\ Goto(w, "tryLock", "locked")
  /\ wmutex' = w
  /\ UNCHANGED <<entry, nbFronts, nbDiscarded, published>>
  /\ UNCHANGED <<ringVars, readerVars, mainVars>>

TryLockSucceeds(w) ==
  /\ Goto(w, "tryLock", "locked")
  /\ wmutex = NoOne
  /\ wmutex' = w
  /\ UNCHANGED <<entry, nbFronts, nbDiscarded, published>>
  /\ UNCHANGED <<ringVars, readerVars, mainVars>>

\* The slot is not rewound.
MutantNoSeek(w) ==
  /\ Goto(w, "locked", "open")
  /\ oss' = backIdx
  /\ UNCHANGED <<buffer, frontIdx, backIdx>>
  /\ UNCHANGED <<entry, nbFronts, wmutex, nbDiscarded, published>>
  /\ UNCHANGED <<readerVars, mainVars>>

\* The rest of front(): rewind the back slot and point oss_ at it.
OpenEntry(w) ==
  /\ Goto(w, "locked", "open")
  /\ buffer' = [buffer EXCEPT ![backIdx].pos = 0]
  /\ oss' = backIdx
  /\ UNCHANGED <<frontIdx, backIdx>>
  /\ UNCHANGED <<entry, nbFronts, wmutex, nbDiscarded, published>>
  /\ UNCHANGED <<readerVars, mainVars>>

\* operator<< of a stream that has a logger.
WriteChar(w) ==
  /\ wpc[w] = "open" /\ entry[w].left > 0
  /\ buffer' = [buffer EXCEPT ![oss] = Put(@, entry[w].id)]
  /\ entry' = [entry EXCEPT ![w].left = @ - 1]
  /\ UNCHANGED <<frontIdx, backIdx, oss>>
  /\ UNCHANGED <<wpc, nbFronts, wmutex, nbDiscarded, published>>
  /\ UNCHANGED <<readerVars, mainVars>>

\* The mutex is released before backIdx_ moves.
MutantUnlockFirst(w) ==
  /\ Goto(w, "open", "ended")
  /\ entry[w].left = 0
  /\ buffer' = [buffer EXCEPT ![oss] = Put(@, NUL)]
  /\ wmutex' = NoOne
  /\ UNCHANGED <<frontIdx, backIdx, oss>>
  /\ UNCHANGED <<entry, nbFronts, nbDiscarded, published>>
  /\ UNCHANGED <<readerVars, mainVars>>

\* ~RTLoggerStream() of a stream that has a logger, up to frontReady().
Ends(w) ==
  /\ Goto(w, "open", "ended")
  /\ entry[w].left = 0
  /\ buffer' = [buffer EXCEPT ![oss] = Put(@, NUL)]
  /\ UNCHANGED <<frontIdx, backIdx, oss>>
  /\ UNCHANGED <<entry, nbFronts, wmutex, nbDiscarded, published>>
  /\ UNCHANGED <<readerVars, mainVars>>

\* A discarded entry calls frontReady() too.
MutantReadyAnyway(w) ==
  /\ Goto(w, "null", "idle")
  /\ backIdx' = Succ(backIdx)
  /\ wmutex' = NoOne
  /\ entry' = [entry EXCEPT ![w] = NoEntry]
  /\ UNCHANGED <<buffer, frontIdx, oss, nbFronts, nbDiscarded, published>>
  /\ UNCHANGED <<readerVars, mainVars>>

\* ~RTLoggerStream() of a discarded entry also writes std::ends into oss_,
\* wherever it points.  It has no effect while oss_ has no buffer, and may be
\* overwritten by a character another thread is writing at the same moment.
EndsDiscarded(w) ==
  /\ Goto(w, "null", "idle")
  /\ \/ /\ oss # NoSlot
        /\ buffer' = [buffer EXCEPT ![oss] = Put(@, NUL)]
     \/ /\ oss = NoSlot \/ \E v \in Writers \ {w} : wpc[v] = "open"
        /\ UNCHANGED buffer
  /\ UNCHANGED <<frontIdx, backIdx, oss>>
  /\ entry' = [entry EXCEPT ![w] = NoEntry]
  /\ UNCHANGED <<nbFronts, wmutex, nbDiscarded, published>>
  /\ UNCHANGED <<readerVars, mainVars>>

\* frontReady(): publish the slot, ...
FrontReady(w) ==
  /\ Goto(w, "ended", "ready")
  /\ backIdx' = Succ(backIdx)
  /\ published' = Append(published, [id |-> entry[w].id, len |-> entry[w].len])
  /\ UNCHANGED <<buffer, frontIdx, oss>>
  /\ UNCHANGED <<entry, nbFronts, wmutex, nbDiscarded>>
  /\ UNCHANGED <<readerVars, mainVars>>

\* ... then release the mutex.
Unlock(w) ==
  /\ Goto(w, "ready", "idle")
  /\ wmutex' = NoOne
  /\ entry' = [entry EXCEPT ![w] = NoEntry]
  /\ UNCHANGED <<nbFronts, nbDiscarded, published>>
  /\ UNCHANGED <<ringVars, readerVars, mainVars>>

Writer(w) ==
  /\ Alive
  /\ \/ FrontDiscard(w) \/ FrontAccept(w)
     \/ TryLockFails(w) \/ TryLockSucceeds(w)
     \/ OpenEntry(w) \/ WriteChar(w)
     \/ Ends(w) \/ EndsDiscarded(w)
     \/ FrontReady(w) \/ Unlock(w)

----------------------------------------------------------------------------
(* The spin thread.                                                        *)

\* The two ways of getting the loop's condition wrong.
MutantStopAtOnce ==
  /\ rpc = "loop"
  /\ rpc' = IF dpc = "running" THEN "poll" ELSE "done"
  /\ UNCHANGED <<rslot, rstr, ri, delivered, consumed>>
  /\ UNCHANGED <<ringVars, writerVars, mainVars>>

MutantNeverStop ==
  /\ rpc = "loop"
  /\ rpc' = "poll"
  /\ UNCHANGED <<rslot, rstr, ri, delivered, consumed>>
  /\ UNCHANGED <<ringVars, writerVars, mainVars>>

\* while (!requestShutdown_ || !logger->empty())
SpinLoop ==
  /\ rpc = "loop"
  /\ rpc' = IF dpc = "running" \/ ~empty THEN "poll" ELSE "done"
  /\ UNCHANGED <<rslot, rstr, ri, delivered, consumed>>
  /\ UNCHANGED <<ringVars, writerVars, mainVars>>

\* The thread ends when it finds nothing to write.
MutantEmptyEnds ==
  /\ rpc = "poll" /\ empty
  /\ rpc' = "done"
  /\ UNCHANGED <<rslot, rstr, ri, delivered, consumed>>
  /\ UNCHANGED <<ringVars, writerVars, mainVars>>

\* spinOnce() finds the ring empty: spin() sleeps, then tests its condition.
SpinEmpty ==
  /\ rpc = "poll" /\ empty
  /\ rpc' = "loop"
  /\ UNCHANGED <<rslot, rstr, ri, delivered, consumed>>
  /\ UNCHANGED <<ringVars, writerVars, mainVars>>

SpinNotEmpty ==
  /\ rpc = "poll" /\ ~empty
  /\ rpc' = "take"
  /\ UNCHANGED <<rslot, rstr, ri, delivered, consumed>>
  /\ UNCHANGED <<ringVars, writerVars, mainVars>>

\* The slot is given back (frontIdx_ advances) before it is read.
TakeSlot ==
  /\ rpc = "take"
  /\ rpc' = "read"
  /\ rslot' = frontIdx
  /\ frontIdx' = Succ(frontIdx)
  /\ UNCHANGED <<buffer, backIdx, oss>>
  /\ UNCHANGED <<rstr, ri, delivered, consumed>>
  /\ UNCHANGED <<writerVars, mainVars>>

CopySlot ==
  /\ rpc = "read"
  /\ rpc' = "write"
  /\ rstr' = CStr(buffer[rslot])
  /\ ri' = 0
  /\ consumed' = Append(consumed, CStr(buffer[rslot]))
  /\ UNCHANGED <<rslot, delivered>>
  /\ UNCHANGED <<ringVars, writerVars, mainVars>>

WriteOutput ==
  /\ rpc = "write" /\ ri < Len(outputs)
  /\ delivered' = [delivered EXCEPT ![outputs[ri + 1]] = Append(@, rstr)]
  /\ ri' = ri + 1
  /\ UNCHANGED <<rpc, rslot, rstr, consumed>>
  /\ UNCHANGED <<ringVars, writerVars, mainVars>>

SpinReturn ==
  /\ rpc = "write" /\ ri >= Len(outputs)
  /\ rpc' = "loop"
  /\ rslot' = NoSlot /\ rstr' = <<>> /\ ri' = 0
  /\ UNCHANGED <<delivered, consumed>>
  /\ UNCHANGED <<ringVars, writerVars, mainVars>>

Reader ==
  /\ Alive
  /\ \/ SpinLoop \/ SpinEmpty \/ SpinNotEmpty
     \/ TakeSlot \/ CopySlot \/ WriteOutput \/ SpinReturn

----------------------------------------------------------------------------
(* The application's main thread.                                          *)

AddOutputStream(s) ==
  /\ dpc = "running" /\ \A i \in DOMAIN outputs : outputs[i] # s
  /\ outputs' = Append(outputs, s)
  /\ UNCHANGED <<dpc, owed>>
  /\ UNCHANGED <<ringVars, writerVars, readerVars>>

ClearOutputStreams ==
  /\ dpc = "running" /\ outputs # <<>>
  /\ outputs' = <<>>
  /\ UNCHANGED <<dpc, owed>>
  /\ UNCHANGED <<ringVars, writerVars, readerVars>>

\* destroy(): request the shutdown, ...
RequestShutdown ==
  /\ dpc = "running"
  /\ dpc' = "joining"
  /\ owed' = Len(published)
  /\ UNCHANGED outputs
  /\ UNCHANGED <<ringVars, writerVars, readerVars>>

\* ... wait for the spin thread, then delete the logger.
DeleteInstance ==
  /\ dpc = "joining" /\ rpc = "done"
  /\ dpc' = "deleted"
  /\ UNCHANGED <<outputs, owed>>
  /\ UNCHANGED <<ringVars, writerVars, readerVars>>

Main ==
  \/ \E s \in Streams : AddOutputStream(s)
  \/ ClearOutputStreams
  \/ RequestShutdown
  \/ DeleteInstance

\* The program goes on without the logger once it is deleted.
Terminated == dpc = "deleted" /\ UNCHANGED vars

Next == (\E w \in Writers : Writer(w)) \/ Reader \/ Main \/ Terminated

Spec == Init /\ [][Next]_vars

\* The spin thread is scheduled, a started entry is finished, and destroy()
\* once called goes on.  Nothing obliges anyone to log or to call destroy().
FinishEntry(w) == wpc[w] # "idle" /\ Writer(w)
Fairness ==
  /\ WF_vars(Reader)
  /\ \A w \in Writers : WF_vars(FinishEntry(w))
  /\ WF_vars(DeleteInstance)
FairSpec == Spec /\ Fairness

----------------------------------------------------------------------------
(* Properties.                                                             *)

Chars == 0 .. MaxEntries
TypeOK ==
  /\ buffer \in [Slots -> [chars : Seq(Chars), pos : Nat]]
  /\ frontIdx \in Slots /\ backIdx \in Slots
  /\ oss \in Slots \cup {NoSlot}
  /\ wmutex \in Writers \cup {NoOne}
  /\ nbDiscarded \in Nat
  /\ wpc \in [Writers -> {"idle", "null", "tryLock", "locked", "open",
                          "ended", "ready"}]
  /\ entry \in [Writers -> [id : Chars, len : 0 .. MaxLen, left : 0 .. MaxLen]]
  /\ nbFronts \in Chars
  /\ rpc \in {"loop", "poll", "take", "read", "write", "done"}
  /\ rslot \in Slots \cup {NoSlot} /\ (rpc = "read" => rslot \in Slots)
  /\ rstr \in Seq(Chars) /\ ri \in Nat
  /\ dpc \in {"running", "joining", "deleted"}
  /\ outputs \in Seq(Streams)
  /\ delivered \in [Streams -> Seq(Seq(Chars))]
  /\ published \in Seq([id : Chars, len : 0 .. MaxLen])
  /\ consumed \in Seq(Seq(Chars))
  /\ owed \in Nat

\* Between a successful try_lock() and unlock().
InFront == {"locked", "open", "ended", "ready"}

\* The mutex works: no two writers are between try_lock() and unlock().
WriterAlone ==
  \A v, w \in Writers :
    wpc[v] \in InFront /\ wpc[w] \in InFront => v = w

\* The shared oss_ of an open entry writes to the slot that frontReady() will
\* publish for it, although oss_ is also reachable from discarded entries.
OssOnBackSlot ==
  \A w \in Writers : wpc[w] \in {"open", "ended"} => oss = backIdx

\* spinOnce() advances frontIdx_ before it reads the slot, which offers the
\* slot to the writers.  The slot that full() keeps free is what protects it:
\* an open entry is never written into the slot the spin thread is copying.
SlotExclusion ==
  \A w \in Writers : wpc[w] \in {"open", "ended"} /\ rpc = "read" => oss # rslot

Taken == Len(consumed) + (IF rpc = "read" THEN 1 ELSE 0)

\* The two indices tell how many closed entries wait: a full ring is never
\* taken for an empty one.
RingHoldsUnread == Len(published) - Taken = size

\* real-time-logger.h:160: the slot backIdx_ designates does not contain valid
\* data, that is at most N-1 entries are closed and not taken.
BackSlotFree == Len(published) - Taken <= N - 1

\* What the spin thread copies out is exactly what was logged: every closed
\* entry once, in order, none truncated, none with the tail of the longer
\* entry that used its slot before.
DeliveredIntact ==
  /\ Len(consumed) <= Len(published)
  /\ \A i \in DOMAIN consumed : consumed[i] = Text(published[i])

\* A stream, whenever attached, is given whole entries, in the order they were
\* closed.  (It may be given one twice: an application that clears and refills
\* outputs_ while spinOnce() iterates over it can move a stream behind i.)
StreamsInOrder ==
  \A s \in Streams :
    \E at \in [DOMAIN delivered[s] -> DOMAIN published] :
      \A i \in DOMAIN delivered[s] :
        /\ delivered[s][i] = Text(published[at[i]])
        /\ i > 1 => at[i - 1] <= at[i]

\* destroy() deletes the logger only when the spin thread has taken and
\* written every entry that was closed before the shutdown was requested.
ShutdownDrains ==
  dpc = "deleted" => Len(consumed) >= owed /\ rpc = "done"

\* Every closed entry is eventually copied out, unless destroy() came first: from
\* some point on none is left, for there are no more than MaxEntries.
EventuallyDrained == <>[](Len(consumed) = Len(published) \/ ~Alive)

\* destroy() ends: the join does not wait for ever.
ShutdownEnds == dpc = "joining" ~> dpc = "deleted"

\* real-time-logger.h:101: writing is never a blocking operation.  A writer
\* that is scheduled finishes its entry though every other thread may stall.
NeverBlocking ==
  \A w \in Writers :
    WF_vars(FinishEntry(w)) => (wpc[w] # "idle" ~> wpc[w] = "idle" \/ ~Alive)

----------------------------------------------------------------------------
(* The inductive invariants the proofs use.                                *)

\* Any number of writers: who holds the mutex, and what oss_ then points to.
MutexInv ==
  /\ \A w \in Writers : wpc[w] \in InFront <=> wmutex = w
  /\ OssOnBackSlot

\* One open entry at a time: room seen by front() is still there when the
\* entry is written, the slot given back by spinOnce() is the one just before
\* frontIdx_, and the two indices count the entries that wait.
RingInv ==
  /\ MutexInv
  /\ \A v, w \in Writers : wpc[v] # "idle" /\ wpc[w] # "idle" => v = w
  /\ \A w \in Writers : wpc[w] \in {"tryLock", "locked", "open", "ended"} => ~full
  /\ rpc = "take" => ~empty
  /\ rpc = "read" => Succ(rslot) = frontIdx
  /\ RingHoldsUnread

\* The first n characters of a slot are those of the entry e, ...
Begins(b, e, n) ==
  /\ n <= b.pos /\ b.pos <= Len(b.chars)
  /\ \A i \in 1 .. n : b.chars[i] = e.id

\* ... or it holds the entry whole, with its terminator, and is written on behind
\* that only.
Sealed(b, e) ==
  /\ e.id # NUL /\ e.len < b.pos
  /\ Begins(b, e, e.len)
  /\ b.chars[e.len + 1] = NUL

\* Each slot between the indices holds the entry that was closed in its turn, ...
WaitingSealed ==
  \A i \in 1 .. size : Sealed(buffer[(frontIdx + i - 1) % N], published[Taken + i])

\* ... and so does the slot being copied, though it was given back.
CopyingSealed == rpc = "read" => Sealed(buffer[rslot], published[Taken])

\* The back slot holds what was written of the open entry.
OpenWritten ==
  \A w \in Writers :
    LET e == entry[w]
    IN  /\ wpc[w] # "idle" => e.id # NUL /\ e.len # 0
        /\ wpc[w] \in {"tryLock", "locked"} => e.left = e.len
        /\ wpc[w] = "open" =>
             /\ e.left <= e.len
             /\ buffer[backIdx].pos = e.len - e.left
             /\ Begins(buffer[backIdx], e, e.len - e.left)
        /\ wpc[w] = "ended" => Sealed(buffer[backIdx], e)

\* One open entry at a time.  A discarded entry has oss_ on a slot that was closed,
\* and writes behind its terminator.
ContentInv == WaitingSealed /\ CopyingSealed /\ OpenWritten /\ DeliveredIntact

\* Any number of writers: a stream is given texts in the order they were copied
\* out; str is the last one of them.
OutputInv ==
  /\ rpc = "write" => consumed # <<>> /\ rstr = consumed[Len(consumed)]
  /\ \A s \in Streams :
       \E at \in [DOMAIN delivered[s] -> DOMAIN consumed] :
         \A i \in DOMAIN delivered[s] :
           /\ delivered[s][i] = consumed[at[i]]
           /\ i > 1 => at[i - 1] <= at[i]

\* The spin thread ends after the request, with nothing left to take.
ShutdownInv ==
  /\ dpc # "running" => owed <= Len(published)
  /\ dpc = "running" => rpc # "done"
  /\ dpc = "deleted" => rpc = "done"
  /\ rpc = "done" => Len(consumed) >= owed

----------------------------------------------------------------------------
(* What the logger promises to one writer at a time: a bounded queue.  The *)
(* abstract queue is read off the ring itself, not off the history.        *)

Waiting == [i \in 1 .. size |-> CStr(buffer[(frontIdx + i - 1) % N])]
Handled == IF rpc = "read" THEN Append(consumed, CStr(buffer[rslot])) ELSE consumed
Queue == INSTANCE LogQueue WITH
  Capacity <- N - 1,
  Texts    <- {Text([id |-> i, len |-> n]) : i \in 1 .. MaxEntries,
                                             n \in 1 .. MaxLen},
  queue    <- Waiting,
  handled  <- Handled,
  closed   <- dpc = "deleted"
QueueSpec == Queue!Spec
QueueSafe == Queue!SafeSpec
=============================================================================
