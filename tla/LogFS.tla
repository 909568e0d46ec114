------------------------------- MODULE LogFS -------------------------------
(***************************************************************************)
(* The append-only log of project-4/logfs.c over the block device of       *)
(* project-4/device.c.                                                     *)
(*                                                                         *)
(* Two threads share struct logfs.  The client thread calls logfs_open,    *)
(* logfs_append, logfs_read and logfs_close; the worker thread created by  *)
(* logfs_open moves full blocks from the ring wcache[] to the device.      *)
(* `mpc' and `wpc' are their program counters.                             *)
(*                                                                         *)
(* Data.  The code never looks at the bytes it stores, so the byte that is *)
(* appended at log offset p is represented by the value p + 1; 0 is the    *)
(* byte memset() writes and -1 a byte nobody has written.  Offsets, block  *)
(* addresses and lengths are the byte quantities of the code.              *)
(*                                                                         *)
(* Grain.  cur_blk, off, available and rcache belong to the client, so     *)
(* client steps between two accesses to shared state are merged.  A        *)
(* critical section of the client is one step: everything it touches is    *)
(* touched by the worker under the mutex only, except the field blk of the *)
(* slot being written out and `done', and neither can be seen half         *)
(* changed.  The worker's critical section is split wherever logfs_close,  *)
(* which does not take the mutex, can come in between.                     *)
(***************************************************************************)
EXTENDS Integers, Sequences

CONSTANTS
    BlkSz,         \* logfs->blk_sz = device_block()
    WCacheBlocks,  \* WCACHE_BLOCKS
    RCacheBlocks,  \* RCACHE_BLOCKS
    DeviceBlocks,  \* device_size() / device_block()
    MaxOff,        \* bound: the client appends no more than MaxOff bytes
    AppendLens,    \* lengths the client appends
    ReadLens,      \* lengths the client reads
    MaxSpurious,   \* bound: spurious returns of pthread_cond_wait()
    Faults,        \* device operations that may fail: a subset of {"pread", "pwrite"}
    MayClose       \* does the client call logfs_close()?

ASSUME LogFSAssumption ==
    /\ BlkSz \in Nat \ {0, 1, 3}   \* 3 marks an empty cache slot: it must not be aligned
    /\ WCacheBlocks \in Nat \ {0}
    /\ RCacheBlocks \in Nat \ {0}
    /\ DeviceBlocks \in Nat \ {0}
    /\ MaxOff \in Nat
    /\ AppendLens \subseteq Nat
    /\ ReadLens \subseteq Nat
    /\ MaxSpurious \in Nat
    /\ Faults \subseteq {"pread", "pwrite"}
    /\ MayClose \in BOOLEAN

VARIABLES
    done,         \* logfs->done
    cur_blk,      \* the block being filled
    off,          \* bytes appended so far
    available,    \* bytes left in cur_blk (cur_off is always BlkSz - available)
    head, tail, active_blks, wcache,  \* the ring of blocks to be written
    rcache,       \* the direct-mapped read cache
    mutex,        \* "free", "worker" (held by the worker) or "destroyed"
    device,       \* device[b]: the block at byte address b * BlkSz
    mpc, left, rd,   \* client: control, left_to_write, the read in progress
    wpc, unit, wbuf, \* worker: control, index of wcache_unit, its private copy
    status,       \* "running", or how the process died: "exit" (the mutex is gone),
                  \* "fault" (a write failed) or "assert"
    spurious,     \* spurious wake-ups so far
    popped,       \* history: blocks the worker has taken out of the ring
    reused,       \* history: the client refilled a slot while the worker was writing it out
    misread       \* history: a read of the device failed, its cache slot already tagged

ring   == <<head, tail, active_blks, wcache>>
client == <<cur_blk, off, available, rcache, left, rd>>
worker == <<unit, wbuf>>
vars   == <<done, ring, client, mutex, device, mpc, wpc, worker, status,
            spurious, popped, reused, misread>>
-----------------------------------------------------------------------------
Index  == 0 .. BlkSz - 1
Blank  == [i \in Index |-> -1]
Zeroes == [i \in Index |-> 0]

\* The value of a cache slot's blk that matches no block: "random number which
\* isn't block aligned".
NoBlk == 3

block_start(o) == o - (o % BlkSz)
rc_idx(blk)    == (blk \div BlkSz) % RCacheBlocks

\* The slot of the ring after slot s.
NextSlot_NoWrap(s) == s + 1
NextSlot_Short(s)  == (s + 1) % (IF WCacheBlocks > 1 THEN WCacheBlocks - 1 ELSE 1)
NextSlot(s) == (s + 1) % WCacheBlocks

RingHasRoom == active_blks < WCacheBlocks

\* The address write_to_queue() is given: the block that has just become full.
FullBlock_Following == block_start(off)
FullBlock == block_start(off - 1)

\* pthread_cond_signal() on `item' and on `space': the next control state of
\* the thread that waits there, if it does.
SignalItem_Missing  == wpc
SignalSpace_Missing == mpc
SignalItem  == IF wpc = "waiting" THEN "relock" ELSE wpc
SignalSpace == IF mpc = "space" THEN "enqueue" ELSE mpc

\* The read cache without the block that is about to change.
Invalidated_Never(blk) == rcache
Invalidated(blk) == IF rcache[rc_idx(blk)].blk = blk
                    THEN [rcache EXCEPT ![rc_idx(blk)].blk = NoBlk]
                    ELSE rcache

\* memcpy() of the next n bytes of the log to cur_off.
Filled(n) == [i \in Index |->
                IF BlkSz - available <= i /\ i < BlkSz - available + n
                THEN off + (i - (BlkSz - available)) + 1
                ELSE cur_blk[i]]

\* What block b of the log holds once it is full.
Image(b) == [i \in Index |-> b * BlkSz + i + 1]

\* exit() and abort() end both threads.
Die(how) ==
    /\ status' = how
    /\ mpc' = "dead"
    /\ wpc' = "dead"
    /\ UNCHANGED <<done, ring, client, mutex, device, worker, spurious, popped,
                   reused, misread>>

NoRead == [off |-> 0, len |-> 0, got |-> <<>>]
-----------------------------------------------------------------------------
Init ==
    /\ done = FALSE
    /\ cur_blk = Blank
    /\ off = 0
    /\ available = 0
    /\ head = 0 /\ tail = 0 /\ active_blks = 0
    /\ wcache = [s \in 0 .. WCacheBlocks - 1 |-> [blk |-> NoBlk, buf |-> Blank]]
    /\ rcache = [s \in 0 .. RCacheBlocks - 1 |-> [blk |-> NoBlk, buf |-> Blank]]
    /\ mutex = "free"
    /\ device = [b \in 0 .. DeviceBlocks - 1 |-> Blank]
    /\ mpc = "unopened" /\ left = 0 /\ rd = NoRead
    /\ wpc = "none" /\ unit = 0 /\ wbuf = Blank
    /\ status = "running"
    /\ spurious = 0
    /\ popped = 0
    /\ reused = FALSE
    /\ misread = FALSE

\* logfs_open(): an empty log, empty caches (already so in Init) and a worker.
logfs_open ==
    /\ mpc = "unopened"
    /\ cur_blk' = Zeroes
    /\ available' = BlkSz
    /\ mpc' = "idle"
    /\ wpc' = "loop"
    /\ UNCHANGED <<done, off, ring, rcache, left, rd, mutex, device, worker,
                   status, spurious, popped, reused, misread>>
-----------------------------------------------------------------------------
(***************************************************************************)
(* logfs_append(): drop the read-cache copy of the block about to change,  *)
(* fill and queue blocks while there are enough bytes, keep the rest.      *)
(***************************************************************************)
AppendBegin(len) ==
    /\ mpc = "idle"
    /\ off + len <= MaxOff
    /\ rcache' = Invalidated(block_start(off))
    /\ left' = len
    /\ mpc' = "append"
    /\ UNCHANGED <<done, cur_blk, off, available, rd, ring, mutex, device, wpc,
                   worker, status, spurious, popped, reused, misread>>

AppendFill ==
    /\ mpc = "append"
    /\ left >= available
    /\ cur_blk' = Filled(available)
    /\ off' = off + available
    /\ left' = left - available
    /\ available' = 0
    /\ mpc' = "enqueue"
    /\ UNCHANGED <<done, rcache, rd, ring, mutex, device, wpc, worker, status,
                   spurious, popped, reused, misread>>

AppendRest ==
    /\ mpc = "append"
    /\ left < available
    /\ cur_blk' = Filled(left)
    /\ off' = off + left
    /\ available' = available - left
    /\ left' = 0
    /\ mpc' = "idle"
    /\ UNCHANGED <<done, rcache, rd, ring, mutex, device, wpc, worker, status,
                   spurious, popped, reused, misread>>

\* write_to_queue() with room in the ring, and the reset of the current block
\* that follows it.  pthread_cond_signal(&item) wakes a waiting worker.
write_to_queue ==
    /\ mpc = "enqueue"
    /\ mutex = "free"
    /\ RingHasRoom
    /\ wcache' = [wcache EXCEPT ![head] = [blk |-> FullBlock, buf |-> cur_blk]]
    /\ head' = NextSlot(head)
    /\ active_blks' = active_blks + 1
    /\ wpc' = SignalItem
    /\ reused' = (reused \/ (wpc = "write" /\ unit = head))
    /\ cur_blk' = Zeroes
    /\ available' = BlkSz
    /\ mpc' = "append"
    /\ UNCHANGED <<done, tail, off, rcache, left, rd, mutex, device, worker,
                   status, spurious, popped, misread>>

\* write_to_queue() with a full ring: wait for `space'.
QueueFullWait ==
    /\ mpc = "enqueue"
    /\ mutex = "free"
    /\ ~RingHasRoom
    /\ mpc' = "space"
    /\ UNCHANGED <<done, ring, client, mutex, device, wpc, worker, status,
                   spurious, popped, reused, misread>>
-----------------------------------------------------------------------------
(***************************************************************************)
(* logfs_read(): one read_mem() per block touched (and one even if len is  *)
(* 0).  rd.got holds the bytes copied so far, so the next one to read is   *)
(* at rd.off + Len(rd.got).                                                *)
(***************************************************************************)
ReadPos == rd.off + Len(rd.got)
ReadBlk == block_start(ReadPos)
ReadIdx == rc_idx(ReadBlk)

\* The length passed to read_mem(): to the end of the block or of the request.
ReadChunk ==
    LET rest == rd.len - Len(rd.got)
        room == ReadBlk + BlkSz - ReadPos
    IN  IF rest < room THEN rest ELSE room

\* The tail of read_mem(): copy the chunk out of the cached block `buf'.
CopyOut(buf) ==
    /\ rd' = [rd EXCEPT !.got = @ \o [i \in 1 .. ReadChunk |->
                                        buf[ReadPos - ReadBlk + i - 1]]]
    /\ mpc' = IF Len(rd.got) + ReadChunk = rd.len THEN "readret" ELSE "read"

\* memcpy(rcache_unit->buf, buf_): the block has been found somewhere.
CacheAndCopy(buf) ==
    /\ rcache' = [rcache EXCEPT ![ReadIdx] = [blk |-> ReadBlk, buf |-> buf]]
    /\ CopyOut(buf)

\* The client only reads what it has appended: read_meta() of kvraw.c checks
\* every offset against the size of the log.
ReadBegin(o, len) ==
    /\ mpc = "idle"
    /\ o + len <= off
    /\ rd' = [off |-> o, len |-> len, got |-> <<>>]
    /\ mpc' = "read"
    /\ UNCHANGED <<done, cur_blk, off, available, rcache, left, ring, mutex,
                   device, wpc, worker, status, spurious, popped, reused, misread>>

ReadHit ==
    /\ mpc = "read"
    /\ rcache[ReadIdx].blk = ReadBlk
    /\ CopyOut(rcache[ReadIdx].buf)
    /\ UNCHANGED <<done, cur_blk, off, available, rcache, left, ring, mutex,
                   device, wpc, worker, status, spurious, popped, reused, misread>>

ReadCurrent ==
    /\ mpc = "read"
    /\ rcache[ReadIdx].blk # ReadBlk
    /\ ReadBlk = block_start(off)
    /\ CacheAndCopy(cur_blk)
    /\ UNCHANGED <<done, cur_blk, off, available, left, ring, mutex, device,
                   wpc, worker, status, spurious, popped, reused, misread>>

\* A miss on an older block: the slot is tagged before its buffer is filled.
ReadMiss ==
    /\ mpc = "read"
    /\ rcache[ReadIdx].blk # ReadBlk
    /\ ReadBlk # block_start(off)
    /\ rcache' = [rcache EXCEPT ![ReadIdx].blk = ReadBlk]
    /\ mpc' = "lookup"
    /\ UNCHANGED <<done, cur_blk, off, available, left, rd, ring, mutex, device,
                   wpc, worker, status, spurious, popped, reused, misread>>

\* check_in_wcache(): the first slot with this address, active or not.
check_in_wcache ==
    /\ mpc = "lookup"
    /\ mutex = "free"
    /\ \/ \E s \in 0 .. WCacheBlocks - 1 :
            /\ wcache[s].blk = ReadBlk
            /\ \A t \in 0 .. s - 1 : wcache[t].blk # ReadBlk
            /\ CacheAndCopy(wcache[s].buf)
       \/ /\ \A s \in 0 .. WCacheBlocks - 1 : wcache[s].blk # ReadBlk
          /\ mpc' = "devread"
          /\ UNCHANGED <<rcache, rd>>
    /\ UNCHANGED <<done, cur_blk, off, available, left, ring, mutex, device,
                   wpc, worker, status, spurious, popped, reused, misread>>

device_read ==
    /\ mpc = "devread"
    /\ ReadBlk + BlkSz <= DeviceBlocks * BlkSz
    /\ CacheAndCopy(device[ReadBlk \div BlkSz])
    /\ UNCHANGED <<done, cur_blk, off, available, left, ring, mutex, device,
                   wpc, worker, status, spurious, popped, reused, misread>>

\* pread() fails: read_mem() and logfs_read() return -1.
DeviceReadFails ==
    /\ mpc = "devread"
    /\ "pread" \in Faults
    /\ ReadBlk + BlkSz <= DeviceBlocks * BlkSz
    /\ rd' = NoRead
    /\ misread' = TRUE
    /\ mpc' = "idle"
    /\ UNCHANGED <<done, cur_blk, off, available, rcache, left, ring, mutex,
                   device, wpc, worker, status, spurious, popped, reused>>

\* assert( (off + len) <= device->size ) of device_read() fails.
DeviceReadAsserts ==
    /\ mpc = "devread"
    /\ ReadBlk + BlkSz > DeviceBlocks * BlkSz
    /\ Die("assert")

\* logfs_read() returns 0 and the caller goes on.
ReadReturn ==
    /\ mpc = "readret"
    /\ rd' = NoRead
    /\ mpc' = "idle"
    /\ UNCHANGED <<done, cur_blk, off, available, rcache, left, ring, mutex,
                   device, wpc, worker, status, spurious, popped, reused, misread>>
-----------------------------------------------------------------------------
(***************************************************************************)
(* logfs_close().  The mutex is not taken.  As glibc implements them:      *)
(* destroying a mutex that a thread holds, or has given up inside          *)
(* pthread_cond_wait(), fails with EBUSY and changes nothing (the result   *)
(* is not tested); destroying a condition variable blocks while a thread   *)
(* waits on it.                                                            *)
(***************************************************************************)
SetDone ==
    /\ MayClose
    /\ mpc = "idle"
    /\ done' = TRUE
    /\ mpc' = "signal"
    /\ UNCHANGED <<ring, client, mutex, device, wpc, worker, status, spurious,
                   popped, reused, misread>>

\* Nobody but the client waits for `space', so that signal reaches no one.
CloseSignal ==
    /\ mpc = "signal"
    /\ wpc' = SignalItem
    /\ mpc' = "destroy"
    /\ UNCHANGED <<done, ring, client, mutex, device, worker, status, spurious,
                   popped, reused, misread>>

MutexInUse == wpc \in {"test", "prewait", "waiting", "relock"}

MutexDestroy ==
    /\ mpc = "destroy"
    /\ mutex' = IF MutexInUse THEN mutex ELSE "destroyed"
    /\ mpc' = "conddestroy"
    /\ UNCHANGED <<done, ring, client, device, wpc, worker, status, spurious,
                   popped, reused, misread>>

CondDestroy ==
    /\ mpc = "conddestroy"
    /\ wpc # "waiting"
    /\ mpc' = "join"
    /\ UNCHANGED <<done, ring, client, mutex, device, wpc, worker, status,
                   spurious, popped, reused, misread>>

\* pthread_join(), device_close() and the release of struct logfs.
Join ==
    /\ mpc = "join"
    /\ wpc = "exited"
    /\ mpc' = "closed"
    /\ UNCHANGED <<done, ring, client, mutex, device, wpc, worker, status,
                   spurious, popped, reused, misread>>
-----------------------------------------------------------------------------
(***************************************************************************)
(* The worker: thread() and write_to_device().                             *)
(***************************************************************************)
thread ==
    /\ wpc = "loop"
    /\ wpc' = IF done THEN "exited" ELSE "lock"
    /\ UNCHANGED <<done, ring, client, mutex, device, mpc, worker, status,
                   spurious, popped, reused, misread>>

WorkerLock ==
    /\ wpc = "lock"
    /\ mutex = "free"
    /\ mutex' = "worker"
    /\ wpc' = "test"
    /\ UNCHANGED <<done, ring, client, device, mpc, worker, status, spurious,
                   popped, reused, misread>>

\* pthread_mutex_lock() on the destroyed mutex returns EINVAL: exit(1).
WorkerLockFails ==
    /\ wpc = "lock"
    /\ mutex = "destroyed"
    /\ Die("exit")

\* The loop condition holds: the worker is going to wait ...
WorkerDecideWait ==
    /\ wpc = "test"
    /\ ~done
    /\ active_blks <= 0
    /\ wpc' = "prewait"
    /\ UNCHANGED <<done, ring, client, mutex, device, mpc, worker, status,
                   spurious, popped, reused, misread>>

\* ... and pthread_cond_wait(&item) releases the mutex.
WorkerWait ==
    /\ wpc = "prewait"
    /\ mutex' = "free"
    /\ wpc' = "waiting"
    /\ UNCHANGED <<done, ring, client, device, mpc, worker, status, spurious,
                   popped, reused, misread>>

WorkerRelock ==
    /\ wpc = "relock"
    /\ mutex = "free"
    /\ mutex' = "worker"
    /\ wpc' = "test"
    /\ UNCHANGED <<done, ring, client, device, mpc, worker, status, spurious,
                   popped, reused, misread>>

\* if (logfs->done): give up, whatever is still in the ring.
WorkerGiveUp ==
    /\ wpc = "test"
    /\ done
    /\ mutex' = "free"
    /\ wpc' = "loop"
    /\ UNCHANGED <<done, ring, client, device, mpc, worker, status, spurious,
                   popped, reused, misread>>

\* Take the oldest block out, signal `space' and unlock.
WorkerTake ==
    /\ wpc = "test"
    /\ ~done
    /\ active_blks > 0
    /\ unit' = tail
    /\ wbuf' = wcache[tail].buf
    /\ tail' = NextSlot(tail)
    /\ active_blks' = active_blks - 1
    /\ popped' = popped + 1
    /\ mpc' = SignalSpace
    /\ mutex' = "free"
    /\ wpc' = "write"
    /\ UNCHANGED <<done, head, wcache, client, device, status, spurious, reused, misread>>

\* device_write(): the address is read from the slot here, without the mutex.
device_write ==
    /\ wpc = "write"
    /\ wcache[unit].blk + BlkSz <= DeviceBlocks * BlkSz
    /\ device' = [device EXCEPT ![wcache[unit].blk \div BlkSz] = wbuf]
    /\ wpc' = "loop"
    /\ UNCHANGED <<done, ring, client, mutex, mpc, worker, status, spurious,
                   popped, reused, misread>>

\* pwrite() fails: exit(1).
DeviceWriteFails ==
    /\ wpc = "write"
    /\ "pwrite" \in Faults
    /\ wcache[unit].blk + BlkSz <= DeviceBlocks * BlkSz
    /\ Die("fault")

\* assert( (off + len) <= device->size ) of device_write() fails.
DeviceWriteAsserts ==
    /\ wpc = "write"
    /\ wcache[unit].blk + BlkSz > DeviceBlocks * BlkSz
    /\ Die("assert")
-----------------------------------------------------------------------------
\* pthread_cond_wait() may return without a signal.
SpuriousWakeup ==
    /\ spurious < MaxSpurious
    /\ spurious' = spurious + 1
    /\ \/ wpc = "waiting" /\ wpc' = "relock" /\ UNCHANGED mpc
       \/ mpc = "space" /\ mpc' = "enqueue" /\ UNCHANGED wpc
    /\ UNCHANGED <<done, ring, client, mutex, device, worker, status, popped,
                   reused, misread>>
-----------------------------------------------------------------------------
\* A call that has begun; the client decides freely when to make the next one.
ClientStep ==
    \/ AppendFill \/ AppendRest \/ write_to_queue \/ QueueFullWait
    \/ ReadHit \/ ReadCurrent \/ ReadMiss \/ check_in_wcache
    \/ device_read \/ DeviceReadFails \/ DeviceReadAsserts \/ ReadReturn
    \/ CloseSignal \/ MutexDestroy \/ CondDestroy \/ Join

ClientCall ==
    \/ logfs_open
    \/ \E len \in AppendLens : AppendBegin(len)
    \/ \E len \in ReadLens : \E o \in 0 .. off : ReadBegin(o, len)
    \/ SetDone

WorkerStep ==
    \/ thread \/ WorkerLock \/ WorkerLockFails \/ WorkerDecideWait \/ WorkerWait
    \/ WorkerRelock \/ WorkerGiveUp \/ WorkerTake
    \/ device_write \/ DeviceWriteFails \/ DeviceWriteAsserts

Next == ClientCall \/ ClientStep \/ WorkerStep \/ SpuriousWakeup

Spec == Init /\ [][Next]_vars

\* Both threads are runnable threads of the operating system: a thread that can
\* go on eventually does.  Nothing makes the client start another call.
FairSpec ==
    /\ Spec
    /\ WF_vars(ClientStep)
    /\ WF_vars(WorkerStep)
-----------------------------------------------------------------------------
Bytes == Nat \cup {-1}
Block == [Index -> Bytes]
Slot  == [blk : Nat, buf : Block]

\* The type invariant of struct logfs and of both threads.
TypeOK ==
    /\ done \in BOOLEAN
    /\ cur_blk \in Block
    /\ off \in Nat
    /\ available \in 0 .. BlkSz
    /\ head \in 0 .. WCacheBlocks - 1
    /\ tail \in 0 .. WCacheBlocks - 1
    /\ active_blks \in 0 .. WCacheBlocks
    /\ wcache \in [0 .. WCacheBlocks - 1 -> Slot]
    /\ rcache \in [0 .. RCacheBlocks - 1 -> Slot]
    /\ mutex \in {"free", "worker", "destroyed"}
    /\ device \in [0 .. DeviceBlocks - 1 -> Block]
    /\ mpc \in {"unopened", "idle", "append", "enqueue", "space", "read",
                "lookup", "devread", "readret", "signal", "destroy",
                "conddestroy", "join", "closed", "dead"}
    /\ left \in Nat
    /\ rd \in [off : Nat, len : Nat, got : Seq(Bytes)]
    /\ wpc \in {"none", "loop", "lock", "test", "prewait", "waiting", "relock",
                "write", "exited", "dead"}
    /\ unit \in 0 .. WCacheBlocks - 1
    /\ wbuf \in Block
    /\ status \in {"running", "exit", "fault", "assert"}
    /\ spurious \in 0 .. MaxSpurious
    /\ popped \in Nat
    /\ reused \in BOOLEAN
    /\ misread \in BOOLEAN

\* Blocks that have entered the ring.
Queued == popped + active_blks

\* Every block that logfs_append() has queued can still be found, in a slot of
\* the ring (used or not) under its own address or at its place on the device -
\* unless a slot was refilled while the worker was writing it out.
NoBlockLost ==
    ~reused =>
        \A b \in 0 .. Queued - 1 :
            \/ b \in DOMAIN device /\ device[b] = Image(b)
            \/ \E s \in DOMAIN wcache : wcache[s] = [blk |-> b * BlkSz, buf |-> Image(b)]

\* The bytes logfs_read() hands back are the ones appended at that offset.
ReadIsRight == mpc = "readret" =>
                 rd.got = [i \in 1 .. rd.len |-> rd.off + i]

\* When logfs_read() returns 0 the caller has the bytes that were appended at
\* that offset, whatever mixture of read cache, current block, write cache and
\* device they came from - unless a slot was refilled while being written out, or
\* an earlier read has failed and left its cache slot tagged.
ReadReturnsAppended == ~reused /\ ~misread => ReadIsRight

\* The process has ended because the device failed or was too small.
DeviceFailed == status \in {"fault", "assert"}

\* logfs_append() returns: the wait for space in the ring always ends.
AppendReturns == (mpc = "append") ~> (mpc = "idle" \/ DeviceFailed)

\* The worker writes every queued block to its place on the device, unless the
\* log is closed first (or a slot is refilled while being written out).
QueuedReachesDevice ==
    \A b \in 0 .. DeviceBlocks - 1 :
        (b < Queued) ~> (device[b] = Image(b) \/ done \/ reused \/ DeviceFailed)

\* logfs_close() comes back, and without killing the process, from every
\* position of the worker but two: between its test of `done' and its lock of
\* the mutex, and between its test of the loop condition and its wait.
CloseReturnsUnlessRacing ==
    (mpc = "signal" /\ wpc \notin {"lock", "prewait"}) ~>
        (mpc = "closed" \/ DeviceFailed)

\* The ring as a queue of block images, oldest first.
Fifo == INSTANCE BlockQueue WITH
            Capacity <- WCacheBlocks,
            Blocks   <- {Image(b) : b \in 0 .. MaxOff},
            NoBlock  <- Blank,
            q        <- [i \in 1 .. active_blks |->
                            wcache[(tail + i - 1) % WCacheBlocks].buf],
            taken    <- wbuf

\* write_to_queue() and write_to_device() implement a bounded FIFO queue.
ImplementsFifo == Fifo!Spec
=============================================================================
