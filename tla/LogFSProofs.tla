---------------------------- MODULE LogFSProofs ----------------------------
(***************************************************************************)
(* Proofs about module LogFS, for every block size, every size of the ring *)
(* and of the read cache, every device and every set of lengths.           *)
(*                                                                         *)
(* The argument.  Blocks are numbered in the order in which they fill up,  *)
(* and block b can only ever be in slot b % WCacheBlocks of the ring: the  *)
(* slots hold the last WCacheBlocks blocks that were queued and the device *)
(* all that were taken out, except the one in the worker's hands - which   *)
(* is still in its slot, unless the client has reused that slot            *)
(* (RingInv, WorkerInv, DeviceInv).  The current block holds the tail of   *)
(* the log (CurrentInv), and a tagged slot of the read cache the bytes of  *)
(* its block as far as they have been appended, unless a read of the       *)
(* device has failed (CacheInv).  So every place logfs_read() looks at has *)
(* the bytes that were appended, and the ring is a queue of consecutive    *)
(* blocks.                                                                 *)
(***************************************************************************)
EXTENDS LogFS, TLAPS

-----------------------------------------------------------------------------
\* Quotient and remainder.
LEMMA Division ==
    ASSUME NEW a \in Nat, NEW d \in Nat \ {0}
    PROVE  /\ a \div d \in Nat /\ a % d \in 0 .. d - 1
           /\ a = ((a \div d) * d) + (a % d)
OBVIOUS

\* They are the only such numbers.
LEMMA DivisionUnique ==
    ASSUME NEW d \in Nat \ {0}, NEW q \in Nat, NEW r \in 0 .. d - 1
    PROVE  (q * d + r) \div d = q /\ (q * d + r) % d = r
<1> DEFINE a == q * d + r
           p == a \div d
           t == a % d
<1>1. q * d \in Nat
  OBVIOUS
<1>2. a \in Nat
  BY <1>1
<1>3. p \in Nat /\ t \in 0 .. d - 1 /\ a = p * d + t
  BY <1>2, Division
<1>4. ~(p < q)
  <2> SUFFICES ASSUME p < q PROVE FALSE
    OBVIOUS
  <2>1. (p + 1) * d <= q * d
    <3> HIDE DEF p
    <3>1. PICK k \in Nat : q = p + 1 + k
      <4>1. q - p - 1 \in Nat /\ q = p + 1 + (q - p - 1)
        BY <1>3
      <4> QED  BY <4>1
    <3>2. k * d \in Nat
      OBVIOUS
    <3>3. q * d = (p + 1) * d + k * d
      BY <3>1, <1>3
    <3> QED  BY <3>2, <3>3, <1>3, <1>1
  <2> QED  BY <2>1, <1>1, <1>3
<1>5. ~(q < p)
  <2> SUFFICES ASSUME q < p PROVE FALSE
    OBVIOUS
  <2>1. (q + 1) * d <= p * d
    <3> HIDE DEF p
    <3>1. PICK k \in Nat : p = q + 1 + k
      <4>1. p - q - 1 \in Nat /\ p = q + 1 + (p - q - 1)
        BY <1>3
      <4> QED  BY <4>1
    <3>2. k * d \in Nat
      OBVIOUS
    <3>3. p * d = (q + 1) * d + k * d
      BY <3>1, <1>3
    <3> QED  BY <3>2, <3>3, <1>3, <1>1
  <2> QED  BY <2>1, <1>1, <1>3
<1>6. p = q
  BY <1>3, <1>4, <1>5
<1>7. t = r
  BY <1>3, <1>6, <1>1
<1> QED  BY <1>6, <1>7
-----------------------------------------------------------------------------
\* Where block b of the log begins, and the slot of the ring it goes to.
At(b)    == b * BlkSz
Place(b) == b % WCacheBlocks

\* The parameters' types.
LEMMA Sizes ==
    /\ BlkSz \in Nat \ {0} /\ BlkSz >= 2 /\ BlkSz # 3
    /\ WCacheBlocks \in Nat \ {0} /\ RCacheBlocks \in Nat \ {0}
    /\ Index = 0 .. BlkSz - 1 /\ 0 \in Index
BY LogFSAssumption DEF Index

\* Blocks follow each other.
LEMMA AtNext ==
    ASSUME NEW b \in Nat
    PROVE  At(b) \in Nat /\ At(b + 1) = At(b) + BlkSz
BY Sizes DEF At

\* Later blocks have higher addresses.
LEMMA AtOrder ==
    ASSUME NEW a \in Nat, NEW b \in Nat, a < b
    PROVE  At(a) + BlkSz <= At(b)
<1>1. PICK k \in Nat : b = a + 1 + k
  <2>1. b - a - 1 \in Nat /\ b = a + 1 + (b - a - 1)
    OBVIOUS
  <2> QED  BY <2>1
<1>2. k * BlkSz \in Nat
  BY Sizes
<1>3. b * BlkSz = a * BlkSz + BlkSz + k * BlkSz
  BY <1>1, Sizes
<1> QED  BY <1>2, <1>3, Sizes DEF At

\* A block's address determines the block.
LEMMA AtInjective ==
    ASSUME NEW a \in Nat, NEW b \in Nat, At(a) = At(b)
    PROVE  a = b
<1>1. At(a) \in Nat /\ At(b) \in Nat
  BY AtNext
<1>2. ~(a < b) /\ ~(b < a)
  BY <1>1, AtOrder, Sizes
<1> QED  BY <1>2

\* The mark of an empty cache slot is no block's address.
LEMMA NoBlkIsNone ==
    ASSUME NEW b \in Nat
    PROVE  At(b) # NoBlk
<1>1. At(0) = 0 /\ At(1) = BlkSz /\ At(2) = 2 * BlkSz
  BY Sizes DEF At
<1>2. CASE b \in {0, 1, 2}
  BY <1>1, <1>2, Sizes DEF NoBlk
<1>3. CASE b > 2
  <2>1. At(2) + BlkSz <= At(b)
    BY <1>3, AtOrder
  <2> QED  BY <2>1, <1>1, Sizes, AtNext DEF NoBlk
<1> QED  BY <1>2, <1>3

\* The address of the block with byte i of block b.
LEMMA BlockStart ==
    ASSUME NEW b \in Nat, NEW i \in Index
    PROVE  /\ block_start(At(b) + i) = At(b)
           /\ At(b) \div BlkSz = b
<1>1. (b * BlkSz + i) % BlkSz = i
  BY Sizes, DivisionUnique
<1>2. (b * BlkSz + 0) \div BlkSz = b /\ b * BlkSz \in Nat
  BY Sizes, DivisionUnique
<1> QED  BY <1>1, <1>2, Sizes DEF At, block_start

\* Every offset is in a block.
LEMMA BlockOf ==
    ASSUME NEW o \in Nat
    PROVE  \E b \in Nat : \E i \in Index : o = At(b) + i /\ block_start(o) = At(b)
<1>1. /\ o \div BlkSz \in Nat /\ o % BlkSz \in Index
      /\ o = At(o \div BlkSz) + (o % BlkSz)
  BY Sizes, Division DEF At
<1> QED  BY <1>1, BlockStart

\* The assertions of device.c: a block that ends on the device is one of its blocks.
LEMMA OnDevice ==
    ASSUME NEW b \in Nat, At(b) + BlkSz <= DeviceBlocks * BlkSz
    PROVE  b \in 0 .. DeviceBlocks - 1
<1>1. DeviceBlocks \in Nat /\ At(DeviceBlocks) = DeviceBlocks * BlkSz
  BY LogFSAssumption DEF At
<1>2. At(b) + BlkSz <= At(DeviceBlocks) /\ At(b) \in Nat
  BY <1>1, AtNext
<1>3. ~(DeviceBlocks < b)
  <2> SUFFICES ASSUME DeviceBlocks < b PROVE FALSE
    OBVIOUS
  <2>1. At(DeviceBlocks) + BlkSz <= At(b) /\ At(DeviceBlocks) \in Nat
    BY <1>1, AtOrder, AtNext
  <2> QED  BY <1>2, <2>1, Sizes
<1>4. DeviceBlocks # b
  BY <1>2, Sizes
<1> QED  BY <1>1, <1>3, <1>4

\* The slot of the read cache a block is looked up in.
LEMMA RcIdx ==
    ASSUME NEW b \in Nat
    PROVE  rc_idx(At(b)) \in 0 .. RCacheBlocks - 1
<1>1. At(b) \div BlkSz = b
  BY BlockStart, Sizes
<1> QED  BY <1>1, Sizes, Division DEF rc_idx

\* The ring goes round.
LEMMA PlaceAfter ==
    ASSUME NEW a \in Nat, NEW k \in Nat
    PROVE  /\ Place(a) \in 0 .. WCacheBlocks - 1
           /\ (Place(a) + k) % WCacheBlocks = Place(a + k)
<1> DEFINE W == WCacheBlocks
           q == a \div W
           r == a % W
           p == (r + k) \div W
           t == (r + k) % W
<1>1. W \in Nat \ {0}
  BY Sizes
<1>2. q \in Nat /\ r \in 0 .. W - 1 /\ a = (q * W) + r
  BY <1>1, Division
<1>3. p \in Nat /\ t \in 0 .. W - 1 /\ r + k = (p * W) + t
  <2>1. r + k \in Nat
    BY <1>1, <1>2
  <2> HIDE DEF W, r
  <2> QED  BY <1>1, <2>1, Division
<1>4. a + k = ((q + p) * W) + t
  <2> HIDE DEF W, q, r, p, t
  <2>1. (q + p) * W = q * W + p * W /\ q * W \in Nat /\ p * W \in Nat
    BY <1>1, <1>2, <1>3
  <2> QED  BY <2>1, <1>1, <1>2, <1>3
<1>5. (a + k) % W = t
  <2> HIDE DEF W, q, r, p, t
  <2>1. q + p \in Nat
    BY <1>2, <1>3
  <2> QED  BY <2>1, <1>1, <1>3, <1>4, DivisionUnique
<1> QED  BY <1>2, <1>5 DEF Place

\* Fewer than WCacheBlocks consecutive blocks have different slots.
LEMMA PlaceDistinct ==
    ASSUME NEW a \in Nat, NEW b \in Nat, a < b, b < a + WCacheBlocks
    PROVE  Place(a) # Place(b)
<1> DEFINE W == WCacheBlocks
           q == a \div W
           p == b \div W
<1>1. W \in Nat \ {0}
  BY Sizes
<1>2. q \in Nat /\ a % W \in 0 .. W - 1 /\ a = (q * W) + (a % W)
  BY <1>1, Division
<1>3. p \in Nat /\ b % W \in 0 .. W - 1 /\ b = (p * W) + (b % W)
  BY <1>1, Division
<1> SUFFICES ASSUME a % W = b % W PROVE FALSE
  BY DEF Place
<1> DEFINE k == b - a
<1>4. (q * W) + k = (p * W) + 0 /\ k \in 1 .. W - 1
  <2>1. q * W \in Nat /\ p * W \in Nat
    BY <1>1, <1>2, <1>3
  <2> HIDE DEF W, q, p
  <2> QED  BY <2>1, <1>1, <1>2, <1>3 DEF W
<1>5. ((q * W) + k) % W = k /\ ((p * W) + 0) % W = 0
  <2>1. k \in 0 .. W - 1 /\ 0 \in 0 .. W - 1
    BY <1>1, <1>4
  <2>2. ((q * W) + k) % W = k
    <3> HIDE DEF W, q, k
    <3> QED  BY <1>1, <1>2, <2>1, DivisionUnique
  <2>3. ((p * W) + 0) % W = 0
    <3> HIDE DEF W, p
    <3> QED  BY <1>1, <1>3, <2>1, DivisionUnique
  <2> QED  BY <2>2, <2>3
<1> QED  BY <1>4, <1>5

\* A slot is used again WCacheBlocks blocks later.
LEMMA PlaceAgain ==
    ASSUME NEW a \in Nat
    PROVE  Place(a + WCacheBlocks) = Place(a)
<1> DEFINE W == WCacheBlocks
           q == a \div W
           r == a % W
<1>1. W \in Nat \ {0}
  BY Sizes
<1>2. q \in Nat /\ r \in 0 .. W - 1 /\ a = (q * W) + r
  BY <1>1, Division
<1>3. a + W = ((q + 1) * W) + r
  <2> HIDE DEF W, q, r
  <2> QED  BY <1>1, <1>2
<1>4. (a + W) % W = r
  <2> HIDE DEF W, q, r
  <2>1. q + 1 \in Nat
    BY <1>2
  <2> QED  BY <2>1, <1>1, <1>2, <1>3, DivisionUnique
<1> QED  BY <1>4 DEF Place
-----------------------------------------------------------------------------
(***************************************************************************)
(* The invariant.                                                          *)
(***************************************************************************)
\* Block b as a slot of the ring holds it.
Held(b) == [blk |-> At(b), buf |-> Image(b)]

Appending == mpc \in {"append", "enqueue", "space"}
Reading   == mpc \in {"read", "lookup", "devread", "readret"}
Looking   == mpc \in {"lookup", "devread"}

\* Bytes in the current block.
Fill == BlkSz - available

\* Before logfs_open() there is nothing, and both threads end together.
LifeInv ==
    /\ mpc = "unopened" => off = 0 /\ popped = 0 /\ active_blks = 0 /\ wpc = "none"
    /\ wpc = "dead" => mpc = "dead"

\* The current block follows those that were queued, and holds the end of the log.
CurrentInv ==
    mpc \notin {"unopened", "dead"} =>
        /\ off = At(Queued) + Fill
        /\ available = 0 <=> mpc \in {"enqueue", "space"}
        /\ \A x \in 0 .. Fill - 1 : cur_blk[x] = At(Queued) + x + 1

BoundInv == off + left <= MaxOff

\* Every slot of the ring holds a block that was queued, or nothing, and the last
\* WCacheBlocks blocks, whether they are still to be written or not, are in theirs.
RingInv ==
    /\ head = Place(Queued) /\ tail = Place(popped)
    /\ \A s \in 0 .. WCacheBlocks - 1 :
          wcache[s].blk = NoBlk \/ \E b \in 0 .. Queued - 1 : wcache[s] = Held(b)
    /\ \A b \in 0 .. Queued - 1 :
          Queued <= b + WCacheBlocks => wcache[Place(b)] = Held(b)

\* The worker's copy is the block it took last, whose slot keeps the address unless
\* it was refilled.
WorkerInv ==
    wpc = "write" =>
        /\ popped > 0
        /\ unit = Place(popped - 1) /\ wbuf = Image(popped - 1)
        /\ ~reused => Queued <= popped - 1 + WCacheBlocks

\* All blocks the worker took are on the device, but for the one in its hands.
DeviceInv ==
    ~reused =>
        \A b \in 0 .. popped - 1 :
            \/ b \in 0 .. DeviceBlocks - 1 /\ device[b] = Image(b)
            \/ /\ b = popped - 1 /\ wpc \in {"write", "dead"}
               /\ Queued <= b + WCacheBlocks

\* A read stays in the log and hands back what is there; while a block is looked
\* up, its cache slot has its tag, and a block the ring lacks is on the device.
ReadInv ==
    Reading =>
        /\ rd.off + rd.len <= off
        /\ Len(rd.got) <= rd.len
        /\ mpc = "readret" => Len(rd.got) = rd.len
        /\ Looking => ReadBlk # At(Queued)
        /\ mpc = "devread" => \A b \in 0 .. Queued - 1 :
               ReadBlk = At(b) => b + WCacheBlocks < Queued
        /\ ~reused /\ ~misread =>
               \A k \in 1 .. Len(rd.got) : rd.got[k] = rd.off + k

\* Every tagged slot of the read cache holds the bytes of its block, all of them or
\* those that were appended so far, but for the slot that is being filled.
IsCached(slot, s, b) ==
    /\ slot.blk = At(b) /\ s = rc_idx(At(b))
    /\ \/ b < Queued /\ slot.buf = Image(b)
       \/ /\ b = Queued /\ ~Appending
          /\ \A x \in 0 .. Fill - 1 : slot.buf[x] = At(b) + x + 1

CacheInv ==
    ~reused /\ ~misread /\ mpc # "dead" =>
        \A s \in 0 .. RCacheBlocks - 1 :
            \/ rcache[s].blk = NoBlk
            \/ Looking /\ s = ReadIdx
            \/ \E b \in 0 .. Queued : IsCached(rcache[s], s, b)

Inv == /\ TypeOK /\ LifeInv /\ CurrentInv /\ BoundInv /\ RingInv
       /\ WorkerInv /\ DeviceInv /\ ReadInv /\ CacheInv
-----------------------------------------------------------------------------
LEMMA InitInv == Init => Inv
<1> SUFFICES ASSUME Init PROVE Inv
  OBVIOUS
<1> USE Sizes DEF Init
<1>1. Blank \in Block /\ Queued = 0
  BY DEF Blank, Block, Bytes, Queued
<1>2. TypeOK
  <2>1. [blk |-> NoBlk, buf |-> Blank] \in Slot
    BY <1>1 DEF Slot, NoBlk
  <2>2. NoRead \in [off : Nat, len : Nat, got : Seq(Bytes)]
    BY DEF NoRead
  <2>3. MaxSpurious \in Nat
    BY LogFSAssumption
  <2>4. /\ wcache \in [0 .. WCacheBlocks - 1 -> Slot]
        /\ rcache \in [0 .. RCacheBlocks - 1 -> Slot]
        /\ device \in [0 .. DeviceBlocks - 1 -> Block]
    BY <1>1, <2>1
  <2>5. /\ off \in Nat /\ available \in 0 .. BlkSz
        /\ head \in 0 .. WCacheBlocks - 1 /\ tail \in 0 .. WCacheBlocks - 1
        /\ active_blks \in 0 .. WCacheBlocks /\ unit \in 0 .. WCacheBlocks - 1
        /\ left \in Nat /\ spurious \in 0 .. MaxSpurious /\ popped \in Nat
    BY <2>3
  <2>6. Blank \in Block
    BY <1>1
  <2>7. /\ done = FALSE /\ cur_blk = Blank /\ mutex = "free" /\ mpc = "unopened"
        /\ rd = NoRead /\ wpc = "none" /\ wbuf = Blank /\ status = "running"
        /\ reused = FALSE /\ misread = FALSE
    OBVIOUS
  <2> HIDE DEF Init
  <2> QED  BY <2>2, <2>4, <2>5, <2>6, <2>7 DEF TypeOK
<1>3. LifeInv /\ CurrentInv
  BY DEF LifeInv, CurrentInv
<1>4. BoundInv
  BY LogFSAssumption DEF BoundInv
<1>5. RingInv
  <2>1. Place(0) = 0
    <3>1. (0 * WCacheBlocks + 0) % WCacheBlocks = 0
      BY DivisionUnique
    <3> QED  BY <3>1 DEF Place
  <2> QED  BY <1>1, <2>1 DEF RingInv
<1>6. WorkerInv /\ DeviceInv /\ ReadInv
  BY DEF WorkerInv, DeviceInv, ReadInv, Reading
<1>7. CacheInv
  BY DEF CacheInv
<1> QED  BY <1>2, <1>3, <1>4, <1>5, <1>6, <1>7 DEF Inv

\* Ranges that most of the steps below use.
LEMMA Ranges ==
    ASSUME Inv
    PROVE  /\ Queued \in Nat /\ popped \in 0 .. Queued /\ Queued <= popped + WCacheBlocks
           /\ active_blks = Queued - popped
           /\ Fill \in 0 .. BlkSz /\ off \in Nat /\ At(Queued) \in Nat
<1>1. Queued \in Nat
  BY Sizes DEF Inv, TypeOK, Queued
<1>2. At(Queued) \in Nat
  BY <1>1, AtNext
<1>3. Fill \in 0 .. BlkSz /\ off \in Nat
  BY Sizes DEF Inv, TypeOK, Fill
<1>4. /\ popped \in 0 .. Queued /\ Queued <= popped + WCacheBlocks
      /\ active_blks = Queued - popped
  BY Sizes DEF Inv, TypeOK, Queued
<1> QED  BY <1>1, <1>2, <1>3, <1>4

\* The address write_to_queue() computes is that of the next block.
LEMMA FullBlockIs ==
    ASSUME Inv, mpc \in {"enqueue", "space"}
    PROVE  FullBlock = At(Queued) /\ available = 0 /\ Fill = BlkSz
<1>1. off = At(Queued) + Fill /\ available = 0 /\ Fill = BlkSz
  BY Sizes DEF Inv, CurrentInv, Fill
<1>2. off - 1 = At(Queued) + (BlkSz - 1) /\ BlkSz - 1 \in Index
  BY <1>1, Ranges, Sizes
<1>3. FullBlock = At(Queued)
  BY <1>2, BlockStart, Ranges DEF FullBlock
<1> QED  BY <1>1, <1>3

\* At any other time the end of the log is in the current block.
LEMMA EndOfLog ==
    ASSUME Inv, mpc \notin {"unopened", "dead", "enqueue", "space"}
    PROVE  /\ off = At(Queued) + Fill /\ Fill \in Index
           /\ block_start(off) = At(Queued)
<1>1. off = At(Queued) + Fill /\ available # 0
  BY DEF Inv, CurrentInv
<1>2. Fill \in Index
  BY <1>1, Sizes DEF Inv, TypeOK, Fill
<1> QED  BY <1>1, <1>2, BlockStart, Ranges

\* A read is in a block of the log, and in the part of it that was appended.
LEMMA ReadAt ==
    ASSUME Inv, mpc \in {"read", "lookup", "devread"}
    PROVE  \E b \in 0 .. Queued, x \in Index :
               /\ ReadPos = At(b) + x /\ ReadBlk = At(b)
               /\ ReadIdx = rc_idx(At(b)) /\ ReadIdx \in 0 .. RCacheBlocks - 1
               /\ ReadChunk \in Nat /\ x + ReadChunk <= BlkSz
               /\ Len(rd.got) + ReadChunk <= rd.len
               /\ Looking => b < Queued
               /\ b = Queued => x + ReadChunk <= Fill
<1>1. /\ rd.off \in Nat /\ rd.len \in Nat /\ Len(rd.got) \in Nat
      /\ rd.off + rd.len <= off /\ Len(rd.got) <= rd.len
  BY DEF Inv, TypeOK, ReadInv, Reading
<1>2. ReadPos \in Nat /\ ReadPos = rd.off + Len(rd.got) /\ ReadPos <= off
  BY <1>1, Ranges DEF ReadPos
<1>3. PICK b \in Nat, x \in Index : ReadPos = At(b) + x /\ ReadBlk = At(b)
  BY <1>2, BlockOf DEF ReadBlk
<1>4. off = At(Queued) + Fill /\ Fill \in Index
  BY EndOfLog
<1>5. At(b) \in Nat /\ x \in 0 .. BlkSz - 1 /\ Fill \in 0 .. BlkSz - 1
  BY <1>3, <1>4, AtNext, Sizes
<1>6. b <= Queued
  <2> SUFFICES ASSUME Queued < b PROVE FALSE
    BY <1>3, Ranges
  <2>1. At(Queued) + BlkSz <= At(b)
    BY AtOrder, Ranges
  <2> QED  BY <2>1, <1>2, <1>3, <1>4, <1>5, Ranges, Sizes
<1>7. /\ ReadChunk \in Nat /\ x + ReadChunk <= BlkSz
      /\ Len(rd.got) + ReadChunk <= rd.len
  <2>1. ReadBlk + BlkSz - ReadPos = BlkSz - x
    BY <1>3, <1>5, Sizes
  <2>2. rd.len - Len(rd.got) \in Nat
    BY <1>1
  <2>3. BlkSz - x \in Nat
    BY <1>5, Sizes
  <2>4. \/ ReadChunk = rd.len - Len(rd.got) /\ rd.len - Len(rd.got) < BlkSz - x
        \/ ReadChunk = BlkSz - x /\ ~(rd.len - Len(rd.got) < BlkSz - x)
    BY <2>1 DEF ReadChunk
  <2> QED  BY <1>1, <1>5, <2>2, <2>3, <2>4, Sizes
<1>8. Looking => b # Queued
  BY <1>3 DEF Inv, ReadInv, Reading, Looking
<1>9. b = Queued => x + ReadChunk <= Fill
  BY <1>1, <1>2, <1>3, <1>4, <1>5, <1>7
<1>10. ReadIdx = rc_idx(At(b)) /\ ReadIdx \in 0 .. RCacheBlocks - 1
  BY <1>3, RcIdx DEF ReadIdx
<1> QED  BY <1>3, <1>6, <1>7, <1>8, <1>9, <1>10, Ranges
-----------------------------------------------------------------------------
(***************************************************************************)
(* Steps that leave a part of the invariant alone.                         *)
(***************************************************************************)
\* The ring and the device are not touched, and no write begins or is completed.
LEMMA StoreKept ==
    ASSUME Inv, UNCHANGED <<ring, popped, device, worker, reused>>,
           \/ wpc' = wpc
           \/ wpc' = "dead"
           \/ wpc \notin {"write", "dead"} /\ wpc' # "write"
    PROVE  RingInv' /\ WorkerInv' /\ DeviceInv'
<1>1. /\ UNCHANGED <<head, tail, active_blks, wcache, popped, device, unit, wbuf, reused>>
      /\ Queued' = Queued
  BY DEF ring, worker, Queued
<1>2. RingInv'
  BY <1>1 DEF Inv, RingInv
<1>3. WorkerInv'
  BY <1>1 DEF Inv, WorkerInv
<1>4. DeviceInv'
  BY <1>1 DEF Inv, DeviceInv
<1> QED  BY <1>2, <1>3, <1>4

\* The client's own data are not touched, and no call begins or ends.
LEMMA LogKept ==
    ASSUME Inv, UNCHANGED <<client, reused, misread>>, Queued' = Queued,
           mpc' = "unopened" => UNCHANGED <<popped, active_blks, wpc>>,
           wpc' = "dead" => wpc = "dead" \/ mpc' = "dead",
           \/ mpc' = mpc
           \/ mpc' = "dead"
           \/ mpc \in {"enqueue", "space"} /\ mpc' \in {"enqueue", "space"}
           \/ /\ mpc \notin {"unopened", "dead"} /\ ~Appending
              /\ mpc' \notin {"unopened", "dead"} /\ ~Appending' /\ ~Looking /\ ~Reading'
    PROVE  LifeInv' /\ CurrentInv' /\ BoundInv' /\ ReadInv' /\ CacheInv'
<1>1. /\ UNCHANGED <<cur_blk, off, available, rcache, left, rd, reused, misread>>
      /\ Fill' = Fill /\ Queued' = Queued
      /\ ReadIdx' = ReadIdx /\ ReadBlk' = ReadBlk
  BY DEF client, Fill, ReadIdx, ReadBlk, ReadPos
<1>2. LifeInv'
  BY <1>1 DEF Inv, LifeInv, Appending
<1>3. CurrentInv'
  BY <1>1 DEF Inv, CurrentInv, Appending
<1>4. BoundInv'
  BY <1>1 DEF Inv, BoundInv
<1>5. ReadInv'
  BY <1>1 DEF Inv, ReadInv, Reading, Looking
<1>6. CacheInv'
  <2> SUFFICES ASSUME ~reused, ~misread, mpc' # "dead", NEW s \in 0 .. RCacheBlocks - 1,
                      rcache[s].blk # NoBlk, ~(Looking' /\ s = ReadIdx)
               PROVE  \E b \in 0 .. Queued : IsCached(rcache[s], s, b)'
    BY <1>1 DEF CacheInv
  <2>1. ~(Looking /\ s = ReadIdx) /\ mpc # "dead" /\ (Appending <=> Appending')
    BY DEF Looking, Appending, Reading
  <2>2. PICK b \in 0 .. Queued : IsCached(rcache[s], s, b)
    BY <2>1 DEF Inv, CacheInv
  <2>3. IsCached(rcache[s], s, b)'
    BY <1>1, <2>1, <2>2 DEF IsCached
  <2> QED  BY <2>3
<1> QED  BY <1>2, <1>3, <1>4, <1>5, <1>6

\* Steps that only pass control on.
LEMMA QuietInv ==
    ASSUME Inv, TypeOK', UNCHANGED <<ring, popped, device, worker, client, reused, misread>>,
           mpc' = "unopened" => wpc' = wpc,
           wpc' = "dead" => wpc = "dead" \/ mpc' = "dead",
           \/ wpc' = wpc
           \/ wpc' = "dead"
           \/ wpc \notin {"write", "dead"} /\ wpc' # "write",
           \/ mpc' = mpc
           \/ mpc' = "dead"
           \/ mpc \in {"enqueue", "space"} /\ mpc' \in {"enqueue", "space"}
           \/ /\ mpc \notin {"unopened", "dead"} /\ ~Appending
              /\ mpc' \notin {"unopened", "dead"} /\ ~Appending' /\ ~Looking /\ ~Reading'
    PROVE  Inv'
<1>1. Queued' = Queued /\ UNCHANGED <<popped, active_blks>>
  BY DEF ring, Queued
<1>2. UNCHANGED <<ring, popped, device, worker, reused>> /\ UNCHANGED <<client, reused, misread>>
  OBVIOUS
<1>3. RingInv' /\ WorkerInv' /\ DeviceInv'
  BY <1>2, StoreKept
<1>4. LifeInv' /\ CurrentInv' /\ BoundInv' /\ ReadInv' /\ CacheInv'
  BY <1>1, <1>2, LogKept
<1> QED  BY <1>3, <1>4 DEF Inv

\* A process that has ended keeps what it left.
LEMMA DieInv ==
    ASSUME Inv, NEW how \in {"exit", "fault", "assert"}, Die(how)
    PROVE  Inv'
<1>1. TypeOK'
  BY DEF Inv, TypeOK, Die, ring, client, worker
<1> QED  BY <1>1, QuietInv DEF Die

LEMMA ControlInv ==
    ASSUME Inv,
           \/ QueueFullWait \/ SetDone \/ CloseSignal \/ MutexDestroy \/ CondDestroy \/ Join
           \/ thread \/ WorkerLock \/ WorkerDecideWait \/ WorkerWait \/ WorkerRelock
           \/ WorkerGiveUp \/ SpuriousWakeup
    PROVE  Inv'
<1>1. TypeOK /\ LifeInv
  BY DEF Inv
<1> USE DEF Appending, Looking, Reading
<1>2. CASE QueueFullWait
  <2>1. TypeOK'
    BY <1>1, <1>2 DEF TypeOK, QueueFullWait, ring, client, worker
  <2> QED  BY <1>2, <2>1, QuietInv DEF QueueFullWait
<1>3. CASE SetDone
  <2>1. TypeOK'
    BY <1>1, <1>3 DEF TypeOK, SetDone, ring, client, worker
  <2> QED  BY <1>3, <2>1, QuietInv DEF SetDone
<1>4. CASE CloseSignal
  <2>1. TypeOK'
    BY <1>1, <1>4 DEF TypeOK, CloseSignal, SignalItem, ring, client, worker
  <2> QED  BY <1>4, <2>1, QuietInv DEF CloseSignal, SignalItem
<1>5. CASE MutexDestroy
  <2>1. TypeOK'
    BY <1>1, <1>5 DEF TypeOK, MutexDestroy, ring, client, worker
  <2> QED  BY <1>5, <2>1, QuietInv DEF MutexDestroy
<1>6. CASE CondDestroy
  <2>1. TypeOK'
    BY <1>1, <1>6 DEF TypeOK, CondDestroy, ring, client, worker
  <2> QED  BY <1>6, <2>1, QuietInv DEF CondDestroy
<1>7. CASE Join
  <2>1. TypeOK'
    BY <1>1, <1>7 DEF TypeOK, Join, ring, client, worker
  <2> QED  BY <1>7, <2>1, QuietInv DEF Join
<1>8. CASE thread
  <2>1. TypeOK'
    BY <1>1, <1>8 DEF TypeOK, thread, ring, client, worker
  <2> QED  BY <1>1, <1>8, <2>1, QuietInv DEF thread, LifeInv
<1>9. CASE WorkerLock
  <2>1. TypeOK'
    BY <1>1, <1>9 DEF TypeOK, WorkerLock, ring, client, worker
  <2> QED  BY <1>1, <1>9, <2>1, QuietInv DEF WorkerLock, LifeInv
<1>10. CASE WorkerDecideWait
  <2>1. TypeOK'
    BY <1>1, <1>10 DEF TypeOK, WorkerDecideWait, ring, client, worker
  <2> QED  BY <1>1, <1>10, <2>1, QuietInv DEF WorkerDecideWait, LifeInv
<1>11. CASE WorkerWait
  <2>1. TypeOK'
    BY <1>1, <1>11 DEF TypeOK, WorkerWait, ring, client, worker
  <2> QED  BY <1>1, <1>11, <2>1, QuietInv DEF WorkerWait, LifeInv
<1>12. CASE WorkerRelock
  <2>1. TypeOK'
    BY <1>1, <1>12 DEF TypeOK, WorkerRelock, ring, client, worker
  <2> QED  BY <1>1, <1>12, <2>1, QuietInv DEF WorkerRelock, LifeInv
<1>13. CASE WorkerGiveUp
  <2>1. TypeOK'
    BY <1>1, <1>13 DEF TypeOK, WorkerGiveUp, ring, client, worker
  <2> QED  BY <1>1, <1>13, <2>1, QuietInv DEF WorkerGiveUp, LifeInv
<1>14. CASE SpuriousWakeup
  <2>1. MaxSpurious \in Nat
    BY LogFSAssumption
  <2>2. TypeOK'
    BY <1>1, <1>14, <2>1 DEF TypeOK, SpuriousWakeup, ring, client, worker
  <2> QED  BY <1>1, <1>14, <2>2, QuietInv DEF SpuriousWakeup, LifeInv
<1> QED  BY <1>2, <1>3, <1>4, <1>5, <1>6, <1>7, <1>8, <1>9, <1>10, <1>11, <1>12, <1>13, <1>14
-----------------------------------------------------------------------------
(***************************************************************************)
(* The worker's steps.                                                     *)
(***************************************************************************)
LEMMA WorkerTakeInv == Inv /\ WorkerTake => Inv'
<1> SUFFICES ASSUME Inv, WorkerTake PROVE Inv'
  OBVIOUS
<1>1. /\ wpc = "test" /\ wpc' = "write" /\ active_blks > 0
      /\ unit' = tail /\ wbuf' = wcache[tail].buf /\ tail' = NextSlot(tail)
      /\ active_blks' = active_blks - 1 /\ popped' = popped + 1
      /\ mpc' = SignalSpace /\ mutex' = "free"
      /\ UNCHANGED <<done, head, wcache, device, status, spurious, reused, misread>>
      /\ UNCHANGED client
  BY DEF WorkerTake
<1>2. /\ Queued' = Queued /\ popped \in 0 .. Queued - 1 /\ Queued \in Nat
      /\ Queued <= popped + WCacheBlocks
  BY <1>1, Ranges DEF Queued
<1>3. /\ tail = Place(popped) /\ wcache[tail] = Held(popped)
      /\ tail' = Place(popped') /\ tail' \in 0 .. WCacheBlocks - 1
  BY <1>1, <1>2, PlaceAfter DEF Inv, RingInv, NextSlot
<1>4. TypeOK'
  <2>1. wbuf' \in Block
    BY <1>1 DEF Inv, TypeOK, Slot
  <2>2. active_blks' \in 0 .. WCacheBlocks /\ popped' \in Nat
    BY <1>1, Sizes DEF Inv, TypeOK
  <2> QED  BY <1>1, <1>3, <2>1, <2>2 DEF Inv, TypeOK, SignalSpace, client
<1>5. RingInv'
  BY <1>1, <1>2, <1>3 DEF Inv, RingInv
<1>6. WorkerInv'
  BY <1>1, <1>2, <1>3 DEF WorkerInv, Held
<1>7. DeviceInv'
  BY <1>1, <1>2 DEF Inv, DeviceInv
<1>8. LifeInv' /\ CurrentInv' /\ BoundInv' /\ ReadInv' /\ CacheInv'
  <2>1. mpc' = mpc \/ (mpc = "space" /\ mpc' = "enqueue")
    BY <1>1 DEF SignalSpace
  <2>2. mpc # "unopened" /\ mpc' # "unopened"
    BY <1>1 DEF Inv, LifeInv, SignalSpace
  <2> QED  BY <1>1, <1>2, <2>1, <2>2, LogKept
<1> QED  BY <1>4, <1>5, <1>6, <1>7, <1>8 DEF Inv

LEMMA DeviceWriteInv == Inv /\ device_write => Inv'
<1> SUFFICES ASSUME Inv, device_write PROVE Inv'
  OBVIOUS
<1>1. /\ wpc = "write" /\ wpc' = "loop"
      /\ wcache[unit].blk + BlkSz <= DeviceBlocks * BlkSz
      /\ device' = [device EXCEPT ![wcache[unit].blk \div BlkSz] = wbuf]
      /\ UNCHANGED <<ring, client, worker>>
      /\ UNCHANGED <<done, mutex, mpc, status, spurious, popped, reused, misread>>
  BY DEF device_write
<1>2. UNCHANGED <<head, tail, active_blks, wcache, unit, wbuf>> /\ Queued' = Queued
  BY <1>1 DEF ring, worker, Queued
<1>3. TypeOK'
  <2>1. device' \in [0 .. DeviceBlocks - 1 -> Block]
    BY <1>1 DEF Inv, TypeOK
  <2>2. UNCHANGED <<cur_blk, off, available, rcache, left, rd>>
    BY <1>1 DEF client
  <2> QED  BY <1>1, <1>2, <2>1, <2>2 DEF Inv, TypeOK
<1>4. RingInv'
  BY <1>1, <1>2 DEF Inv, RingInv
<1>5. WorkerInv'
  BY <1>1 DEF WorkerInv
<1>6. DeviceInv'
  <2> DEFINE p == popped - 1
  <2> SUFFICES ASSUME ~reused, NEW b \in 0 .. popped - 1
               PROVE  b \in 0 .. DeviceBlocks - 1 /\ device'[b] = Image(b)
    BY <1>1 DEF DeviceInv
  <2>1. p \in Nat /\ p \in 0 .. Queued - 1 /\ Queued <= p + WCacheBlocks
    BY <1>1, Ranges DEF Inv, WorkerInv
  <2>2. wbuf = Image(p) /\ wcache[unit] = Held(p)
    BY <1>1, <2>1 DEF Inv, WorkerInv, RingInv
  <2>3. wcache[unit].blk = At(p) /\ wcache[unit].blk \div BlkSz = p
    BY <2>1, <2>2, BlockStart, Sizes DEF Held
  <2>4. p \in 0 .. DeviceBlocks - 1
    BY <1>1, <2>1, <2>3, OnDevice
  <2>5. CASE b = p
    BY <1>1, <2>2, <2>3, <2>4, <2>5 DEF Inv, TypeOK
  <2>6. CASE b # p
    <3>1. b \in 0 .. DeviceBlocks - 1 /\ device[b] = Image(b)
      BY <2>6 DEF Inv, DeviceInv
    <3> QED  BY <1>1, <2>3, <2>6, <3>1 DEF Inv, TypeOK
  <2> QED  BY <2>5, <2>6
<1>7. LifeInv' /\ CurrentInv' /\ BoundInv' /\ ReadInv' /\ CacheInv'
  <2>1. mpc # "unopened"
    BY <1>1 DEF Inv, LifeInv
  <2> QED  BY <1>1, <1>2, <2>1, LogKept
<1> QED  BY <1>3, <1>4, <1>5, <1>6, <1>7 DEF Inv
-----------------------------------------------------------------------------
(***************************************************************************)
(* Opening and appending.                                                  *)
(***************************************************************************)
LEMMA OpenInv == Inv /\ logfs_open => Inv'
<1> SUFFICES ASSUME Inv, logfs_open PROVE Inv'
  OBVIOUS
<1>1. /\ mpc = "unopened" /\ cur_blk' = Zeroes /\ available' = BlkSz
      /\ mpc' = "idle" /\ wpc' = "loop"
      /\ UNCHANGED <<ring, worker>>
      /\ UNCHANGED <<done, off, rcache, left, rd, mutex, device, status, spurious,
                     popped, reused, misread>>
  BY DEF logfs_open
<1>2. /\ off = 0 /\ Queued = 0 /\ Queued' = 0 /\ Fill' = 0 /\ wpc = "none"
  BY <1>1, Sizes DEF Inv, LifeInv, Queued, Fill, ring
<1>3. TypeOK'
  <2>1. Zeroes \in Block
    BY DEF Zeroes, Block, Bytes
  <2> QED  BY <1>1, <2>1, Sizes DEF Inv, TypeOK, ring, worker
<1>4. LifeInv' /\ BoundInv'
  BY <1>1 DEF Inv, LifeInv, BoundInv
<1>5. CurrentInv'
  <2>1. At(0) = 0
    BY Sizes DEF At
  <2> QED  BY <1>1, <1>2, <2>1, Sizes DEF CurrentInv
<1>6. RingInv' /\ WorkerInv' /\ DeviceInv'
  BY <1>1, <1>2, StoreKept
<1>7. ReadInv'
  BY <1>1 DEF ReadInv, Reading
<1>8. CacheInv'
  BY <1>1, <1>2 DEF Inv, CacheInv, IsCached, Looking, Appending
<1> QED  BY <1>3, <1>4, <1>5, <1>6, <1>7, <1>8 DEF Inv

LEMMA AppendBeginInv ==
    ASSUME Inv, NEW len \in AppendLens, AppendBegin(len)
    PROVE  Inv'
<1>1. /\ mpc = "idle" /\ off + len <= MaxOff /\ len \in Nat
      /\ rcache' = Invalidated(block_start(off)) /\ left' = len /\ mpc' = "append"
      /\ UNCHANGED <<ring, worker>>
      /\ UNCHANGED <<done, cur_blk, off, available, rd, mutex, device, wpc, status,
                     spurious, popped, reused, misread>>
  BY LogFSAssumption DEF AppendBegin
<1>2. /\ Queued' = Queued /\ Fill' = Fill /\ Queued \in Nat
      /\ block_start(off) = At(Queued)
      /\ rc_idx(At(Queued)) \in 0 .. RCacheBlocks - 1
  BY <1>1, EndOfLog, Ranges, RcIdx DEF Queued, Fill, ring
<1>3. TypeOK'
  <2>1. rcache' \in [0 .. RCacheBlocks - 1 -> Slot]
    BY <1>1, <1>2 DEF Inv, TypeOK, Invalidated, Slot, NoBlk
  <2> QED  BY <1>1, <2>1 DEF Inv, TypeOK, ring, worker
<1>4. LifeInv' /\ BoundInv' /\ CurrentInv' /\ ReadInv'
  BY <1>1, <1>2 DEF Inv, LifeInv, BoundInv, CurrentInv, ReadInv, Reading
<1>5. RingInv' /\ WorkerInv' /\ DeviceInv'
  BY <1>1, StoreKept
<1>6. CacheInv'
  <2> SUFFICES ASSUME ~reused, ~misread, NEW s \in 0 .. RCacheBlocks - 1,
                      rcache'[s].blk # NoBlk
               PROVE  \E b \in 0 .. Queued : IsCached(rcache[s], s, b)'
    BY <1>1, <1>2 DEF CacheInv
  <2>1. rcache'[s] = rcache[s] /\ (s = rc_idx(At(Queued)) => rcache[s].blk # At(Queued))
    BY <1>1, <1>2 DEF Inv, TypeOK, Invalidated, Slot
  <2>2. PICK b \in 0 .. Queued : IsCached(rcache[s], s, b)
    BY <1>1, <2>1 DEF Inv, CacheInv, Looking
  <2>3. b < Queued
    BY <1>2, <2>1, <2>2 DEF IsCached
  <2> QED  BY <1>2, <2>1, <2>2, <2>3 DEF IsCached
<1> QED  BY <1>3, <1>4, <1>5, <1>6 DEF Inv

\* memcpy() of n bytes to the current block puts the next bytes of the log there.
LEMMA FilledIs ==
    ASSUME Inv, mpc = "append", NEW n \in 0 .. available
    PROVE  /\ Filled(n) \in Block
           /\ \A x \in 0 .. Fill + n - 1 : Filled(n)[x] = At(Queued) + x + 1
<1>1. /\ off = At(Queued) + Fill /\ At(Queued) \in Nat /\ Fill = BlkSz - available
      /\ available \in 0 .. BlkSz /\ cur_blk \in Block /\ off \in Nat
      /\ \A x \in 0 .. Fill - 1 : cur_blk[x] = At(Queued) + x + 1
  BY Ranges DEF Inv, TypeOK, CurrentInv, Fill
<1>2. \A x \in Index : /\ Filled(n)[x] \in Bytes
                       /\ x < Fill + n => Filled(n)[x] = At(Queued) + x + 1
  <2> SUFFICES ASSUME NEW x \in Index
               PROVE  /\ Filled(n)[x] \in Bytes
                      /\ x < Fill + n => Filled(n)[x] = At(Queued) + x + 1
    OBVIOUS
  <2>1. Filled(n)[x] = IF Fill <= x /\ x < Fill + n THEN off + (x - Fill) + 1 ELSE cur_blk[x]
    BY DEF Filled, Fill
  <2>2. CASE Fill <= x /\ x < Fill + n
    <3>1. off + (x - Fill) + 1 = At(Queued) + x + 1 /\ off + (x - Fill) + 1 \in Nat
      BY <1>1, <2>2, Sizes
    <3> QED  BY <2>1, <2>2, <3>1 DEF Bytes
  <2>3. CASE ~(Fill <= x /\ x < Fill + n)
    <3>1. cur_blk[x] \in Bytes
      BY <1>1 DEF Block
    <3>2. x < Fill + n => x \in 0 .. Fill - 1
      BY <1>1, <2>3, Sizes
    <3> QED  BY <1>1, <2>1, <2>3, <3>1, <3>2
  <2> QED  BY <2>2, <2>3
<1>3. Filled(n) \in Block
  <2>1. Filled(n) = [x \in Index |-> Filled(n)[x]]
    BY DEF Filled
  <2> QED  BY <1>2, <2>1 DEF Block
<1>4. \A x \in 0 .. Fill + n - 1 : x \in Index /\ x < Fill + n
  BY <1>1, Sizes
<1> QED  BY <1>2, <1>3, <1>4

LEMMA AppendFillInv == Inv /\ AppendFill => Inv'
<1> SUFFICES ASSUME Inv, AppendFill PROVE Inv'
  OBVIOUS
<1>1. /\ mpc = "append" /\ left >= available /\ cur_blk' = Filled(available)
      /\ off' = off + available /\ left' = left - available /\ available' = 0
      /\ mpc' = "enqueue"
      /\ UNCHANGED <<ring, worker>>
      /\ UNCHANGED <<done, rcache, rd, mutex, device, wpc, status, spurious, popped,
                     reused, misread>>
  BY DEF AppendFill
<1>2. /\ Queued' = Queued /\ Fill' = BlkSz /\ Fill = BlkSz - available
      /\ off = At(Queued) + Fill /\ available \in 0 .. BlkSz
      /\ left \in Nat /\ off \in Nat /\ At(Queued) \in Nat
  BY <1>1, Ranges, Sizes DEF Inv, TypeOK, CurrentInv, Queued, Fill, ring
<1>3. /\ cur_blk' \in Block
      /\ \A x \in 0 .. BlkSz - 1 : cur_blk'[x] = At(Queued) + x + 1
  BY <1>1, <1>2, FilledIs, Sizes
<1>4. TypeOK'
  <2>1. off' \in Nat /\ left' \in Nat /\ available' \in 0 .. BlkSz
    BY <1>1, <1>2, Sizes
  <2> QED  BY <1>1, <1>3, <2>1 DEF Inv, TypeOK, ring, worker
<1>5. LifeInv' /\ ReadInv'
  BY <1>1 DEF Inv, LifeInv, ReadInv, Reading
<1>6. BoundInv'
  BY <1>1, <1>2 DEF Inv, BoundInv
<1>7. CurrentInv'
  BY <1>1, <1>2, <1>3, Sizes DEF CurrentInv
<1>8. RingInv' /\ WorkerInv' /\ DeviceInv'
  BY <1>1, StoreKept
<1>9. CacheInv'
  BY <1>1, <1>2 DEF Inv, CacheInv, IsCached, Looking, Appending
<1> QED  BY <1>4, <1>5, <1>6, <1>7, <1>8, <1>9 DEF Inv

LEMMA AppendRestInv == Inv /\ AppendRest => Inv'
<1> SUFFICES ASSUME Inv, AppendRest PROVE Inv'
  OBVIOUS
<1>1. /\ mpc = "append" /\ left < available /\ cur_blk' = Filled(left)
      /\ off' = off + left /\ available' = available - left /\ left' = 0
      /\ mpc' = "idle"
      /\ UNCHANGED <<ring, worker>>
      /\ UNCHANGED <<done, rcache, rd, mutex, device, wpc, status, spurious, popped,
                     reused, misread>>
  BY DEF AppendRest
<1>2. /\ left \in Nat /\ off \in Nat /\ At(Queued) \in Nat /\ available \in 0 .. BlkSz
      /\ Fill = BlkSz - available /\ off = At(Queued) + Fill
  BY <1>1, Ranges DEF Inv, TypeOK, CurrentInv, Fill
<1>3. Queued' = Queued /\ Fill' = Fill + left
  BY <1>1, <1>2, Sizes DEF Queued, Fill, ring
<1>4. /\ cur_blk' \in Block
      /\ \A x \in 0 .. Fill' - 1 : cur_blk'[x] = At(Queued) + x + 1
  BY <1>1, <1>2, <1>3, FilledIs
<1>5. TypeOK'
  <2>1. off' \in Nat /\ left' \in Nat /\ available' \in 0 .. BlkSz
    BY <1>1, <1>2, Sizes
  <2> QED  BY <1>1, <1>4, <2>1 DEF Inv, TypeOK, ring, worker
<1>6. LifeInv' /\ ReadInv'
  BY <1>1 DEF Inv, LifeInv, ReadInv, Reading
<1>7. BoundInv'
  BY <1>1, <1>2 DEF Inv, BoundInv
<1>8. CurrentInv'
  BY <1>1, <1>2, <1>3, <1>4, Sizes DEF CurrentInv
<1>9. RingInv' /\ WorkerInv' /\ DeviceInv'
  BY <1>1, StoreKept
<1>10. CacheInv'
  BY <1>1, <1>3 DEF Inv, CacheInv, IsCached, Looking, Appending
<1> QED  BY <1>5, <1>6, <1>7, <1>8, <1>9, <1>10 DEF Inv

\* A full current block is the block's image.
LEMMA FullIsImage ==
    ASSUME Inv, mpc = "enqueue"
    PROVE  cur_blk = Image(Queued)
<1>1. Fill = BlkSz /\ cur_blk \in Block
  BY FullBlockIs DEF Inv, TypeOK
<1>2. \A x \in 0 .. BlkSz - 1 : cur_blk[x] = At(Queued) + x + 1
  BY <1>1 DEF Inv, CurrentInv
<1>3. cur_blk = [x \in Index |-> cur_blk[x]]
  BY <1>1 DEF Block
<1>4. \A x \in Index : cur_blk[x] = Queued * BlkSz + x + 1
  BY <1>2, Sizes DEF At
<1> QED  BY <1>3, <1>4 DEF Image

LEMMA WriteToQueueInv == Inv /\ write_to_queue => Inv'
<1> SUFFICES ASSUME Inv, write_to_queue PROVE Inv'
  OBVIOUS
<1>1. /\ mpc = "enqueue" /\ active_blks < WCacheBlocks
      /\ wcache' = [wcache EXCEPT ![head] = [blk |-> FullBlock, buf |-> cur_blk]]
      /\ head' = NextSlot(head) /\ active_blks' = active_blks + 1
      /\ wpc' = SignalItem /\ reused' = (reused \/ (wpc = "write" /\ unit = head))
      /\ cur_blk' = Zeroes /\ available' = BlkSz /\ mpc' = "append"
      /\ UNCHANGED worker
      /\ UNCHANGED <<done, tail, off, rcache, left, rd, mutex, device, status, spurious,
                     popped, misread>>
  BY DEF write_to_queue, RingHasRoom
<1>2. /\ Queued \in Nat /\ Queued' = Queued + 1 /\ Fill' = 0
      /\ active_blks = Queued - popped /\ popped \in 0 .. Queued
      /\ UNCHANGED <<unit, wbuf>>
  BY <1>1, Ranges, Sizes DEF Queued, Fill, Inv, TypeOK, worker
<1>3. /\ head = Place(Queued) /\ head \in 0 .. WCacheBlocks - 1
      /\ head' = Place(Queued + 1) /\ head' \in 0 .. WCacheBlocks - 1
  BY <1>1, <1>2, PlaceAfter DEF Inv, RingInv, NextSlot
<1>4. [blk |-> FullBlock, buf |-> cur_blk] = Held(Queued)
  BY <1>1, FullBlockIs, FullIsImage DEF Held
<1>5. TypeOK'
  <2>1. [blk |-> FullBlock, buf |-> cur_blk] \in Slot
    BY <1>1, FullBlockIs, Ranges DEF Inv, TypeOK, Slot
  <2>2. wcache' \in [0 .. WCacheBlocks - 1 -> Slot]
    BY <1>1, <2>1 DEF Inv, TypeOK
  <2>3. Zeroes \in Block
    BY DEF Zeroes, Block, Bytes
  <2>4. active_blks' \in 0 .. WCacheBlocks /\ available' \in 0 .. BlkSz
    BY <1>1, <1>2, Sizes DEF Inv, TypeOK
  <2>5. wpc' = wpc \/ wpc' = "relock"
    BY <1>1 DEF SignalItem
  <2>6. reused' \in BOOLEAN
    BY <1>1
  <2> QED  BY <1>1, <1>2, <1>3, <2>2, <2>3, <2>4, <2>5, <2>6 DEF Inv, TypeOK
<1>6. LifeInv' /\ BoundInv'
  BY <1>1 DEF Inv, LifeInv, BoundInv, SignalItem
<1>7. CurrentInv'
  <2>1. off = At(Queued) + BlkSz /\ At(Queued + 1) = At(Queued) + BlkSz
    BY <1>1, <1>2, FullBlockIs, AtNext DEF Inv, CurrentInv
  <2> QED  BY <1>1, <1>2, <2>1, AtNext, Sizes DEF CurrentInv
<1>8. RingInv'
  <2>1. \A s \in 0 .. WCacheBlocks - 1 :
           wcache'[s] = IF s = head THEN Held(Queued) ELSE wcache[s]
    BY <1>1, <1>4 DEF Inv, TypeOK
  <2>2. ASSUME NEW s \in 0 .. WCacheBlocks - 1
        PROVE  wcache'[s].blk = NoBlk \/ \E b \in 0 .. Queued' - 1 : wcache'[s] = Held(b)
    <3>1. CASE s = head
      BY <1>2, <2>1, <3>1
    <3>2. CASE s # head
      BY <1>2, <2>1, <3>2 DEF Inv, RingInv
    <3> QED  BY <3>1, <3>2
  <2>3. ASSUME NEW b \in 0 .. Queued' - 1, Queued' <= b + WCacheBlocks
        PROVE  wcache'[Place(b)] = Held(b)
    <3>1. CASE b = Queued
      BY <1>3, <2>1, <3>1
    <3>2. CASE b # Queued
      <4>1. b \in 0 .. Queued - 1 /\ Queued < b + WCacheBlocks
        BY <1>2, <2>3, <3>2, Sizes
      <4>2. Place(b) # head /\ Place(b) \in 0 .. WCacheBlocks - 1
        BY <1>2, <1>3, <4>1, PlaceDistinct, PlaceAfter
      <4>3. wcache[Place(b)] = Held(b)
        BY <1>2, <4>1, Sizes DEF Inv, RingInv
      <4> QED  BY <2>1, <4>2, <4>3
    <3> QED  BY <3>1, <3>2
  <2>4. tail' = Place(popped')
    BY <1>1 DEF Inv, RingInv
  <2> QED  BY <1>2, <1>3, <2>2, <2>3, <2>4 DEF RingInv
<1>9. (wpc' = "write" \/ wpc' = "dead") <=> (wpc = "write" \/ wpc = "dead")
  BY <1>1 DEF SignalItem
<1>10. WorkerInv'
  <2> SUFFICES ASSUME wpc' = "write"
               PROVE  /\ popped > 0
                      /\ unit = Place(popped - 1) /\ wbuf = Image(popped - 1)
                      /\ ~reused' => Queued + 1 <= popped - 1 + WCacheBlocks
    BY <1>1, <1>2 DEF WorkerInv
  <2>1. wpc = "write"
    BY <1>1 DEF SignalItem
  <2>2. /\ popped > 0 /\ unit = Place(popped - 1) /\ wbuf = Image(popped - 1)
        /\ ~reused => Queued <= popped - 1 + WCacheBlocks
    BY <2>1 DEF Inv, WorkerInv
  <2>3. ASSUME ~reused' PROVE Queued # popped - 1 + WCacheBlocks
    <3>1. unit # head
      BY <1>1, <2>1, <2>3
    <3>2. popped - 1 \in Nat
      BY <1>2, <2>2
    <3> QED  BY <1>3, <2>2, <3>1, <3>2, PlaceAgain
  <2>4. ~reused' => ~reused
    BY <1>1
  <2> QED  BY <1>2, <2>2, <2>3, <2>4, Sizes
<1>11. DeviceInv'
  <2> SUFFICES ASSUME ~reused', NEW b \in 0 .. popped - 1
               PROVE  \/ b \in 0 .. DeviceBlocks - 1 /\ device[b] = Image(b)
                      \/ /\ b = popped - 1 /\ wpc' \in {"write", "dead"}
                         /\ Queued' <= b + WCacheBlocks
    BY <1>1 DEF DeviceInv
  <2>1. ~reused /\ wpc # "dead"
    BY <1>1 DEF Inv, LifeInv
  <2>2. CASE b \in 0 .. DeviceBlocks - 1 /\ device[b] = Image(b)
    BY <2>2
  <2>3. CASE b = popped - 1 /\ wpc \in {"write", "dead"}
    <3>1. wpc' = "write"
      BY <1>1, <2>1, <2>3 DEF SignalItem
    <3> QED  BY <1>1, <1>10, <2>3, <3>1 DEF WorkerInv
  <2> QED  BY <2>1, <2>2, <2>3 DEF Inv, DeviceInv
<1>12. ReadInv'
  BY <1>1 DEF ReadInv, Reading
<1>13. CacheInv'
  <2> SUFFICES ASSUME ~reused, ~misread, NEW s \in 0 .. RCacheBlocks - 1,
                      rcache[s].blk # NoBlk
               PROVE  \E b \in 0 .. Queued + 1 : IsCached(rcache[s], s, b)'
    BY <1>1, <1>2 DEF CacheInv
  <2>1. PICK b \in 0 .. Queued : IsCached(rcache[s], s, b)
    BY <1>1 DEF Inv, CacheInv, Looking
  <2>2. b < Queued
    BY <1>1, <2>1 DEF IsCached, Appending
  <2> QED  BY <1>1, <1>2, <2>1, <2>2 DEF IsCached
<1> QED  BY <1>5, <1>6, <1>7, <1>8, <1>10, <1>11, <1>12, <1>13 DEF Inv
-----------------------------------------------------------------------------
(***************************************************************************)
(* Reading.                                                                *)
(***************************************************************************)
\* A read leaves the log itself alone.
LEMMA ReadKeeps ==
    ASSUME Inv, UNCHANGED <<cur_blk, off, available, left, ring, popped>>, wpc' = wpc,
           mpc \notin {"unopened", "dead"}, ~Appending,
           mpc' \notin {"unopened", "dead"}, ~Appending'
    PROVE  LifeInv' /\ CurrentInv' /\ BoundInv' /\ Queued' = Queued /\ Fill' = Fill
<1>1. Queued' = Queued /\ Fill' = Fill
  BY DEF Queued, Fill, ring
<1>2. LifeInv' /\ BoundInv'
  BY DEF Inv, LifeInv, BoundInv
<1>3. CurrentInv'
  BY <1>1 DEF Inv, CurrentInv, Appending
<1> QED  BY <1>1, <1>2, <1>3

LEMMA ReadBeginInv ==
    ASSUME Inv, NEW len \in ReadLens, NEW o \in 0 .. off, ReadBegin(o, len)
    PROVE  Inv'
<1>1. /\ mpc = "idle" /\ o + len <= off /\ mpc' = "read"
      /\ rd' = [off |-> o, len |-> len, got |-> <<>>]
      /\ UNCHANGED <<ring, worker>>
      /\ UNCHANGED <<done, cur_blk, off, available, rcache, left, mutex, device, wpc,
                     status, spurious, popped, reused, misread>>
      /\ len \in Nat
  BY LogFSAssumption DEF ReadBegin
<1>2. /\ LifeInv' /\ CurrentInv' /\ BoundInv' /\ Queued' = Queued /\ Fill' = Fill
  BY <1>1, ReadKeeps DEF Appending
<1>3. TypeOK'
  <2>1. rd' \in [off : Nat, len : Nat, got : Seq(Bytes)]
    BY <1>1, Ranges
  <2> QED  BY <1>1, <2>1 DEF Inv, TypeOK, ring, worker
<1>4. RingInv' /\ WorkerInv' /\ DeviceInv'
  BY <1>1, StoreKept
<1>5. ReadInv'
  BY <1>1 DEF ReadInv, Reading, Looking
<1>6. CacheInv'
  BY <1>1, <1>2 DEF Inv, CacheInv, IsCached, Looking, Appending
<1> QED  BY <1>2, <1>3, <1>4, <1>5, <1>6 DEF Inv

\* What copying from the block at hand does to the read in progress.
LEMMA CopyOutInv ==
    ASSUME Inv, mpc \in {"read", "lookup", "devread"}, NEW buf \in Block, CopyOut(buf),
           UNCHANGED <<off, reused, misread>>,
           ~reused /\ ~misread =>
               \A b \in 0 .. Queued, x \in Index :
                   ReadBlk = At(b) /\ (b < Queued \/ x < Fill) => buf[x] = At(b) + x + 1
    PROVE  /\ rd' \in [off : Nat, len : Nat, got : Seq(Bytes)]
           /\ mpc' \in {"read", "readret"}
           /\ ReadInv'
<1>1. /\ rd \in [off : Nat, len : Nat, got : Seq(Bytes)]
      /\ rd.off \in Nat /\ rd.len \in Nat /\ rd.got \in Seq(Bytes) /\ Len(rd.got) \in Nat
      /\ rd.off + rd.len <= off /\ Len(rd.got) <= rd.len
      /\ ~reused /\ ~misread => \A k \in 1 .. Len(rd.got) : rd.got[k] = rd.off + k
  BY DEF Inv, TypeOK, ReadInv, Reading
<1>2. PICK b \in 0 .. Queued, x \in Index :
          /\ ReadPos = At(b) + x /\ ReadBlk = At(b)
          /\ ReadChunk \in Nat /\ x + ReadChunk <= BlkSz
          /\ Len(rd.got) + ReadChunk <= rd.len
          /\ b = Queued => x + ReadChunk <= Fill
  BY ReadAt
<1> DEFINE new == [i \in 1 .. ReadChunk |-> buf[ReadPos - ReadBlk + i - 1]]
<1>3. At(b) \in Nat /\ x \in 0 .. BlkSz - 1 /\ b \in Nat /\ Queued \in Nat
  BY <1>2, Ranges, AtNext, Sizes
<1>4. ASSUME NEW k \in 1 .. ReadChunk
      PROVE  /\ ReadPos - ReadBlk + k - 1 = x + k - 1 /\ x + k - 1 \in Index
             /\ b < Queued \/ x + k - 1 < Fill
             /\ At(b) + (x + k - 1) + 1 = rd.off + Len(rd.got) + k
  <2>1. ReadPos = rd.off + Len(rd.got)
    BY DEF ReadPos
  <2>2. Fill \in 0 .. BlkSz /\ ReadChunk \in Nat /\ k \in 1 .. ReadChunk
    BY <1>2, Ranges
  <2>3. ReadPos - ReadBlk + k - 1 = x + k - 1
    BY <1>2, <1>3, <2>2
  <2>4. x + k - 1 \in Index
    BY <1>2, <1>3, <2>2, Sizes
  <2>5. b < Queued \/ x + k - 1 < Fill
    BY <1>2, <1>3, <2>2
  <2>6. At(b) + (x + k - 1) + 1 = rd.off + Len(rd.got) + k
    BY <1>1, <1>2, <1>3, <2>1, <2>2
  <2> QED  BY <2>3, <2>4, <2>5, <2>6
<1>5. new \in Seq(Bytes) /\ Len(new) = ReadChunk
  <2>1. \A k \in 1 .. ReadChunk : buf[ReadPos - ReadBlk + k - 1] \in Bytes
    BY <1>4 DEF Block
  <2> QED  BY <1>2, <2>1
<1>6. rd' = [rd EXCEPT !.got = rd.got \o new]
  BY DEF CopyOut
<1>7. /\ rd'.off = rd.off /\ rd'.len = rd.len /\ rd'.got = rd.got \o new
      /\ rd' \in [off : Nat, len : Nat, got : Seq(Bytes)]
      /\ Len(rd'.got) = Len(rd.got) + ReadChunk
  <2> HIDE DEF new
  <2>1. rd.got \o new \in Seq(Bytes) /\ Len(rd.got \o new) = Len(rd.got) + ReadChunk
    BY <1>1, <1>5
  <2> QED  BY <1>1, <1>6, <2>1
<1>8. mpc' = IF Len(rd.got) + ReadChunk = rd.len THEN "readret" ELSE "read"
  BY DEF CopyOut
<1>9. ASSUME ~reused, ~misread, NEW k \in 1 .. Len(rd'.got)
      PROVE  rd'.got[k] = rd'.off + k
  <2>1. CASE k <= Len(rd.got)
    <3>1. rd'.got[k] = rd.got[k]
      <4> HIDE DEF new
      <4> QED  BY <1>1, <1>5, <1>7, <2>1
    <3> QED  BY <1>1, <1>7, <1>9, <2>1, <3>1
  <2>2. CASE k > Len(rd.got)
    <3> DEFINE m == k - Len(rd.got)
    <3>1. m \in 1 .. ReadChunk /\ k = Len(rd.got) + m
      BY <1>1, <1>2, <1>7, <2>2
    <3>2. rd'.got[k] = new[m]
      <4> HIDE DEF new
      <4> QED  BY <1>1, <1>5, <1>7, <2>2
    <3> HIDE DEF m
    <3>3. new[m] = buf[x + m - 1]
      BY <1>4, <3>1
    <3>4. buf[x + m - 1] = At(b) + (x + m - 1) + 1
      BY <1>2, <1>4, <1>9, <3>1
    <3>5. At(b) + (x + m - 1) + 1 = rd.off + Len(rd.got) + m
      BY <1>4, <3>1
    <3>6. rd.off + Len(rd.got) + m = rd.off + k
      BY <1>1, <1>2, <3>1
    <3> QED  BY <1>7, <3>2, <3>3, <3>4, <3>5, <3>6
  <2>3. k \in Nat
    BY <1>1, <1>2, <1>7
  <2> QED  BY <1>1, <2>1, <2>2, <2>3
<1>10. ReadInv'
  BY <1>1, <1>2, <1>7, <1>8, <1>9 DEF ReadInv, Reading, Looking
<1> QED  BY <1>7, <1>8, <1>10

\* The block has been found, and goes to its slot of the read cache.
LEMMA FoundInv ==
    ASSUME Inv, mpc \in {"read", "lookup", "devread"}, NEW buf \in Block, CacheAndCopy(buf),
           UNCHANGED <<cur_blk, off, available, left, ring, worker>>,
           UNCHANGED <<done, mutex, device, wpc, status, spurious, popped, reused, misread>>,
           ~reused /\ ~misread =>
               \A b \in 0 .. Queued : ReadBlk = At(b) =>
                   \/ b < Queued /\ buf = Image(b)
                   \/ b = Queued /\ \A x \in 0 .. Fill - 1 : buf[x] = At(b) + x + 1
    PROVE  Inv'
<1>1. /\ CopyOut(buf)
      /\ rcache' = [rcache EXCEPT ![ReadIdx] = [blk |-> ReadBlk, buf |-> buf]]
  BY DEF CacheAndCopy
<1>2. PICK b \in 0 .. Queued :
          ReadBlk = At(b) /\ ReadIdx = rc_idx(At(b)) /\ ReadIdx \in 0 .. RCacheBlocks - 1
  BY ReadAt
<1>3. /\ rd' \in [off : Nat, len : Nat, got : Seq(Bytes)]
      /\ mpc' \in {"read", "readret"} /\ ReadInv'
  <2>1. ~reused /\ ~misread =>
            \A c \in 0 .. Queued, x \in Index :
                ReadBlk = At(c) /\ (c < Queued \/ x < Fill) => buf[x] = At(c) + x + 1
    <3> SUFFICES ASSUME ~reused, ~misread, NEW c \in 0 .. Queued, NEW x \in Index,
                        ReadBlk = At(c), c < Queued \/ x < Fill
                 PROVE  buf[x] = At(c) + x + 1
      OBVIOUS
    <3>1. CASE c < Queued /\ buf = Image(c)
      BY <3>1 DEF Image, At
    <3>2. CASE c = Queued /\ \A y \in 0 .. Fill - 1 : buf[y] = At(c) + y + 1
      <4>1. x \in 0 .. Fill - 1
        BY <3>2, Ranges, Sizes
      <4> QED  BY <3>2, <4>1
    <3> QED  BY <3>1, <3>2
  <2> QED  BY <1>1, <2>1, CopyOutInv
<1>4. LifeInv' /\ CurrentInv' /\ BoundInv' /\ Queued' = Queued /\ Fill' = Fill
  BY <1>3, ReadKeeps DEF Appending
<1>5. TypeOK'
  <2>1. At(b) \in Nat
    BY <1>2, Ranges, AtNext
  <2>2. rcache' \in [0 .. RCacheBlocks - 1 -> Slot]
    BY <1>1, <1>2, <2>1 DEF Inv, TypeOK, Slot
  <2> QED  BY <1>3, <2>2 DEF Inv, TypeOK, ring, worker
<1>6. RingInv' /\ WorkerInv' /\ DeviceInv'
  BY StoreKept
<1>7. CacheInv'
  <2> SUFFICES ASSUME ~reused, ~misread, NEW s \in 0 .. RCacheBlocks - 1,
                      rcache'[s].blk # NoBlk
               PROVE  \E c \in 0 .. Queued : IsCached(rcache[s], s, c)'
    BY <1>4 DEF CacheInv
  <2>1. ~Appending'
    BY <1>3 DEF Appending
  <2>2. CASE s = ReadIdx
    <3>1. rcache'[s] = [blk |-> At(b), buf |-> buf]
      BY <1>1, <1>2, <2>2 DEF Inv, TypeOK
    <3>2. IsCached(rcache[s], s, b)'
      BY <1>2, <1>4, <2>1, <2>2, <3>1 DEF IsCached
    <3> QED  BY <3>2
  <2>3. CASE s # ReadIdx
    <3>1. rcache'[s] = rcache[s]
      BY <1>1, <2>3 DEF Inv, TypeOK
    <3>2. PICK c \in 0 .. Queued : IsCached(rcache[s], s, c)
      BY <2>3, <3>1 DEF Inv, CacheInv
    <3>3. IsCached(rcache[s], s, c)'
      BY <1>4, <2>1, <3>1, <3>2 DEF IsCached
    <3> QED  BY <3>3
  <2> QED  BY <2>2, <2>3
<1> QED  BY <1>3, <1>4, <1>5, <1>6, <1>7 DEF Inv

\* A block found in the cache is as good as the one found elsewhere.
LEMMA ReadHitInv == Inv /\ ReadHit => Inv'
<1> SUFFICES ASSUME Inv, ReadHit PROVE Inv'
  OBVIOUS
<1>1. /\ mpc = "read" /\ rcache[ReadIdx].blk = ReadBlk /\ CopyOut(rcache[ReadIdx].buf)
      /\ UNCHANGED <<ring, worker>>
      /\ UNCHANGED <<done, cur_blk, off, available, rcache, left, mutex, device, wpc,
                     status, spurious, popped, reused, misread>>
  BY DEF ReadHit
<1>2. PICK b \in 0 .. Queued :
          ReadBlk = At(b) /\ ReadIdx = rc_idx(At(b)) /\ ReadIdx \in 0 .. RCacheBlocks - 1
  BY <1>1, ReadAt
<1>3. rcache[ReadIdx].buf \in Block /\ Queued \in Nat /\ b \in Nat
  BY <1>2, Ranges DEF Inv, TypeOK, Slot
<1>4. ~reused /\ ~misread => IsCached(rcache[ReadIdx], ReadIdx, b)
  <2> SUFFICES ASSUME ~reused, ~misread PROVE IsCached(rcache[ReadIdx], ReadIdx, b)
    OBVIOUS
  <2>1. rcache[ReadIdx].blk # NoBlk
    BY <1>1, <1>2, <1>3, NoBlkIsNone
  <2>2. PICK c \in 0 .. Queued : IsCached(rcache[ReadIdx], ReadIdx, c)
    BY <1>1, <1>2, <2>1 DEF Inv, CacheInv, Looking
  <2>3. c = b
    <3>1. At(c) = At(b) /\ c \in Nat
      BY <1>1, <1>2, <1>3, <2>2 DEF IsCached
    <3> QED  BY <1>3, <3>1, AtInjective
  <2> QED  BY <2>2, <2>3
<1>5. /\ rd' \in [off : Nat, len : Nat, got : Seq(Bytes)]
      /\ mpc' \in {"read", "readret"} /\ ReadInv'
  <2>1. ~reused /\ ~misread =>
            \A c \in 0 .. Queued, x \in Index :
                ReadBlk = At(c) /\ (c < Queued \/ x < Fill) =>
                    rcache[ReadIdx].buf[x] = At(c) + x + 1
    <3> SUFFICES ASSUME ~reused, ~misread, NEW c \in 0 .. Queued, NEW x \in Index,
                        ReadBlk = At(c), c < Queued \/ x < Fill
                 PROVE  rcache[ReadIdx].buf[x] = At(c) + x + 1
      OBVIOUS
    <3>1. c = b
      <4>1. At(c) = At(b) /\ c \in Nat
        BY <1>2, <1>3
      <4> QED  BY <1>3, <4>1, AtInjective
    <3>2. CASE b < Queued /\ rcache[ReadIdx].buf = Image(b)
      BY <3>1, <3>2 DEF Image, At
    <3>3. CASE b = Queued /\ \A y \in 0 .. Fill - 1 : rcache[ReadIdx].buf[y] = At(b) + y + 1
      <4>1. x \in 0 .. Fill - 1
        BY <3>1, <3>3, Ranges, Sizes
      <4> QED  BY <3>1, <3>3, <4>1
    <3> QED  BY <1>4, <3>2, <3>3 DEF IsCached
  <2> QED  BY <1>1, <1>3, <2>1, CopyOutInv
<1>6. LifeInv' /\ CurrentInv' /\ BoundInv' /\ Queued' = Queued /\ Fill' = Fill
  BY <1>1, <1>5, ReadKeeps DEF Appending
<1>7. TypeOK'
  BY <1>1, <1>5 DEF Inv, TypeOK, ring, worker
<1>8. RingInv' /\ WorkerInv' /\ DeviceInv'
  BY <1>1, StoreKept
<1>9. CacheInv'
  BY <1>1, <1>5, <1>6 DEF Inv, CacheInv, IsCached, Looking, Appending
<1> QED  BY <1>5, <1>6, <1>7, <1>8, <1>9 DEF Inv

LEMMA ReadCurrentInv == Inv /\ ReadCurrent => Inv'
<1> SUFFICES ASSUME Inv, ReadCurrent PROVE Inv'
  OBVIOUS
<1>1. /\ mpc = "read" /\ ReadBlk = block_start(off) /\ CacheAndCopy(cur_blk)
      /\ UNCHANGED <<cur_blk, off, available, left, ring, worker>>
      /\ UNCHANGED <<done, mutex, device, wpc, status, spurious, popped, reused, misread>>
  BY DEF ReadCurrent
<1>2. ReadBlk = At(Queued) /\ Queued \in Nat /\ cur_blk \in Block
  BY <1>1, EndOfLog, Ranges DEF Inv, TypeOK
<1>3. \A c \in 0 .. Queued : ReadBlk = At(c) =>
          c = Queued /\ \A x \in 0 .. Fill - 1 : cur_blk[x] = At(c) + x + 1
  <2> SUFFICES ASSUME NEW c \in 0 .. Queued, ReadBlk = At(c)
               PROVE  c = Queued /\ \A x \in 0 .. Fill - 1 : cur_blk[x] = At(c) + x + 1
    OBVIOUS
  <2>1. c = Queued
    <3>1. At(c) = At(Queued) /\ c \in Nat
      BY <1>2
    <3> QED  BY <1>2, <3>1, AtInjective
  <2> QED  BY <1>1, <2>1 DEF Inv, CurrentInv
<1> QED  BY <1>1, <1>2, <1>3, FoundInv

LEMMA ReadMissInv == Inv /\ ReadMiss => Inv'
<1> SUFFICES ASSUME Inv, ReadMiss PROVE Inv'
  OBVIOUS
<1>1. /\ mpc = "read" /\ ReadBlk # block_start(off) /\ mpc' = "lookup"
      /\ rcache' = [rcache EXCEPT ![ReadIdx].blk = ReadBlk]
      /\ UNCHANGED <<ring, worker>>
      /\ UNCHANGED <<done, cur_blk, off, available, left, rd, mutex, device, wpc, status,
                     spurious, popped, reused, misread>>
  BY DEF ReadMiss
<1>2. PICK b \in 0 .. Queued : ReadBlk = At(b) /\ ReadIdx \in 0 .. RCacheBlocks - 1
  BY <1>1, ReadAt
<1>3. LifeInv' /\ CurrentInv' /\ BoundInv' /\ Queued' = Queued /\ Fill' = Fill
  BY <1>1, ReadKeeps DEF Appending
<1>4. ReadBlk' = ReadBlk /\ ReadIdx' = ReadIdx
  BY <1>1 DEF ReadBlk, ReadIdx, ReadPos
<1>5. TypeOK'
  <2>1. At(b) \in Nat
    BY Ranges, AtNext
  <2>2. rcache' \in [0 .. RCacheBlocks - 1 -> Slot]
    BY <1>1, <1>2, <2>1 DEF Inv, TypeOK, Slot
  <2> QED  BY <1>1, <2>2 DEF Inv, TypeOK, ring, worker
<1>6. RingInv' /\ WorkerInv' /\ DeviceInv'
  BY <1>1, StoreKept
<1>7. ReadInv'
  BY <1>1, <1>3, <1>4, EndOfLog DEF Inv, ReadInv, Reading, Looking
<1>8. CacheInv'
  <2> SUFFICES ASSUME ~reused, ~misread, NEW s \in 0 .. RCacheBlocks - 1, s # ReadIdx,
                      rcache'[s].blk # NoBlk
               PROVE  \E c \in 0 .. Queued : IsCached(rcache[s], s, c)'
    BY <1>1, <1>3, <1>4 DEF CacheInv, Looking
  <2>1. rcache'[s] = rcache[s]
    BY <1>1 DEF Inv, TypeOK
  <2>2. PICK c \in 0 .. Queued : IsCached(rcache[s], s, c)
    BY <1>1, <2>1 DEF Inv, CacheInv
  <2>3. IsCached(rcache[s], s, c)'
    BY <1>1, <1>3, <2>1, <2>2 DEF IsCached, Appending
  <2> QED  BY <2>3
<1> QED  BY <1>3, <1>5, <1>6, <1>7, <1>8 DEF Inv

\* The first slot of the ring with the address is as good as any; a block in none is
\* one that the worker took.
LEMMA LookupInv == Inv /\ check_in_wcache => Inv'
<1> SUFFICES ASSUME Inv, check_in_wcache PROVE Inv'
  OBVIOUS
<1>1. /\ mpc = "lookup"
      /\ UNCHANGED <<cur_blk, off, available, left, ring, worker>>
      /\ UNCHANGED <<done, mutex, device, wpc, status, spurious, popped, reused, misread>>
  BY DEF check_in_wcache
<1>2. PICK b \in 0 .. Queued : ReadBlk = At(b) /\ b < Queued /\ b \in Nat
  BY <1>1, ReadAt DEF Looking
<1>3. ASSUME NEW c \in 0 .. Queued, ReadBlk = At(c) PROVE c = b
  <2>1. At(c) = At(b) /\ c \in Nat
    BY <1>2, <1>3, Ranges
  <2> QED  BY <1>2, <2>1, AtInjective
<1>4. ASSUME NEW s \in 0 .. WCacheBlocks - 1, wcache[s].blk = ReadBlk,
             CacheAndCopy(wcache[s].buf)
      PROVE  Inv'
  <2>1. wcache[s].blk # NoBlk
    BY <1>2, <1>4, NoBlkIsNone
  <2>2. PICK c \in 0 .. Queued - 1 : wcache[s] = Held(c)
    BY <2>1 DEF Inv, RingInv
  <2>3. wcache[s].buf = Image(b)
    <3>1. ReadBlk = At(c) /\ wcache[s].buf = Image(c) /\ c \in 0 .. Queued
      BY <1>4, <2>2, Ranges DEF Held
    <3> QED  BY <1>3, <3>1
  <2>4. wcache[s].buf \in Block
    BY DEF Inv, TypeOK, Slot
  <2> QED  BY <1>1, <1>2, <1>3, <1>4, <2>3, <2>4, FoundInv
<1>5. ASSUME \A s \in 0 .. WCacheBlocks - 1 : wcache[s].blk # ReadBlk,
             mpc' = "devread", UNCHANGED <<rcache, rd>>
      PROVE  Inv'
  <2>1. LifeInv' /\ CurrentInv' /\ BoundInv' /\ Queued' = Queued /\ Fill' = Fill
    BY <1>1, <1>5, ReadKeeps DEF Appending
  <2>2. ReadBlk' = ReadBlk /\ ReadIdx' = ReadIdx
    BY <1>5 DEF ReadBlk, ReadIdx, ReadPos
  <2>3. TypeOK'
    BY <1>1, <1>5 DEF Inv, TypeOK, ring, worker
  <2>4. RingInv' /\ WorkerInv' /\ DeviceInv'
    BY <1>1, StoreKept
  <2>5. ASSUME NEW c \in 0 .. Queued - 1, ReadBlk = At(c), Queued <= c + WCacheBlocks
        PROVE  FALSE
    <3>1. wcache[Place(c)] = Held(c) /\ Place(c) \in 0 .. WCacheBlocks - 1
      BY <2>5, PlaceAfter DEF Inv, RingInv
    <3> QED  BY <1>5, <2>5, <3>1 DEF Held
  <2>6. ReadInv'
    <3>1. \A c \in 0 .. Queued - 1 : ReadBlk = At(c) => c + WCacheBlocks < Queued
      BY <2>5, Ranges, Sizes
    <3> QED  BY <1>1, <1>5, <2>1, <2>2, <3>1 DEF Inv, ReadInv, Reading, Looking
  <2>7. CacheInv'
    BY <1>1, <1>5, <2>1, <2>2 DEF Inv, CacheInv, IsCached, Looking, Appending
  <2> QED  BY <2>1, <2>3, <2>4, <2>6, <2>7 DEF Inv
<1> QED  BY <1>4, <1>5 DEF check_in_wcache

LEMMA DeviceReadInv == Inv /\ device_read => Inv'
<1> SUFFICES ASSUME Inv, device_read PROVE Inv'
  OBVIOUS
<1>1. /\ mpc = "devread" /\ ReadBlk + BlkSz <= DeviceBlocks * BlkSz
      /\ CacheAndCopy(device[ReadBlk \div BlkSz])
      /\ UNCHANGED <<cur_blk, off, available, left, ring, worker>>
      /\ UNCHANGED <<done, mutex, device, wpc, status, spurious, popped, reused, misread>>
  BY DEF device_read
<1>2. PICK b \in 0 .. Queued : ReadBlk = At(b) /\ b < Queued /\ b \in Nat
  BY <1>1, ReadAt DEF Looking
<1>3. ASSUME NEW c \in 0 .. Queued, ReadBlk = At(c) PROVE c = b
  <2>1. At(c) = At(b) /\ c \in Nat
    BY <1>2, <1>3, Ranges
  <2> QED  BY <1>2, <2>1, AtInjective
<1>4. ReadBlk \div BlkSz = b /\ b \in 0 .. DeviceBlocks - 1
  BY <1>1, <1>2, BlockStart, OnDevice, Sizes
<1>5. device[b] \in Block
  BY <1>4 DEF Inv, TypeOK
<1>6. ~reused => device[b] = Image(b)
  <2>1. b + WCacheBlocks < Queued
    BY <1>1, <1>2, Ranges DEF Inv, ReadInv, Reading
  <2>2. b \in 0 .. popped - 1
    BY <1>2, <2>1, Ranges, Sizes
  <2> QED  BY <1>2, <2>1, <2>2, Sizes, Ranges DEF Inv, DeviceInv
<1> QED  BY <1>1, <1>2, <1>3, <1>4, <1>5, <1>6, FoundInv

\* The end of a read, good or bad.
LEMMA ReadEndInv ==
    ASSUME Inv, DeviceReadFails \/ ReadReturn
    PROVE  Inv'
<1>1. /\ mpc \in {"devread", "readret"} /\ rd' = NoRead /\ mpc' = "idle"
      /\ UNCHANGED <<cur_blk, off, available, left, rcache, ring, worker>>
      /\ UNCHANGED <<done, mutex, device, wpc, status, spurious, popped, reused>>
      /\ misread' \in BOOLEAN
      /\ ~misread' => mpc = "readret" /\ ~misread
  BY DEF DeviceReadFails, ReadReturn, Inv, TypeOK
<1>2. LifeInv' /\ CurrentInv' /\ BoundInv' /\ Queued' = Queued /\ Fill' = Fill
  BY <1>1, ReadKeeps DEF Appending
<1>3. TypeOK'
  <2>1. NoRead \in [off : Nat, len : Nat, got : Seq(Bytes)]
    BY DEF NoRead
  <2> QED  BY <1>1, <2>1 DEF Inv, TypeOK, ring, worker
<1>4. RingInv' /\ WorkerInv' /\ DeviceInv'
  BY <1>1, StoreKept
<1>5. ReadInv'
  BY <1>1 DEF ReadInv, Reading
<1>6. CacheInv'
  BY <1>1, <1>2 DEF Inv, CacheInv, IsCached, Looking, Appending
<1> QED  BY <1>2, <1>3, <1>4, <1>5, <1>6 DEF Inv
-----------------------------------------------------------------------------
LEMMA NextInv == Inv /\ [Next]_vars => Inv'
<1> SUFFICES ASSUME Inv, [Next]_vars PROVE Inv'
  OBVIOUS
<1>1. ASSUME ClientCall PROVE Inv'
  <2>1. ASSUME NEW len \in AppendLens, AppendBegin(len) PROVE Inv'
    BY <2>1, AppendBeginInv
  <2>2. ASSUME NEW len \in ReadLens, NEW o \in 0 .. off, ReadBegin(o, len) PROVE Inv'
    BY <2>2, ReadBeginInv
  <2> QED  BY <1>1, <2>1, <2>2, OpenInv, ControlInv DEF ClientCall
<1>2. ASSUME ClientStep PROVE Inv'
  <2>1. CASE DeviceReadAsserts
    BY <2>1, DieInv DEF DeviceReadAsserts
  <2>2. CASE QueueFullWait \/ CloseSignal \/ MutexDestroy \/ CondDestroy \/ Join
    BY <2>2, ControlInv
  <2>3. CASE AppendFill \/ AppendRest \/ write_to_queue
    BY <2>3, AppendFillInv, AppendRestInv, WriteToQueueInv
  <2>4. CASE ReadHit \/ ReadCurrent \/ ReadMiss \/ check_in_wcache
    BY <2>4, ReadHitInv, ReadCurrentInv, ReadMissInv, LookupInv
  <2>5. CASE device_read \/ DeviceReadFails \/ ReadReturn
    BY <2>5, DeviceReadInv, ReadEndInv
  <2> QED  BY <1>2, <2>1, <2>2, <2>3, <2>4, <2>5 DEF ClientStep
<1>3. ASSUME WorkerStep PROVE Inv'
  <2>1. CASE WorkerLockFails \/ DeviceWriteFails \/ DeviceWriteAsserts
    BY <2>1, DieInv DEF WorkerLockFails, DeviceWriteFails, DeviceWriteAsserts
  <2>2. CASE thread \/ WorkerLock \/ WorkerDecideWait \/ WorkerWait \/ WorkerRelock
             \/ WorkerGiveUp
    BY <2>2, ControlInv
  <2>3. CASE WorkerTake \/ device_write
    BY <2>3, WorkerTakeInv, DeviceWriteInv
  <2> QED  BY <1>3, <2>1, <2>2, <2>3 DEF WorkerStep
<1>4. ASSUME SpuriousWakeup PROVE Inv'
  BY <1>4, ControlInv
<1>5. ASSUME UNCHANGED vars PROVE Inv'
  <2>1. TypeOK'
    BY <1>5 DEF Inv, TypeOK, vars, ring, client, worker
  <2> QED  BY <1>5, <2>1, QuietInv DEF vars
<1> QED  BY <1>1, <1>2, <1>3, <1>4, <1>5 DEF Next

\* The invariant holds, whatever the two threads do, and in whatever order.
THEOREM InvHolds == Spec => []Inv
<1> QED  BY InitInv, NextInv, PTL DEF Spec

\* struct logfs and both threads' variables stay in their ranges: the ring's indices
\* and count, the bytes left in the current block, the offsets.
THEOREM TypeCorrect == Spec => []TypeOK
<1>1. Inv => TypeOK
  BY DEF Inv
<1> QED  BY <1>1, InvHolds, PTL

\* No block that logfs_append() queued is lost: write_to_queue() refills a slot only
\* when its block is on the device, or in the worker's hands (which sets reused).
THEOREM NothingLost == Spec => []NoBlockLost
<1>1. ASSUME Inv PROVE NoBlockLost
  <2> SUFFICES ASSUME ~reused, NEW b \in 0 .. Queued - 1
               PROVE  \/ b \in DOMAIN device /\ device[b] = Image(b)
                      \/ \E s \in DOMAIN wcache :
                             wcache[s] = [blk |-> b * BlkSz, buf |-> Image(b)]
    BY DEF NoBlockLost
  <2>1. b \in Nat /\ Queued \in Nat /\ popped \in 0 .. Queued
        /\ Queued <= popped + WCacheBlocks
    BY <1>1, Ranges
  <2>2. CASE Queued <= b + WCacheBlocks
    <3>1. wcache[Place(b)] = Held(b)
      BY <1>1, <2>2 DEF Inv, RingInv
    <3>2. Place(b) \in DOMAIN wcache
      BY <1>1, <2>1, PlaceAfter DEF Inv, TypeOK
    <3> QED  BY <3>1, <3>2 DEF Held, At
  <2>3. CASE ~(Queued <= b + WCacheBlocks)
    <3>1. b \in 0 .. popped - 1
      BY <2>1, <2>3, Sizes
    <3>2. b \in 0 .. DeviceBlocks - 1 /\ device[b] = Image(b)
      BY <1>1, <2>3, <3>1 DEF Inv, DeviceInv
    <3> QED  BY <1>1, <3>2 DEF Inv, TypeOK
  <2> QED  BY <2>2, <2>3
<1> QED  BY <1>1, InvHolds, PTL

\* logfs_read() hands back the bytes that were appended, from whichever of the read
\* cache, the current block, the ring and the device it took them.
THEOREM ReadCorrect == Spec => []ReadReturnsAppended
<1>1. ASSUME Inv PROVE ReadReturnsAppended
  <2> SUFFICES ASSUME ~reused, ~misread, mpc = "readret"
               PROVE  rd.got = [i \in 1 .. rd.len |-> rd.off + i]
    BY DEF ReadReturnsAppended, ReadIsRight
  <2>1. /\ rd.got \in Seq(Bytes) /\ Len(rd.got) = rd.len
        /\ \A k \in 1 .. Len(rd.got) : rd.got[k] = rd.off + k
    BY <1>1 DEF Inv, TypeOK, ReadInv, Reading
  <2>2. rd.got = [i \in 1 .. rd.len |-> rd.got[i]]
    BY <2>1
  <2> QED  BY <2>1, <2>2
<1> QED  BY <1>1, InvHolds, PTL
-----------------------------------------------------------------------------
(***************************************************************************)
(* The ring is a bounded FIFO queue.                                       *)
(***************************************************************************)
\* The slots from tail on hold the blocks that follow those that were taken.
LEMMA QueueIs ==
    Inv => [i \in 1 .. active_blks |-> wcache[(tail + i - 1) % WCacheBlocks].buf]
             = [i \in 1 .. active_blks |-> Image(popped + i - 1)]
<1> SUFFICES ASSUME Inv, NEW i \in 1 .. active_blks
             PROVE  wcache[(tail + i - 1) % WCacheBlocks].buf = Image(popped + i - 1)
  OBVIOUS
<1> DEFINE b == popped + i - 1
<1>1. active_blks \in Nat /\ popped \in Nat /\ tail = Place(popped) /\ tail \in Nat
  BY Sizes DEF Inv, TypeOK, RingInv
<1>2. i - 1 \in Nat /\ b = popped + (i - 1) /\ tail + i - 1 = Place(popped) + (i - 1)
  BY <1>1
<1>3. b \in 0 .. Queued - 1 /\ Queued <= b + WCacheBlocks
  BY <1>1, Ranges, Sizes
<1> HIDE DEF b
<1>4. (tail + i - 1) % WCacheBlocks = Place(b)
  BY <1>1, <1>2, PlaceAfter
<1>5. wcache[Place(b)] = Held(b)
  BY <1>3 DEF Inv, RingInv
<1> QED  BY <1>4, <1>5 DEF Held, b

\* Sequences are functions on their indices.
LEMMA SeqIsFunction ==
    ASSUME NEW S, NEW s \in Seq(S)
    PROVE  s = [i \in 1 .. Len(s) |-> s[i]]
  OBVIOUS

LEMMA TailIs ==
    ASSUME NEW S, NEW s \in Seq(S), s # <<>>
    PROVE  Tail(s) = [i \in 1 .. Len(s) - 1 |-> s[i + 1]]
<1>1. /\ Tail(s) \in Seq(S) /\ Len(Tail(s)) = Len(s) - 1
      /\ \A i \in 1 .. Len(Tail(s)) : Tail(s)[i] = s[i + 1]
  OBVIOUS
<1>2. Tail(s) = [i \in 1 .. Len(Tail(s)) |-> Tail(s)[i]]
  BY <1>1, SeqIsFunction
<1> QED  BY <1>1, <1>2

\* write_to_queue() and write_to_device() implement BlockQueue: blocks leave the ring
\* in the order in which they entered it, each once, and never more than
\* WCACHE_BLOCKS are in it.
THEOREM QueueCorrect == Spec => ImplementsFifo
<1> DEFINE Q  == [i \in 1 .. active_blks |-> wcache[(tail + i - 1) % WCacheBlocks].buf]
           Im == [i \in 1 .. active_blks |-> Image(popped + i - 1)]
<1>1. Inv => Q = Im
  BY QueueIs
<1>2. Inv' => (Q = Im)'
  BY <1>1, PTL
<1>3. Init => Fifo!Init
  BY DEF Init, Fifo!Init
<1>4. Inv /\ Inv' /\ [Next]_vars => [Fifo!Next]_(Fifo!vars)
  <2> SUFFICES ASSUME Inv, Inv', [Next]_vars PROVE [Fifo!Next]_(Fifo!vars)
    OBVIOUS
  <2>1. CASE write_to_queue
    <3>1. /\ mpc = "enqueue" /\ active_blks < WCacheBlocks /\ active_blks' = active_blks + 1
          /\ UNCHANGED <<popped, wbuf>>
      BY <2>1 DEF write_to_queue, RingHasRoom, worker
    <3>2. /\ active_blks \in Nat /\ popped \in Nat /\ Queued \in Nat
          /\ Queued = popped + active_blks
      BY <2>1, Ranges DEF Inv, TypeOK, Queued
    <3>3. Queued \in 0 .. MaxOff
      <4>1. off = At(Queued) + BlkSz
        BY <3>1, FullBlockIs DEF Inv, CurrentInv
      <4>2. off \in Nat /\ left \in Nat /\ off + left <= MaxOff /\ MaxOff \in Nat
        BY LogFSAssumption DEF Inv, TypeOK, BoundInv
      <4>3. Queued <= At(Queued) /\ At(Queued) \in Nat
        <5>1. PICK k \in Nat : BlkSz = 1 + k
          <6>1. BlkSz - 1 \in Nat /\ BlkSz = 1 + (BlkSz - 1)
            BY Sizes
          <6> QED  BY <6>1
        <5>2. Queued * k \in Nat /\ Queued * (1 + k) = Queued + Queued * k
          BY <3>2
        <5> QED  BY <3>2, <5>1, <5>2 DEF At
      <4> QED  BY <3>2, <4>1, <4>2, <4>3, Sizes
    <3>4. Q' = [i \in 1 .. active_blks + 1 |-> Image(popped + i - 1)]
      BY <1>2, <3>1
    <3>5. Len(Q) < WCacheBlocks /\ Q' = Append(Q, Image(Queued))
      <4> HIDE DEF Q
      <4> QED  BY <1>1, <3>1, <3>2, <3>4
    <3>6. Image(Queued) \in {Image(b) : b \in 0 .. MaxOff}
      BY <3>3
    <3>7. \E block \in {Image(b) : b \in 0 .. MaxOff} : Fifo!Put(block)
      <4>1. ASSUME NEW block, block = Image(Queued) PROVE Fifo!Put(block)
        BY <3>1, <3>5, <4>1 DEF Fifo!Put
      <4> HIDE DEF Q
      <4> QED  BY <3>6, <4>1
    <3>8. Fifo!Next
      <4> HIDE DEF Q
      <4> QED  BY <3>7 DEF Fifo!Next
    <3> QED  BY <3>8
  <2>2. CASE WorkerTake
    <3>1. /\ active_blks > 0 /\ active_blks' = active_blks - 1 /\ popped' = popped + 1
          /\ wbuf' = wcache[tail].buf
      BY <2>2 DEF WorkerTake
    <3>2. active_blks \in Nat \ {0} /\ popped \in Nat
      BY <3>1, Ranges DEF Inv, TypeOK
    <3>3. wcache[tail].buf = Image(popped)
      <4>1. popped \in 0 .. Queued - 1 /\ Queued <= popped + WCacheBlocks
        BY <3>2, Ranges
      <4>2. wcache[tail] = Held(popped)
        BY <4>1 DEF Inv, RingInv
      <4> QED  BY <4>2 DEF Held
    <3>4. Q' = [i \in 1 .. active_blks - 1 |-> Image(popped + i)]
      <4>1. Im' = [i \in 1 .. active_blks - 1 |-> Image(popped + 1 + i - 1)]
        BY <3>1
      <4>2. \A i \in 1 .. active_blks - 1 : popped + 1 + i - 1 = popped + i
        BY <3>2
      <4> QED  BY <1>2, <4>1, <4>2
    <3>5. Q # <<>> /\ Head(Q) = Image(popped) /\ Q' = Tail(Q)
      <4> HIDE DEF Q
      <4>1. Q = [i \in 1 .. active_blks |-> Image(popped + i - 1)]
        BY <1>1
      <4>2. Q \in Seq({Image(b) : b \in Nat}) /\ Len(Q) = active_blks
        BY <3>2, <4>1
      <4>3. Q[1] = Image(popped) /\ \A i \in 1 .. active_blks - 1 : Q[i + 1] = Image(popped + i)
        <5>1. Q[1] = Image(popped + 1 - 1) /\ popped + 1 - 1 = popped
          BY <3>2, <4>1
        <5>2. ASSUME NEW i \in 1 .. active_blks - 1 PROVE Q[i + 1] = Image(popped + i)
          <6>1. i + 1 \in 1 .. active_blks /\ popped + (i + 1) - 1 = popped + i
            BY <3>2
          <6> QED  BY <4>1, <6>1
        <5> QED  BY <5>1, <5>2
      <4>4. Q # <<>> /\ Head(Q) = Q[1]
        BY <3>2, <4>2
      <4>5. Tail(Q) = [i \in 1 .. active_blks - 1 |-> Q[i + 1]]
        BY <4>2, <4>4, TailIs
      <4> QED  BY <3>4, <4>3, <4>4, <4>5
    <3>6. Fifo!Take
      BY <3>1, <3>3, <3>5 DEF Fifo!Take
    <3> QED  BY <3>6 DEF Fifo!Next
  <2>3. CASE UNCHANGED <<wcache, tail, active_blks, wbuf>>
    BY <2>3 DEF Fifo!vars
  <2>4. CASE logfs_open
    BY <2>3, <2>4 DEF logfs_open, ring, worker
  <2>5. ASSUME NEW len \in AppendLens, AppendBegin(len) PROVE [Fifo!Next]_(Fifo!vars)
    BY <2>3, <2>5 DEF AppendBegin, ring, worker
  <2>6. ASSUME NEW len \in ReadLens, NEW o \in 0 .. off, ReadBegin(o, len)
        PROVE  [Fifo!Next]_(Fifo!vars)
    BY <2>3, <2>6 DEF ReadBegin, ring, worker
  <2>7. CASE SetDone \/ SpuriousWakeup \/ UNCHANGED vars
    BY <2>3, <2>7 DEF SetDone, SpuriousWakeup, vars, ring, worker
  <2>8. CASE ClientStep /\ ~write_to_queue
    BY <2>3, <2>8 DEF ClientStep, AppendFill, AppendRest, QueueFullWait, ReadHit, ReadCurrent,
       ReadMiss, check_in_wcache, device_read, DeviceReadFails, DeviceReadAsserts, ReadReturn,
       CloseSignal, MutexDestroy, CondDestroy, Join, Die, ring, worker
  <2>9. CASE WorkerStep /\ ~WorkerTake
    BY <2>3, <2>9 DEF WorkerStep, thread, WorkerLock, WorkerLockFails, WorkerDecideWait,
       WorkerWait, WorkerRelock, WorkerGiveUp, device_write, DeviceWriteFails,
       DeviceWriteAsserts, Die, ring, worker
  <2> QED  BY <2>1, <2>2, <2>4, <2>5, <2>6, <2>7, <2>8, <2>9 DEF Next, ClientCall
<1> QED  BY <1>3, <1>4, InitInv, NextInv, PTL DEF Spec, ImplementsFifo, Fifo!Spec
=============================================================================
