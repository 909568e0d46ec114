-------------------------------- MODULE Scm --------------------------------
(***************************************************************************)
(* The storage-class-memory allocator of project-3/scm.c.  A file is       *)
(* mapped (MAP_SHARED) at a fixed address; it starts with SizeInfo units   *)
(* that hold size_info[0..2], and the rest is a row of chunks, each a      *)
(* header of AddrInfo units (in use?, length) and the memory handed out.   *)
(*                                                                         *)
(* Addresses are offsets from base_addr; the pointer to the memory of the  *)
(* chunk at offset o is o + AddrInfo.  What the file holds survives the    *)
(* process, which may be killed between two writes to it; `struct scm'     *)
(* does not.  The header of a new chunk is written together with           *)
(* size_info[1]: no walk reads a header at or past size_info[1], so a kill *)
(* between the two is a kill before both.                                  *)
(***************************************************************************)
EXTENDS Integers, FiniteSets, FiniteSetsExt

CONSTANTS
    Size,      \* the size of the file
    SizeInfo,  \* SIZE_INFO_BYTES
    AddrInfo,  \* ADDR_INFO_BYTES
    Lens,      \* lengths the client asks for
    Word,      \* size_t counts modulo Word
    MaxUsed,   \* bound: scm_strdup(), which has no limit, is called up to here
    MaxKills   \* bound: times the process is killed

ASSUME ScmAssumption ==
    /\ SizeInfo \in Nat /\ AddrInfo \in Nat \ {0}
    /\ Size \in Nat /\ SizeInfo <= Size
    /\ Lens \subseteq Nat
    /\ MaxUsed \in Nat /\ Size <= MaxUsed
    /\ Word \in Nat /\ MaxUsed < Word
    /\ MaxKills \in Nat

Offsets == 0 .. MaxUsed

VARIABLES
    info,   \* in the file: size_info[0..2] as [id, used, user]
    hdr,    \* in the file: hdr[o], what a header at offset o holds
    used,   \* scm->used_bytes
    user,   \* scm->user_bytes
    pc,     \* "closed", "opening" and "account" (size_info[2] is about to be
            \* written), "idle" (no call is in progress)
    result, \* the new chunk whose length is being accounted for, or NoChunk
    live,   \* history: live[o], the length asked for, for each chunk the client owns
    owned,  \* history: allocations returned to the client and not freed
    reused, \* history: a freed chunk was handed out again
    kills   \* times the process was killed

NoChunk == -1

memory == <<info, hdr>>
vars   == <<memory, used, user, pc, result, live, owned, reused, kills>>
-----------------------------------------------------------------------------
(***************************************************************************)
(* The walk of scm_malloc() and scm_allocated_addr() along the chunks.     *)
(***************************************************************************)
After(o) == o + hdr[o].len + AddrInfo

Chunks ==
    LET From[o \in Nat] == IF o >= used THEN {} ELSE {o} \cup From[After(o)]
    IN  From[0]

\* scm_mbase(), as a pointer.
scm_mbase == IF used # 0 THEN AddrInfo ELSE 0

\* Mutant of Fits: the length is not looked at.
Fits_TooSmall(o, n) == hdr[o].inuse = 0

Fits(o, n) == hdr[o].inuse = 0 /\ hdr[o].len >= n
FirstFit(o, n) == o \in Chunks /\ Fits(o, n) /\ \A c \in Chunks : c < o => ~Fits(c, n)

\* Mutant of HasRoom: the request is not counted.
HasRoom_IgnoresRequest(n) == used <= Size

HasRoom(n) == used + n + AddrInfo <= Size

\* What the client owns without the chunk o, and with it.
Without(o) == [c \in DOMAIN live \ {o} |-> live[c]]
With(o, n) == [c \in DOMAIN live \cup {o} |-> IF c = o THEN n ELSE live[c]]
-----------------------------------------------------------------------------
Init ==
    /\ info = [id |-> FALSE, used |-> 0, user |-> 0]
    /\ hdr = [o \in Offsets |-> [inuse |-> 0, len |-> 0]]
    /\ used = 0 /\ user = 0
    /\ pc = "closed"
    /\ result = NoChunk
    /\ live = [c \in {} |-> 0]
    /\ owned = 0
    /\ reused = FALSE
    /\ kills = 0

Closed == pc' = "closed" /\ used' = 0 /\ user' = 0 /\ result' = NoChunk

\* The file is mapped.  It starts empty if it was never used or is truncated:
\* lines 119-120, size_info[0] and [1].
scm_open(truncate) ==
    /\ pc = "closed"
    /\ \/ /\ ~info.id \/ truncate
          /\ info' = [info EXCEPT !.id = TRUE, !.used = 0]
          /\ pc' = "opening"
          /\ UNCHANGED <<used, user>>
          /\ live' = [c \in {} |-> 0] /\ owned' = 0 /\ reused' = FALSE
       \/ /\ info.id /\ ~truncate
          /\ used' = info.used /\ user' = info.user
          /\ pc' = "idle"
          /\ UNCHANGED <<info, live, owned, reused>>
    /\ UNCHANGED <<hdr, result, kills>>

\* Lines 121-124: size_info[2], and what scm_open() returns.
Opened ==
    /\ pc = "opening"
    /\ info' = [info EXCEPT !.user = 0]
    /\ used' = info.used /\ user' = 0
    /\ pc' = "idle"
    /\ UNCHANGED <<hdr, result, live, owned, reused, kills>>

\* Lines 137-145: the first free chunk that is large enough.  Nothing is counted.
Reuse(n) ==
    /\ pc = "idle"
    /\ \E o \in Chunks :
         /\ FirstFit(o, n)
         /\ hdr' = [hdr EXCEPT ![o].inuse = 1]
         /\ live' = With(o, n)
    /\ owned' = owned + 1
    /\ reused' = TRUE
    /\ UNCHANGED <<info, used, user, pc, result, kills>>

\* Mutant of Extend: the header is not counted.
Extend_NoHeader(n) ==
    /\ hdr' = [hdr EXCEPT ![used] = [inuse |-> 1, len |-> n]]
    /\ user' = (user + n) % Word
    /\ used' = used + n
    /\ info' = [info EXCEPT !.used = used']
    /\ result' = used
    /\ pc' = "account"
    /\ UNCHANGED <<live, owned, reused, kills>>

\* A new chunk at the end: its header, the counters and size_info[1].
Extend(n) ==
    /\ hdr' = [hdr EXCEPT ![used] = [inuse |-> 1, len |-> n]]
    /\ user' = (user + n) % Word
    /\ used' = used + n + AddrInfo
    /\ info' = [info EXCEPT !.used = used']
    /\ result' = used
    /\ pc' = "account"
    /\ UNCHANGED <<live, owned, reused, kills>>

\* Lines 147-158.
Fresh(n) ==
    /\ pc = "idle"
    /\ \A o \in Chunks : ~Fits(o, n)
    /\ HasRoom(n)
    /\ Extend(n)

\* Lines 147-150: EXIT() ends the process.
OutOfMemory(n) ==
    /\ pc = "idle"
    /\ \A o \in Chunks : ~Fits(o, n)
    /\ ~HasRoom(n)
    /\ Closed
    /\ UNCHANGED <<memory, live, owned, reused, kills>>

\* n counts the terminating NUL.  No chunk is reused and no limit is tested.
scm_strdup(n) ==
    /\ pc = "idle"
    /\ n > 0
    /\ used + n + AddrInfo <= MaxUsed
    /\ Extend(n)

\* Line 159 (188, 229): size_info[2] follows; a new chunk goes to the client.
Account ==
    /\ pc = "account"
    /\ info' = [info EXCEPT !.user = user]
    /\ \/ /\ result # NoChunk
          /\ live' = With(result, hdr[result].len)
          /\ owned' = owned + 1
       \/ result = NoChunk /\ UNCHANGED <<live, owned>>
    /\ result' = NoChunk
    /\ pc' = "idle"
    /\ UNCHANGED <<hdr, used, user, reused, kills>>

\* Mutant of scm_free: the chunk's length is not given back.
scm_free_NotCounted(o) ==
    /\ pc = "idle"
    /\ o \in DOMAIN live
    /\ o \in Chunks
    /\ hdr' = [hdr EXCEPT ![o].inuse = 0]
    /\ live' = Without(o)
    /\ owned' = owned - 1
    /\ pc' = "account"
    /\ UNCHANGED <<info, used, user, result, reused, kills>>

\* scm_free() of a chunk; lines 226-228.
scm_free(o) ==
    /\ pc = "idle"
    /\ o \in DOMAIN live
    /\ o \in Chunks
    /\ hdr' = [hdr EXCEPT ![o].inuse = 0]
    /\ user' = (user - hdr[o].len) % Word
    /\ live' = Without(o)
    /\ owned' = owned - 1
    /\ pc' = "account"
    /\ UNCHANGED <<info, used, result, reused, kills>>

scm_close ==
    /\ pc = "idle"
    /\ info' = [id |-> TRUE, used |-> used, user |-> user]
    /\ Closed
    /\ UNCHANGED <<hdr, live, owned, reused, kills>>

\* The process is killed: what it has written to the mapping stays.
Killed ==
    /\ pc # "closed"
    /\ kills < MaxKills
    /\ kills' = kills + 1
    /\ Closed
    /\ UNCHANGED <<memory, live, owned, reused>>

Next ==
    \/ \E truncate \in BOOLEAN : scm_open(truncate)
    \/ Opened
    \/ \E n \in Lens : Reuse(n) \/ Fresh(n) \/ OutOfMemory(n) \/ scm_strdup(n)
    \/ Account
    \/ \E o \in DOMAIN live : scm_free(o)
    \/ scm_close
    \/ Killed

Spec == Init /\ [][Next]_vars
-----------------------------------------------------------------------------
\* The type invariant of the mapped file and of struct scm: no header and no
\* counter leaves its range.
TypeOK ==
    /\ info \in [id : BOOLEAN, used : Offsets, user : 0 .. Word - 1]
    /\ hdr \in [Offsets -> [inuse : {0, 1}, len : Nat]]
    /\ used \in Offsets
    /\ user \in 0 .. Word - 1
    /\ pc \in {"closed", "opening", "idle", "account"}
    /\ result \in Offsets \cup {NoChunk}
    /\ DOMAIN live \subseteq Offsets
    /\ owned \in Nat
    /\ reused \in BOOLEAN
    /\ kills \in 0 .. MaxKills

Open == pc \notin {"closed", "opening"}

\* The walk stops exactly at the end of the last chunk, so that the next header
\* is written where the next walk looks for it - also after the process was
\* killed and the file opened again.
ChunksTile ==
    Open /\ used > 0 => \E last \in Chunks : After(last) = used

\* Everything the client owns is marked in use and is as long as was asked for,
\* across close, kill and open; and no chunk is handed out while the client still
\* owns it: all that it owns are different chunks.
LiveIsKept ==
    Open =>
        /\ \A o \in DOMAIN live :
              o \in Chunks /\ hdr[o].inuse = 1 /\ hdr[o].len >= live[o]
        /\ Cardinality(DOMAIN live) = owned

InUse == {o \in Chunks : hdr[o].inuse = 1}

\* scm_utilized() is the sum of the lengths of the chunks in use.
UtilizedIsExact == pc = "idle" => user = MapThenSumSet(LAMBDA o : hdr[o].len, InUse)

\* It is so as long as no freed chunk was handed out again and no call was cut
\* short.
UtilizedUntilReuse == (~reused /\ kills = 0) => UtilizedIsExact
=============================================================================
