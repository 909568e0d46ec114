-------------------------------- MODULE KvDb --------------------------------
(***************************************************************************)
(* The key-value store of project-4: kvdb.c over the record log of         *)
(* kvraw.c and the hash index of index.c.                                  *)
(*                                                                         *)
(* Every change appends a record (key, value, offset of an older record)   *)
(* to the log.  The index maps the hash of a key to the newest record with *)
(* that hash; records with one hash form a chain through their `off'.  A   *)
(* record with an empty value is a tombstone.  A sentinel record keeps     *)
(* offset 0, which ends a chain, from being the offset of a real record.   *)
(*                                                                         *)
(* Data.  Records are numbered: the offset of a record is the number of    *)
(* records before it.  Keys are compared whole, which is what the two      *)
(* comparisons of chain_lookup(), of the length and a prefix and then of   *)
(* everything, amount to.  The client's buffer is large enough for any     *)
(* value.  The log below returns what was appended, or an error.           *)
(***************************************************************************)
EXTENDS Integers, Sequences, FiniteSets

CONSTANTS
    Keys, Vals,
    NoVal,      \* the empty value
    NoKey,      \* the key of the sentinel
    HashOf,     \* hash(), of every key
    Pad,        \* 97 in grow()
    MaxLog,     \* bound: records appended after the sentinel
    MayFail     \* may a read of the log or an allocation of the index fail?

ASSUME KvDbAssumption ==
    /\ NoVal \notin Vals
    /\ NoKey \notin Keys
    /\ HashOf \in [Keys -> Nat]
    /\ Pad \in Nat \ {0}
    /\ MaxLog \in Nat
    /\ MayFail \in BOOLEAN

VARIABLES
    log,      \* the records of the log
    maps,     \* index->maps: maps[j] is [key, off]; its capacity is Len(maps)
    isize,    \* index->size
    size,     \* kvdb->size
    waste,    \* kvdb->waste
    reply,    \* the last call, the value it took or gave, and what it returned
    status    \* "closed" or "open"

vars == <<log, maps, isize, size, waste, reply, status>>
-----------------------------------------------------------------------------
(***************************************************************************)
(* index.c: open addressing with linear probing.  0 marks a free slot.     *)
(***************************************************************************)
NoSlot == 0

hash(k) == IF HashOf[k] = 0 THEN 1 ELSE HashOf[k]

\* The slot visited i steps after the home of h in a table of capacity c; slots
\* are numbered from 1.
Probe(h, i, c) == 1 + ((h + i) % c)

\* The first slot on the way of h that is free or its own, NoSlot if there is none.
Slot(m, h) ==
    LET c == Len(m)
        stops == {i \in 0 .. c - 1 : m[Probe(h, i, c)].key \in {0, h}}
    IN  IF stops = {} THEN NoSlot
        ELSE Probe(h, CHOOSE i \in stops : \A j \in stops : i <= j, c)

create(capacity) == [j \in 1 .. capacity |-> [key |-> 0, off |-> 0]]

\* update(): the table in which h has its slot.
update(m, h) == [m EXCEPT ![Slot(m, h)].key = h]

TooFull == maps = <<>> \/ 10 * isize > 7 * Len(maps)

\* Mutant of Rehashed: the entries keep their slots.
Rehashed_Copied ==
    [j \in 1 .. ((Len(maps) + Pad) * 3) \div 2 |->
        IF j <= Len(maps) THEN maps[j] ELSE [key |-> 0, off |-> 0]]

\* grow(): a larger table with the entries moved over in the order of the slots.
Rehashed ==
    LET fresh == create(((Len(maps) + Pad) * 3) \div 2)
        Move(m, e) == [m EXCEPT ![Slot(m, e.key)] = e]
        Moved[i \in 0 .. Len(maps)] ==
            IF i = 0 THEN fresh
            ELSE IF maps[i].key = 0 THEN Moved[i - 1]
            ELSE Move(Moved[i - 1], maps[i])
    IN  Moved[Len(maps)]

Grown == IF TooFull THEN Rehashed ELSE maps

\* index_lookup(): the offset for the hash of k, 0 if it has none.
index_lookup(k) ==
    LET s == Slot(maps, hash(k))
    IN  IF s = NoSlot THEN 0 ELSE maps[s].off
-----------------------------------------------------------------------------
(***************************************************************************)
(* kvraw.c: records are read and appended.                                 *)
(***************************************************************************)
At(off) == log[off + 1]

Sentinel == [key |-> NoKey, val |-> NoVal, off |-> 0]

\* Mutant of kvraw_append: the record is not linked to the older ones.
kvraw_append_Unlinked(k, v, off) ==
    log' = Append(log, [key |-> k, val |-> v, off |-> 0])

kvraw_append(k, v, off) == log' = Append(log, [key |-> k, val |-> v, off |-> off])

\* What an `off' can be: 0 or the offset of a record.
Links == {0} \cup {i - 1 : i \in DOMAIN log}

\* chain_lookup(): the newest record of key k in the chain from offset `from'.
chain_lookup(k, from) ==
    LET Find[off \in Links] ==
            IF off = 0 \/ At(off).key = k THEN off ELSE Find[At(off).off]
    IN  Find[from]

\* The value found at offset `off': NoVal if there is no record or a tombstone.
Found(off) == IF off = 0 THEN NoVal ELSE At(off).val
-----------------------------------------------------------------------------
Ok(call, k, v) == [call |-> call, key |-> k, ret |-> 0, val |-> v]
No(call, k)    == [call |-> call, key |-> k, ret |-> 1, val |-> NoVal]
Failed         == [call |-> "any", key |-> NoKey, ret |-> -1, val |-> NoVal]
Opened         == Ok("open", NoKey, NoVal)

Init ==
    /\ log = <<>>
    /\ maps = <<>> /\ isize = 0
    /\ size = 0 /\ waste = 0
    /\ reply = Opened
    /\ status = "closed"

\* Everything but the log is as in Init.
Reset ==
    /\ maps' = <<>> /\ isize' = 0
    /\ size' = 0 /\ waste' = 0
    /\ reply' = Opened

\* Mutant of kvdb_open: no sentinel, so that the first record has offset 0.
kvdb_open_NoSentinel ==
    /\ status = "closed"
    /\ log' = <<>>
    /\ status' = "open"
    /\ Reset

\* kvdb_open(): an empty store, whatever the device holds; kvraw_open() appends
\* the sentinel.
kvdb_open ==
    /\ status = "closed"
    /\ log' = <<Sentinel>>
    /\ status' = "open"
    /\ Reset

kvdb_close ==
    /\ status = "open"
    /\ log' = <<>>
    /\ status' = "closed"
    /\ Reset
-----------------------------------------------------------------------------
(***************************************************************************)
(* mutate().  index_update() makes sure that the hash of k has a slot - so *)
(* the index `ix' it leaves stays also if nothing is appended in the end.  *)
(***************************************************************************)
index_update(k) ==
    LET m == Grown
        s == Slot(m, hash(k))
    IN  [maps |-> update(m, hash(k)),
         size |-> IF m[s].key = 0 THEN isize + 1 ELSE isize,
         ref  |-> s,
         off  |-> m[s].off]

\* The value chain_lookup() finds for k.
Old(ix, k) == Found(chain_lookup(k, ix.off))

CanMutate == status = "open" /\ Len(log) <= MaxLog

\* A record is appended and *ref is its offset.
Change(ix, k, v, ans) ==
    /\ kvraw_append(k, v, ix.off)
    /\ maps' = [ix.maps EXCEPT ![ix.ref].off = Len(log)]
    /\ isize' = ix.size
    /\ reply' = ans
    /\ UNCHANGED status

\* Nothing is appended: +1, or -1 if a read of the log failed.
Refuse(ix, ans) ==
    /\ maps' = ix.maps
    /\ isize' = ix.size
    /\ reply' = ans
    /\ UNCHANGED <<log, size, waste, status>>

\* Mutant of kvdb_remove: a tombstone is removed once more.
kvdb_remove_Again(k) ==
    LET ix == index_update(k)
    IN  /\ CanMutate
        /\ \/ chain_lookup(k, ix.off) = 0 /\ Refuse(ix, No("remove", k))
           \/ /\ chain_lookup(k, ix.off) # 0
              /\ Change(ix, k, NoVal, Ok("remove", k, Old(ix, k)))
              /\ size' = size - 1
              /\ waste' = waste + 1

kvdb_remove(k) ==
    LET ix  == index_update(k)
        old == Old(ix, k)
    IN  /\ CanMutate
        /\ \/ old = NoVal /\ Refuse(ix, No("remove", k))
           \/ /\ old # NoVal
              /\ Change(ix, k, NoVal, Ok("remove", k, old))
              /\ size' = size - 1
              /\ waste' = waste + 1

kvdb_insert(k, v) ==
    LET ix  == index_update(k)
        old == Old(ix, k)
    IN  /\ CanMutate
        /\ \/ old # NoVal /\ Refuse(ix, No("insert", k))
           \/ /\ old = NoVal
              /\ Change(ix, k, v, Ok("insert", k, v))
              /\ size' = size + 1
              /\ UNCHANGED waste

kvdb_update(k, v) ==
    LET ix  == index_update(k)
        old == Old(ix, k)
    IN  /\ CanMutate
        /\ \/ old = NoVal /\ size' = size + 1 /\ UNCHANGED waste
           \/ old # NoVal /\ waste' = waste + 1 /\ UNCHANGED size
        /\ Change(ix, k, v, Ok("update", k, v))

\* Mutant of kvdb_replace: the value that is replaced is not counted.
kvdb_replace_NoWaste(k, v) ==
    LET ix  == index_update(k)
        old == Old(ix, k)
    IN  /\ CanMutate
        /\ \/ old = NoVal /\ Refuse(ix, No("replace", k))
           \/ /\ old # NoVal
              /\ Change(ix, k, v, Ok("replace", k, v))
              /\ UNCHANGED <<size, waste>>

kvdb_replace(k, v) ==
    LET ix  == index_update(k)
        old == Old(ix, k)
    IN  /\ CanMutate
        /\ \/ old = NoVal /\ Refuse(ix, No("replace", k))
           \/ /\ old # NoVal
              /\ Change(ix, k, v, Ok("replace", k, v))
              /\ waste' = waste + 1
              /\ UNCHANGED size

\* A read of the log fails in chain_lookup(): the index has changed, no more.
ReadFails(k) ==
    LET ix == index_update(k)
    IN  /\ MayFail
        /\ CanMutate
        /\ ix.off # 0
        /\ Refuse(ix, Failed)

\* create() finds no memory in grow(): the old table stays.
GrowFails ==
    /\ MayFail
    /\ status = "open"
    /\ TooFull
    /\ reply' = Failed
    /\ UNCHANGED <<log, maps, isize, size, waste, status>>

kvdb_lookup(k) ==
    /\ status = "open"
    /\ LET v == Found(chain_lookup(k, index_lookup(k)))
       IN  reply' = IF v = NoVal THEN No("lookup", k) ELSE Ok("lookup", k, v)
    /\ UNCHANGED <<log, maps, isize, size, waste, status>>

LookupFails(k) ==
    /\ MayFail
    /\ status = "open"
    /\ index_lookup(k) # 0
    /\ reply' = Failed
    /\ UNCHANGED <<log, maps, isize, size, waste, status>>

Next ==
    \/ kvdb_open \/ kvdb_close
    \/ \E k \in Keys, v \in Vals :
          kvdb_insert(k, v) \/ kvdb_update(k, v) \/ kvdb_replace(k, v)
    \/ \E k \in Keys : kvdb_remove(k) \/ kvdb_lookup(k)
    \/ \E k \in Keys : ReadFails(k) \/ LookupFails(k)
    \/ GrowFails

Spec == Init /\ [][Next]_vars
-----------------------------------------------------------------------------
(***************************************************************************)
(* Properties.                                                             *)
(***************************************************************************)
Offsets == 0 .. MaxLog
Calls   == {"any", "open", "insert", "update", "replace", "remove", "lookup"}
Reply   == [call : Calls, key : Keys \cup {NoKey}, ret : {-1, 0, 1},
            val : Vals \cup {NoVal}]

\* The type invariant of struct kvdb, struct kvraw and struct index.
TypeOK ==
    /\ log \in Seq([key : Keys \cup {NoKey}, val : Vals \cup {NoVal}, off : Offsets])
    /\ Len(log) <= MaxLog + 1
    /\ maps \in Seq([key : Nat, off : Offsets])
    /\ isize \in 0 .. Len(maps)
    /\ size \in Nat /\ waste \in Nat
    /\ reply \in Reply
    /\ status \in {"closed", "open"}

Records == {i \in 1 .. Len(log) : log[i].key # NoKey}
RecordsOf(k) == {i \in Records : log[i].key = k}

\* What the log says of key k: its last record.
Current(k) ==
    IF RecordsOf(k) = {} THEN NoVal
    ELSE log[CHOOSE i \in RecordsOf(k) : \A j \in RecordsOf(k) : j <= i].val

\* Through the index, its growth and the chains, every call returns what it
\* would return from a plain map of keys to values, and kvdb_size() is the size
\* of that map; a failed call changes nothing the client can see.
Map == INSTANCE KvMap WITH kv <- [k \in Keys |-> Current(k)]
ImplementsMap == Map!Spec

\* kvdb_waste() counts the values of the log that were overwritten or removed.
WasteIsExact ==
    waste = Cardinality({i \in Records : log[i].val # NoVal}) - size

\* The index has one slot for each hash it knows, the one a search for the hash
\* finds, and counts them; and as it grows in time there is a slot for every other
\* hash: EXIT("software") in update() is not reached.
IndexIsSound ==
    /\ \A e \in 1 .. Len(maps) : maps[e].key # 0 => Slot(maps, maps[e].key) = e
    /\ isize = Cardinality({e \in 1 .. Len(maps) : maps[e].key # 0})
    /\ status = "open" => \A k \in Keys : Slot(Grown, hash(k)) # NoSlot

\* Each chain runs from newer to older records of one hash, so that following it
\* ends, and no record is missing from the chain of its hash.
ChainsAreComplete ==
    \A j \in 1 .. Len(maps) :
        LET Chain[off \in Links] == IF off = 0 THEN {} ELSE {off} \cup Chain[At(off).off]
        IN  maps[j].key # 0 =>
              /\ Chain[maps[j].off] =
                   {i - 1 : i \in {i \in Records : hash(log[i].key) = maps[j].key}}
              /\ \A off \in Chain[maps[j].off] : At(off).off < off
=============================================================================
