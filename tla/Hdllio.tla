------------------------------- MODULE Hdllio -------------------------------
(***************************************************************************)
(* Reading a disk's partitions (hdllio/hdllio.c).  A sector that holds a   *)
(* partition table is its four entries; every other sector reads as a      *)
(* table of cleared entries.  A pointer into a sector buffer is the number *)
(* of the entry, 0 for NULL.  open is a step for the master boot record,   *)
(* one for each of its entries and one for each link of the chain.         *)
(***************************************************************************)
EXTENDS Integers, Sequences, SequencesExt

CONSTANTS Drives,           \* functions from sectors to tables; what a drive may hold
          Spare,            \* the contents of a second drive
          Noise,            \* tables that memory nobody has written may hold
          MaxParts,         \* MAXIMUM_PARTS
          Geometries        \* records [size, big, small, secsize] of what ioctl answers

VARIABLES drive,            \* what the first drive holds
          device,           \* the drive that is open, <<>> for none
          ptes, partitions, extended_offset, ext_index,
          geo,              \* [heads, sectors, cylinders, units]
          hpc, hi, hp,      \* where open is, its i, and p of read_extended
          headpos,          \* the sector the descriptor is at
          hopens, misread   \* history: opens so far; a read or a seek has failed (once at most)

hdvars == <<drive, device, ptes, partitions, extended_offset, ext_index, geo, hpc, hi, hp,
            headpos, hopens, misread>>

Cleared == [sys |-> "none", start |-> 0, nr |-> 0]
NoTable == [k \in 1 .. 4 |-> Cleared]
At(d, secno) == IF secno \in DOMAIN d THEN d[secno] ELSE NoTable
IsExtended(e) == e.sys = "ext"

----------------------------------------------------------------------------
(* Geometry. *)

Answer(h, s) == [heads |-> h, sectors |-> s]
NoAnswer == Answer(-1, -1)

\* internal_get_geometry; a geometry without sectors is divided by, and so is
\* a sector shorter than 512 bytes.
DividesByZero(g) ==
    /\ g.size >= 0
    /\ LET a == IF g.big # NoAnswer THEN g.big ELSE g.small
       IN  \/ a # NoAnswer /\ a.heads * a.sectors = 0 /\ (g.big = NoAnswer \/ g.small # NoAnswer)
           \/ g.secsize \div 512 = 0

\* The user's values, which nobody sets, stand for what is 0 (here 1).
OrUser(n) == IF n = 0 THEN 1 ELSE n

Geometry(g) ==
    LET a == IF g.big # NoAnswer THEN g.big ELSE IF g.small # NoAnswer THEN g.small ELSE Answer(0, 0)
        fac == g.secsize \div 512
        full == a.heads * a.sectors # 0
        h == IF g.size >= 0 /\ ~full THEN 1 ELSE a.heads
        s == IF g.size >= 0 /\ ~full THEN g.size \div fac ELSE a.sectors
        c == IF g.size < 0 THEN 0 ELSE IF full THEN (g.size \div (h * s)) \div fac ELSE 1
    IN  [heads |-> OrUser(h), sectors |-> OrUser(s), cylinders |-> OrUser(c),
         units |-> IF OrUser(h) * OrUser(s) # 0 THEN OrUser(h) * OrUser(s) ELSE 1]

----------------------------------------------------------------------------
(* The table. *)

hdll_close == device' = <<>>

\* The entry of the master boot record with number i.
Primary(mbr, i) == [buf |-> mbr, part |-> i, ext |-> 0, offset |-> 0,
                    start_sector |-> mbr[i].start, nr |-> mbr[i].nr]

OpenFails ==
    /\ hpc = "idle"
    /\ hdll_close
    /\ UNCHANGED <<drive, ptes, partitions, extended_offset, ext_index, geo, hpc, hi, hp,
                   headpos, hopens, misread>>

hdll_open(d, g) ==
    /\ hpc = "idle" /\ hopens < 2 /\ hopens' = hopens + 1
    /\ IF DividesByZero(g) THEN hpc' = "dead" /\ UNCHANGED <<device, ptes, geo, hi, headpos>>
       ELSE /\ device' = <<d>> /\ geo' = Geometry(g)
            /\ ptes' = [i \in 1 .. 4 |-> Primary(At(d, 0), i)] \o SubSeq(ptes, 5, Len(ptes))
            /\ hpc' = "primary" /\ hi' = 1 /\ headpos' = 1
    /\ UNCHANGED <<drive, partitions, extended_offset, ext_index, hp, misread>>

\* The first sector cannot be read.
MBRFails(g) ==
    /\ hpc = "idle" /\ ~DividesByZero(g)
    /\ hdll_close /\ geo' = Geometry(g)
    /\ UNCHANGED <<drive, ptes, partitions, extended_offset, ext_index, hpc, hi, hp, headpos,
                   hopens, misread>>

NextPrimary == IF hi = 4 THEN hpc' = "idle" /\ hi' = 0 ELSE hpc' = "primary" /\ hi' = hi + 1

\* The second loop of hdll_open, and read_extended up to its loop.
ScanPrimary ==
    /\ hpc = "primary"
    /\ LET e == ptes[hi].buf[ptes[hi].part]
       IN  IF ~IsExtended(e) \/ partitions # 4
           THEN NextPrimary /\ UNCHANGED <<ptes, ext_index, hp>>
           ELSE /\ ext_index' = hi
                /\ ptes' = [ptes EXCEPT ![hi].ext = ptes[hi].part]
                /\ IF e.start = 0 THEN NextPrimary /\ UNCHANGED hp
                   ELSE hp' = e /\ hpc' = "chain" /\ UNCHANGED hi
    /\ UNCHANGED <<drive, device, partitions, extended_offset, geo, headpos, hopens, misread>>

\* The entries of a table that count, in its order.
Links(t) == SelectSeq(<<1, 2, 3, 4>>, LAMBDA k : t[k].nr # 0 /\ IsExtended(t[k]))
Data(t) == SelectSeq(<<1, 2, 3, 4>>, LAMBDA k : t[k].nr # 0 /\ t[k].sys = "data")
FirstOr0(s) == IF s = <<>> THEN 0 ELSE s[1]

\* "very strange code": without data or without a link one of the first two
\* entries stands for it.
Stand(other) == IF other # 1 THEN 1 ELSE 2

\* Mutant: every link is taken from the beginning of the table it is in.
FromHere(e) == (IF Len(ptes) > 4 THEN ptes[Len(ptes)].offset ELSE 0) + e.start

\* The sector a link leads to: all but the first are relative to the extended partition.
LinkSector(e) == extended_offset + e.start

\* read_pte and what the loop of read_extended makes of the table t.
Logical(e, t) ==
    LET found == FirstOr0(Data(t))
        link == FirstOr0(Links(t))
        part == IF found # 0 THEN found ELSE Stand(link)
    IN  [buf |-> t, part |-> part, ext |-> IF link # 0 THEN link ELSE Stand(part),
         offset |-> LinkSector(e),
         start_sector |-> LinkSector(e) + (IF found # 0 THEN t[found].start ELSE 0),
         nr |-> IF found # 0 THEN t[found].nr ELSE 0]

\* One link: t is what read_sector leaves in the buffer.
ReadLink(t) ==
    /\ hpc = "chain" /\ IsExtended(hp) /\ partitions < MaxParts
    /\ LET pe == Logical(hp, t)
       IN  /\ ptes' = SubSeq(ptes, 1, partitions) \o <<pe>> \o SubSeq(ptes, partitions + 2, Len(ptes))
           /\ hp' = t[pe.ext] /\ headpos' = pe.offset + 1
    /\ extended_offset' = IF extended_offset = 0 THEN hp.start ELSE extended_offset
    /\ partitions' = partitions + 1
    /\ UNCHANGED <<drive, device, ext_index, geo, hpc, hi, hopens>>

LinkRead == hpc = "chain" /\ ReadLink(At(device[1], LinkSector(hp))) /\ UNCHANGED misread

\* A read that fails leaves the memory as it was; a seek that fails is passed
\* over, and the read gives the sector the descriptor is at.
LinkFails ==
    /\ hpc = "chain" /\ ~misread /\ misread' = TRUE
    /\ \E t \in Noise \cup {At(device[1], headpos)} : ReadLink(t)

\* The chain is too long: its last link is cleared in the buffer.
TooMany ==
    /\ hpc = "chain" /\ IsExtended(hp) /\ partitions >= MaxParts
    /\ ptes' = [ptes EXCEPT ![partitions].buf[ptes[partitions].ext] = Cleared]
    /\ NextPrimary
    /\ UNCHANGED <<drive, device, partitions, extended_offset, ext_index, geo, hp, headpos,
                   hopens, misread>>

ChainEnds ==
    /\ hpc = "chain" /\ ~IsExtended(hp)
    /\ NextPrimary
    /\ UNCHANGED <<drive, device, ptes, partitions, extended_offset, ext_index, geo, hp, headpos,
                   hopens, misread>>

\* read_sector and read_sectors of n sectors: what they give is the caller's.
read_sectors(secno, n) ==
    /\ hpc = "idle" /\ device # <<>>
    /\ headpos' = secno + n
    /\ UNCHANGED <<drive, device, ptes, partitions, extended_offset, ext_index, geo, hpc, hi, hp,
                   hopens, misread>>

\* write_sector and write_sectors: the drive has been opened to be read.
write_sectors(secno) ==
    /\ hpc = "idle" /\ device # <<>>
    /\ headpos' = secno
    /\ UNCHANGED <<drive, device, ptes, partitions, extended_offset, ext_index, geo, hpc, hi, hp,
                   hopens, misread>>

HdInit ==
    /\ drive \in Drives /\ device = <<>> /\ ptes = <<>>
    /\ partitions = 4 /\ extended_offset = 0 /\ ext_index = 0
    /\ geo = [heads |-> 0, sectors |-> 0, cylinders |-> 0, units |-> 1]
    /\ hpc = "idle" /\ hi = 0 /\ hp = Cleared /\ headpos = 0
    /\ hopens = 0 /\ misread = FALSE

HdNext ==
    \/ \E d \in {drive, Spare}, g \in Geometries : hdll_open(d, g)
    \/ OpenFails
    \/ \E g \in Geometries : MBRFails(g)
    \/ ScanPrimary \/ LinkRead \/ LinkFails \/ TooMany \/ ChainEnds
    \/ read_sectors(10, 2)
    \/ write_sectors(10)

----------------------------------------------------------------------------
\* What hdll_list_table prints of entry i: where it starts and ends, if it is
\* not cleared.
Listed(i) ==
    LET pe == ptes[i]
        p == pe.buf[pe.part]
        start == pe.offset + p.start
    IN  IF p = Cleared THEN <<>>
        ELSE << [start |-> start, end |-> start + p.nr - (IF p.nr = 0 THEN 0 ELSE 1)] >>

list_table == FlattenSeq([k \in 1 .. partitions - 4 |-> Listed(k + 4)])

\* The chain of a drive's extended partition, as partition tables are defined.
ExtStart(d) == (CHOOSE e \in {At(d, 0)[k] : k \in 1 .. 4} : IsExtended(e)).start
ChainOf(d) ==
    LET sector[n \in 1 .. MaxParts] ==
            IF n = 1 THEN <<ExtStart(d)>>
            ELSE LET t == IF sector[n - 1] = <<>> THEN NoTable ELSE At(d, sector[n - 1][1])
                 IN  IF Links(t) = <<>> THEN <<>> ELSE <<ExtStart(d) + t[Links(t)[1]].start>>
    IN  FlattenSeq(sector)

WellFormed(d) ==
    /\ Len(Links(At(d, 0))) = 1 /\ ExtStart(d) # 0
    /\ IsInjective(ChainOf(d)) /\ Len(ChainOf(d)) + 4 <= MaxParts
    /\ \A s \in Range(ChainOf(d)) :
            /\ Len(Links(At(d, s))) <= 1 /\ Len(Data(At(d, s))) <= 1
            /\ \A k \in 1 .. 4 : At(d, s)[k].nr = 0 => At(d, s)[k] = Cleared

Expected(d) ==
    FlattenSeq([n \in DOMAIN ChainOf(d) |->
        LET t == At(d, ChainOf(d)[n])
        IN  [k \in DOMAIN Data(t) |->
                LET start == ChainOf(d)[n] + t[Data(t)[k]].start
                IN  [start |-> start, end |-> start + t[Data(t)[k]].nr - 1]]])

\* On a drive whose chain of logical partitions is as it should be the logical
\* partitions that are listed are those of the chain, in its order and in their
\* places, whatever entry of a table holds the data and whatever the link; and
\* the fields of the entries say the same.  For the first drive that is opened,
\* with every sector read: partitions and extended_offset are not set back, and
\* a later drive's chain is passed over.
LogicalsFound ==
    (hpc = "idle" /\ hopens = 1 /\ device # <<>> /\ ~misread /\ WellFormed(device[1]))
        => /\ list_table = Expected(device[1])
           /\ \A i \in 5 .. partitions :
                Listed(i) # <<>> => /\ ptes[i].start_sector = Listed(i)[1].start
                                    /\ ptes[i].nr = ptes[i].buf[ptes[i].part].nr
=============================================================================
