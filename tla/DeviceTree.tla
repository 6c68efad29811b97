------------------------------ MODULE DeviceTree ------------------------------
(***************************************************************************)
(* What the firmware says of the machine: the tags of atag.c and the       *)
(* device tree of rpifdt.c.                                                *)
(*                                                                         *)
(* A tree is a sequence of nodes in the order of the blob, which is the    *)
(* order in which every walk of the code visits them; node 1 is the root.  *)
(* A property is a sequence of cells, and empty where there is none.       *)
(***************************************************************************)
EXTENDS Integers, Sequences
Seqs == INSTANCE SequencesExt

CONSTANT Word  \* 2^32: how many addresses there are

ASSUME WordAssumption == Word \in Nat \ {0}

Devices == {"pl011", "bcm2835-gpio", "bcm2835-system-timer", "bcm2835-mmc", "bcm2835-mbox"}

(***************************************************************************)
(* Tags: records with a tag, and for ATAG_MEM a start and a size.          *)
(***************************************************************************)

\* The walk ends behind the first ATAG_NONE.
Walked(tags) ==
  SubSeq(tags, 1, CHOOSE i \in DOMAIN tags :
                    tags[i].tag = "none" /\ \A j \in 1 .. i - 1 : tags[j].tag # "none")

\* What parse_atags reports of tags at an address that is not 0.
TagRegions(tags) ==
  LET mem == SelectSeq(Walked(tags), LAMBDA t : t.tag = "mem")
  IN  [i \in DOMAIN mem |-> <<mem[i].start, mem[i].size>>]

(***************************************************************************)
(* Addresses.                                                              *)
(***************************************************************************)

\* Of the n cells of a number only the last is kept.
Cell(cells, at, n) == IF n = 0 THEN 0 ELSE cells[at + n]

\* load_ranges: a simple bus has as many cells for its parent's addresses as for
\* its own.
RangeCells(bus) == 2 * bus.addressCells + bus.sizeCells

BusRanges(t, b) ==
  LET bus == t[b]
      a == bus.addressCells
  IN  [i \in 1 .. Len(bus.ranges) \div RangeCells(bus) |->
        LET at == (i - 1) * RangeCells(bus)
        IN  [bus |-> b, child |-> Cell(bus.ranges, at, a), parent |-> Cell(bus.ranges, at + a, a),
             length |-> Cell(bus.ranges, at + 2 * a, bus.sizeCells)]]

load_ranges(t) ==
  Seqs!FlattenSeq([b \in 1 .. Len(t) |-> IF t[b].simpleBus THEN BusRanges(t, b) ELSE <<>>])

\* A range that ends at the last address has its end at 0, and holds nothing.
InRange(r, b, address) ==
  r.bus = b /\ address >= r.child /\ address < (r.child + r.length) % Word

\* Mutant: the offset into the range is lost.
TranslateToStart(sr, b, address) ==
  LET hits == {i \in DOMAIN sr : InRange(sr[i], b, address)}
  IN  IF hits = {} THEN address
      ELSE LET r == sr[CHOOSE i \in hits : \A j \in hits : i <= j] IN r.parent

\* The first range of bus b that holds the address translates it.
Translate(sr, b, address) ==
  LET hits == {i \in DOMAIN sr : InRange(sr[i], b, address)}
  IN  IF hits = {} THEN address
      ELSE LET r == sr[CHOOSE i \in hits : \A j \in hits : i <= j]
           IN  (address - r.child + r.parent) % Word

\* From the bus of a node up to the root.
get_adjusted_address(t, sr, n, address) ==
  LET Up[b \in 0 .. Len(t), a \in 0 .. Word - 1] ==
        IF b <= 1 THEN a ELSE Up[t[b].parent, Translate(sr, b, a)]
  IN  Up[t[n].parent, address]

\* The cells are those the parent says; no default stands in for them. A register
\* block is asked to be a whole number of entries.
parse_reg(t, sr, n) ==
  LET parent == t[t[n].parent]
      entry == parent.addressCells + parent.sizeCells
      At(i) == (i - 1) * entry
  IN  IF entry = 0 \/ t[n].reg = <<>> THEN <<>>
      ELSE [i \in 1 .. Len(t[n].reg) \div entry |->
             <<get_adjusted_address(t, sr, n, Cell(t[n].reg, At(i), parent.addressCells)),
               Cell(t[n].reg, At(i) + parent.addressCells, parent.sizeCells)>>]

(***************************************************************************)
(* Walks.                                                                  *)
(***************************************************************************)
NodesWhere(t, Test(_)) == SelectSeq([i \in 1 .. Len(t) - 1 |-> i + 1], LAMBDA n : Test(t[n]))

Reported(t, sr, nodes) == Seqs!FlattenSeq([i \in DOMAIN nodes |-> parse_reg(t, sr, nodes[i])])

\* What parse_node reports to mem_cb.
TreeRegions(t, sr) == Reported(t, sr, NodesWhere(t, LAMBDA node : node.deviceType = "memory"))

\* parse_dtb_compatible: the name is looked for in the first string only, and
\* anywhere in it. A node without the property is no match.
Compatible(t, device) == NodesWhere(t, LAMBDA node : device \in node.compatible)

\* Every entry of every node is handed to the callback: the last one stays.
Base(t, sr, device, old) ==
  LET found == Reported(t, sr, Compatible(t, device))
  IN  IF found = <<>> THEN old ELSE Seqs!Last(found)[1]
================================================================================
