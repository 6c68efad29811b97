------------------------------- MODULE MCStartup -------------------------------
(***************************************************************************)
(* Machines that differ in how they are described, in their screen, in the *)
(* blocks and partitions of their card, and in their configurations.       *)
(*                                                                         *)
(* The devices of a machine of the second kind are at 63 to 67, which its  *)
(* bus calls 126 to 130.                                                   *)
(***************************************************************************)
EXTENDS Startup

BoundedSequences(S, n) == UNION {[1 .. k -> S] : k \in 0 .. n}

Bases(first) ==
  [d \in Devices |->
     first + CASE d = "bcm2835-gpio" -> 0 [] d = "pl011" -> 1 [] d = "bcm2835-system-timer" -> 2
               [] d = "bcm2835-mmc" -> 3 [] d = "bcm2835-mbox" -> 4]

MCOldBase == Bases(32)

(***************************************************************************)
(* Trees and tags.                                                         *)
(***************************************************************************)
Node(parent, cells) ==
  [parent |-> parent, addressCells |-> cells[1], sizeCells |-> cells[2], deviceType |-> "none",
   compatible |-> {}, simpleBus |-> FALSE, ranges |-> <<>>, reg |-> <<>>]
MemoryNode(parent, reg) == [Node(parent, <<0, 0>>) EXCEPT !.deviceType = "memory", !.reg = reg]
Bus(parent, cells, ranges) == [Node(parent, cells) EXCEPT !.simpleBus = TRUE, !.ranges = ranges]
Device(parent, names, reg) == [Node(parent, <<0, 0>>) EXCEPT !.compatible = names, !.reg = reg]

\* One cell each; the registers of the pins are described twice.
FlatTree ==
  <<Node(0, <<1, 1>>), MemoryNode(1, <<0, 59>>),
    Bus(1, <<1, 1>>, <<126, 63, 16, 200, 200, 4>>),
    Device(3, {"bcm2835-system-timer"}, <<128, 1>>), Device(3, {"bcm2835-gpio"}, <<126, 1>>),
    Device(3, {"pl011"}, <<127, 1>>), Device(3, {"bcm2835-mmc"}, <<129, 1>>),
    Device(3, {"bcm2835-mbox"}, <<130, 1>>), Device(3, {"bcm2835-gpio"}, <<126, 1>>),
    Device(3, {}, <<201, 1>>)>>

\* Two cells for addresses, a bus behind a bus, memory in two regions and below
\* another node.
DeepTree ==
  <<Node(0, <<2, 1>>), MemoryNode(1, <<0, 0, 30, 0, 40, 10>>),
    Bus(1, <<2, 1>>, <<0, 126, 0, 63, 16>>),
    Bus(3, <<2, 1>>, <<0, 10, 0, 128, 3>>),
    Device(4, {"bcm2835-system-timer"}, <<0, 10, 1>>), Device(4, {"bcm2835-mmc"}, <<0, 11, 1>>),
    Device(4, {"bcm2835-mbox"}, <<0, 12, 1>>),
    Device(3, {"bcm2835-gpio"}, <<0, 126, 1>>), Device(3, {"pl011"}, <<0, 127, 1>>),
    Node(1, <<2, 1>>), MemoryNode(10, <<0, 52, 4>>)>>

Mem(start, size) == [tag |-> "mem", start |-> start, size |-> size]
Other(tag) == [tag |-> tag, start |-> 0, size |-> 0]
Tags ==
  <<Other("core"), Mem(0, 30), Other("cmdline"), Mem(40, 10), Other("none"), Mem(60, 1)>>

(***************************************************************************)
(* Cards.                                                                  *)
(***************************************************************************)
CardNames == <<"sd_0", "sd_1", "sd_2", "sd_3">>
Partition(id, kind, start, length, held) ==
  [id |-> id, kind |-> kind, start |-> start, length |-> length, files |-> held]
EmptyPartition == Partition(0, "none", 0, 0, {})
Card(blockSize, table) ==
  [present |-> TRUE, signature |-> TRUE, reliable |-> TRUE, blockSize |-> blockSize,
   names |-> CardNames, table |-> table]
NoCard == [Card(512, <<>>) EXCEPT !.present = FALSE]

FirstName == <<<<"boot">>, <<"rpi_boot.cfg">>>>
SecondName == <<<<"boot">>, <<"rpi-boot.cfg">>>>
ThirdName == <<<<"boot">>, <<"grub">>, <<"grub.cfg">>>>

\* The default device has no configuration, and the last one has the first name.
SearchedCard ==
  Card(512, <<Partition(12, "fat", 1, 3, {}), EmptyPartition,
              Partition(131, "ext2", 4, 7, {SecondName, ThirdName}), Partition(218, "nofs", 11, 2, {FirstName})>>)

\* What is called ext2 is not, and reads may fail.
UnreliableCard ==
  [Card(1024, <<Partition(131, "fat", 2, 2, {FirstName}), Partition(6, "fat", 4, 4, {ThirdName}),
                Partition(131, "ext2", 8, 6, {FirstName, SecondName}), Partition(12, "fat", 14, 2, {})>>)
     EXCEPT !.reliable = FALSE]

\* The third partition begins within a block.
MisalignedCard ==
  Card(1024, <<Partition(7, "fat", 2, 2, {FirstName}), Partition(6, "fat", 4, 4, {SecondName}),
               Partition(131, "ext2", 9, 2, {FirstName}), Partition(12, "fat", 14, 2, {FirstName})>>)

(***************************************************************************)
(* Displays, texts and paths.                                              *)
(***************************************************************************)
Screen(width, height, padding) == [width |-> width, height |-> height, padding |-> padding, refuses |-> FALSE]
FaultyScreen == [Screen(4, 4, 0) EXCEPT !.refuses = TRUE]

OneText == {<<"a", " ", "b", "\n">>}
MCTexts == BoundedSequences({"a", " ", "\t", "#", "\n"}, 6)

MCPaths == {p \in BoundedSequences(Punctuation \cup {"sd_0", "boot"}, 6) : IsPath(p)}

(***************************************************************************)
(* Machines.                                                               *)
(***************************************************************************)
Machine(tree, tags, type, base) ==
  [tree |-> tree, tags |-> tags, type |-> type, nodes |-> FlatTree, tagList |-> Tags,
   display |-> Screen(4, 4, 0), prints |-> FALSE, card |-> NoCard, texts |-> OneText, paths |-> {},
   truth |-> [bases |-> Bases(base),
              regions |-> CASE tree # "none" -> <<<<0, 59>>>>
                            [] tags # "none" -> <<<<0, 30>>, <<40, 10>>>>
                            [] OTHER -> <<<<0, 512>>>>]]

MCMachines ==
  [m \in {"first", "second", "printing", "deep", "undescribed", "texts", "paths", "zero", "small"} |->
   CASE m = "first" -> [Machine("none", "told", 3138, 32) EXCEPT !.card = SearchedCard]
     [] m = "second" -> [Machine("none", "told", 3139, 63) EXCEPT !.card = UnreliableCard]
     [] m = "printing" -> [Machine("told", "none", 3139, 63) EXCEPT
                             !.display = Screen(5, 5, 1), !.prints = TRUE]
     [] m = "deep" -> [Machine("zero", "told", 3139, 63) EXCEPT
                         !.nodes = DeepTree, !.display = Screen(0, 0, 0), !.prints = TRUE,
                         !.truth.regions = <<<<0, 30>>, <<40, 10>>, <<52, 4>>>>]
     [] m = "undescribed" -> [Machine("none", "none", 3139, 63) EXCEPT
                                !.display = FaultyScreen, !.card = MisalignedCard]
     [] m = "texts" -> [Machine("told", "told", 3139, 63) EXCEPT
                          !.card = SearchedCard, !.texts = MCTexts]
     [] m = "paths" -> [Machine("told", "told", 3139, 63) EXCEPT
                          !.card = SearchedCard, !.paths = MCPaths]
     [] m = "zero" -> [Machine("none", "zero", 3138, 32) EXCEPT
                         !.display = Screen(0, 4, 0), !.card = [SearchedCard EXCEPT !.signature = FALSE]]
     [] m = "small" -> [Machine("none", "told", 3138, 32) EXCEPT
                          !.card = [SearchedCard EXCEPT !.blockSize = 256]]]
================================================================================
