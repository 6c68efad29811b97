------------------------------ MODULE MCMultiboot ------------------------------
(***************************************************************************)
(* Configurations over two devices: an a.out kernel and an ELF kernel that *)
(* is linked high, a plain ELF kernel, a flat one, one for Linux, and      *)
(* modules of one and two pages, in six or seven MiB of memory.            *)
(***************************************************************************)
EXTENDS Multiboot

File(header, kind, info, pages) ==
  [header |-> header, kind |-> kind, memory |-> info, pages |-> pages,
   load |-> 0, bss |-> 0, toEnd |-> FALSE, entry |-> 0, segments |-> <<>>, sections |-> <<>>]

Segment(part, virt, phys, pages, bss) ==
  [kind |-> "segment", part |-> part, virt |-> virt, phys |-> phys, pages |-> pages, bss |-> bss]
Section(part, pages) ==
  [kind |-> "section", part |-> part, virt |-> 0, phys |-> 0, pages |-> pages, bss |-> 0]

AoutKernel == [File("aout", "flat", TRUE, 1) EXCEPT !.load = 2, !.bss = 1, !.entry = 2]
LowKernel == [File("aout", "flat", FALSE, 1) EXCEPT !.load = 0, !.entry = 0]
ToEndKernel == [AoutKernel EXCEPT !.toEnd = TRUE, !.bss = 0]
HighKernel ==
  [File("elf", "elf", FALSE, 1) EXCEPT
     !.entry = 22,
     !.segments = <<Segment("text", 21, 1, 2, 0), Segment("data", 24, 4, 0, 1)>>,
     !.sections = <<Section("symbols", 1), Section("strings", 2)>>]
PlainKernel ==
  [File("none", "elf", FALSE, 1) EXCEPT
     !.entry = 5, !.segments = <<Segment("text", 5, 5, 1, 0)>>]
NotElf == File("elf", "flat", FALSE, 1)
LinuxKernel == File("none", "linux", FALSE, 1)

MCFiles ==
  [k \in {<<"a", "aout">>, <<"a", "high">>, <<"a", "plain">>, <<"a", "small">>,
          <<"a", "low">>, <<"a", "notelf">>, <<"a", "linux">>,
          <<"a", "toend">>, <<"b", "high">>, <<"b", "small">>, <<"b", "large">>} |->
     CASE k[2] = "aout" -> AoutKernel
       [] k[2] = "high" -> HighKernel
       [] k[2] = "plain" -> PlainKernel
       [] k[2] = "low" -> LowKernel
       [] k[2] = "notelf" -> NotElf
       [] k[2] = "linux" -> LinuxKernel
       [] k[2] = "toend" -> ToEndKernel
       [] k[2] = "small" -> File("none", "flat", FALSE, 1)
       [] k[2] = "large" -> File("none", "flat", FALSE, 2)]

MCDevices == {"a", "b"}
MCNames == {"aout", "high", "plain", "small", "low", "notelf", "linux", "toend", "large"}
MCRegions == <<[first |-> 0, last |-> 6], [first |-> 8, last |-> 9]>>

Line(cmd, device, name) ==
  [cmd |-> cmd, device |-> device, name |-> name, page |-> 0]
WithPage(cmd, page) ==
  [cmd |-> cmd, device |-> "", name |-> "", page |-> page]

MCLines ==
  {Line("multiboot", "", "aout"), Line("multiboot", "a", "toend"), Line("multiboot", "b", "high"),
   Line("multiboot", "", "low"), Line("multiboot", "", "notelf"),
   Line("multiboot", "", "small"),
   Line("kernel", "a", "plain"), Line("kernel", "", "small"), Line("kernel", "a", "linux"),
   Line("module", "", "small"), Line("module", "", "large"),
   Line("boot", "", ""), WithPage("entry_addr", 3), WithPage("entry_addr", 0),
   WithPage("binary_load_addr", 2), WithPage("binary_load_addr", 9)}

\* The files are such as the theorems about Multiboot take them.
ASSUME MCFilesAreWhole == BssIsPlaced /\ EntriesInside
================================================================================
