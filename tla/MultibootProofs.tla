----------------------------- MODULE MultibootProofs -----------------------------
(***************************************************************************)
(* Theorems about Multiboot, for every memory, every report of the         *)
(* firmware, all devices, files and configurations, and however the lines  *)
(* of a configuration fail.                                                *)
(***************************************************************************)
EXTENDS Multiboot, TLAPS, WellFoundedInduction

-------------------------------------------------------------------------------
(***************************************************************************)
(* Chunks and memory.                                                      *)
(***************************************************************************)

\* A chunk is memory the firmware reported, but the loader's first page
\* (chunk_can_allocate, mem_cb).
LEMMA ChunkIsMemory ==
  ASSUME NEW pages, CanAllocate(pages)
  PROVE  pages \subseteq Memory \ {0} /\ pages \cap used = {}
<1>1. PICK region \in Available : pages \subseteq region
  BY DEF CanAllocate
<1>2. PICK i \in 1 .. Len(Regions) : region = Region(i) \ {0}
  BY <1>1 DEF Available
<1>3. Regions[i].first \in Memory /\ Regions[i].last \in Memory /\ Last \in Nat
  BY FileAssumption
<1>4. Region(i) \subseteq Memory
  BY <1>3 DEF Region, Memory
<1>. QED  BY <1>1, <1>2, <1>4 DEF CanAllocate

\* The smallest of some numbers.
LEMMA Smallest ==
  ASSUME NEW S, S \subseteq Nat, S # {}
  PROVE  \E p \in S : \A q \in S : p <= q
<1>1. PICK p \in S : \A q \in S : ~ (<<q, p>> \in OpToRel(<, Nat))
  BY WFMin, NatLessThanWellFounded
<1>2. \A q \in S : ~ (q < p)
  BY <1>1 DEF OpToRel
<1>. QED  BY <1>2

\* What chunk_get_any_chunk finds is a chunk.
LEMMA AnyChunkIsChunk ==
  ASSUME NEW n \in Nat, AnyChunk(n) # 0
  PROVE  AnyChunk(n) \in Nat /\ CanAllocate(Pages(AnyChunk(n), n))
<1>. DEFINE can == {p \in Memory : CanAllocate(Pages(p, n))}
<1>1. can # {}
  BY DEF AnyChunk
<1>2. can \subseteq Nat
  BY DEF Memory
<1>3. \E p \in can : \A q \in can : p <= q
  BY <1>1, <1>2, Smallest
<1>4. AnyChunk(n) = CHOOSE p \in can : \A q \in can : p <= q
  BY <1>1 DEF AnyChunk
<1>5. AnyChunk(n) \in can
  BY <1>3, <1>4
<1>. QED  BY <1>5, <1>2

LEMMA PagesAre ==
  ASSUME NEW at \in Nat, NEW n \in Nat
  PROVE  /\ Pages(at, n) \subseteq Nat
         /\ \A p \in Nat : p \in Pages(at, n) <=> at <= p /\ p < at + n
BY DEF Pages

\* What is read of a file, and the zeros of memset.
LEMMA DataIs ==
  ASSUME NEW k, NEW part, NEW n \in Nat, NEW torn
  PROVE  /\ Len(Data(k, part, n, torn)) = n /\ Len(Zeros(n)) = n
         /\ \A j \in 1 .. n : Data(k, part, n, torn)[j] = Delivered(k, part, j, n, torn) /\ Zeros(n)[j] = Zero
<1>. DEFINE D == Data(k, part, n, torn)
            Z == Zeros(n)
<1>1. DOMAIN D = 1 .. n /\ D \in Seq({D[j] : j \in 1 .. n})
  BY DEF Data
<1>2. DOMAIN Z = 1 .. n /\ Z \in Seq({Zero})
  BY DEF Zeros
<1>3. Len(D) = n /\ Len(Z) = n
  BY <1>1, <1>2
<1>. QED  BY <1>3 DEF Data, Zeros

\* A piece of a file and the zeros after it (elf32_load_segment, and the a.out
\* load of multiboot.c): the chunk holds what the file declares.
Filled(m, new, image, after) ==
  /\ after = [p \in Memory |-> after[p]]
  /\ \A p \in new : after[p] = image[p]
  /\ \A p \in Memory \ new : after[p] = m[p]

LEMMA LoadFills ==
  ASSUME NEW m, NEW k, NEW piece, NEW at \in Nat, NEW torn,
         piece.pages \in Nat, piece.bss \in Nat,
         Need(piece, at) \subseteq Memory
  PROVE  /\ Filled(m, Need(piece, at), Declared(k, piece, at, torn), Load(m, k, piece, at, torn))
         /\ Declared(k, piece, at, torn) = [p \in Need(piece, at) |-> Declared(k, piece, at, torn)[p]]
         /\ DOMAIN Declared(k, piece, at, torn) = Need(piece, at)
<1>. DEFINE n == piece.pages
            b == piece.bss
            D == Data(k, piece.part, n, torn)
            Z == Zeros(b)
            first == Write(m, at, D)
            second == Write(first, at + n, Z)
<1>1. /\ Len(D) = n /\ Len(Z) = b
      /\ \A j \in 1 .. n : D[j] = Delivered(k, piece.part, j, n, torn)
      /\ \A j \in 1 .. b : Z[j] = Zero
  <2>1. n \in Nat /\ b \in Nat
    OBVIOUS
  <2>. HIDE DEF n, b
  <2>2. Len(D) = n /\ \A j \in 1 .. n : D[j] = Delivered(k, piece.part, j, n, torn)
    BY <2>1, DataIs
  <2>3. Len(Z) = b /\ \A j \in 1 .. b : Z[j] = Zero
    BY <2>1, DataIs
  <2>. QED  BY <2>2, <2>3
<1>0. n \in Nat /\ b \in Nat
  OBVIOUS
<1>. HIDE DEF D, Z, n, b
<1>2. /\ \A p \in Memory : p \in Pages(at, n) => first[p] = D[p - at + 1]
      /\ \A p \in Memory : p \notin Pages(at, n) => first[p] = m[p]
  BY <1>0, <1>1 DEF Write
<1>3. /\ second = [p \in Memory |-> second[p]]
      /\ \A p \in Memory : p \in Pages(at + n, b) => second[p] = Z[p - (at + n) + 1]
      /\ \A p \in Memory : p \notin Pages(at + n, b) => second[p] = first[p]
  <2>. DEFINE f == first
              next == at + n
  <2>1. next \in Nat
    BY <1>0
  <2>. HIDE DEF f, next
  <2>2. /\ \A p \in Memory : p \in Pages(next, b) => Write(f, next, Z)[p] = Z[p - next + 1]
        /\ \A p \in Memory : p \notin Pages(next, b) => Write(f, next, Z)[p] = f[p]
    BY <1>0, <1>1, <2>1 DEF Write
  <2>3. Write(f, next, Z) = [p \in Memory |-> Write(f, next, Z)[p]]
    BY DEF Write
  <2>. QED  BY <2>2, <2>3 DEF f, next
<1>4. Load(m, k, piece, at, torn) = second
  BY DEF Load, D, Z, n, b
<1>. HIDE DEF first, second
<1>5. \A p \in Memory : p \in Nat
  BY DEF Memory
<1>6. /\ \A p \in Nat : p \in Pages(at, n) <=> at <= p /\ p < at + n
      /\ \A p \in Nat : p \in Pages(at + n, b) <=> at + n <= p /\ p < at + n + b
      /\ \A p \in Nat : p \in Need(piece, at) <=> at <= p /\ p < at + (n + b)
  BY <1>0, PagesAre DEF Need, n, b
<1>7. /\ \A p \in Need(piece, at) :
           Declared(k, piece, at, torn)[p] =
             IF p < at + n THEN Delivered(k, piece.part, p - at + 1, n, torn) ELSE Zero
      /\ DOMAIN Declared(k, piece, at, torn) = Need(piece, at)
      /\ Declared(k, piece, at, torn) = [p \in Need(piece, at) |-> Declared(k, piece, at, torn)[p]]
  BY DEF Declared, Need, n, b
<1>8. ASSUME NEW p \in Need(piece, at)
      PROVE  second[p] = Declared(k, piece, at, torn)[p]
  <2>1. p \in Memory /\ p \in Nat /\ at <= p /\ p < at + (n + b)
    BY <1>5, <1>6
  <2>2. CASE p < at + n
    <3>1. second[p] = D[p - at + 1] /\ p - at + 1 \in 1 .. n
      BY <1>0, <1>2, <1>3, <1>6, <2>1, <2>2
    <3>. QED  BY <1>0, <1>1, <1>7, <2>1, <2>2, <3>1
  <2>3. CASE ~ (p < at + n)
    <3>1. second[p] = Z[p - (at + n) + 1] /\ p - (at + n) + 1 \in 1 .. b
      BY <1>0, <1>3, <1>6, <2>1, <2>3
    <3>. QED  BY <1>0, <1>1, <1>7, <2>1, <2>3, <3>1
  <2>. QED  BY <2>2, <2>3
<1>9. ASSUME NEW p \in Memory \ Need(piece, at)
      PROVE  second[p] = m[p]
  BY <1>0, <1>2, <1>3, <1>5, <1>6
<1>. QED  BY <1>3, <1>4, <1>7, <1>8, <1>9 DEF Filled

-------------------------------------------------------------------------------
(***************************************************************************)
(* The pieces of an ELF file, and the job of loading them one by one.      *)
(***************************************************************************)
SegmentSet == PiecesOf("segment")
SectionSet == PiecesOf("section")
PieceSet == SegmentSet \cup SectionSet

\* The pieces of a multiboot kernel: its segments, and then the other sections.
LEMMA PiecesAre ==
  ASSUME NEW k \in DOMAIN Files
  PROVE  LET segments == Files[k].segments
             sections == Files[k].sections
         IN /\ segments \in Seq(SegmentSet) /\ segments \in Seq(PieceSet)
            /\ Pieces(k) \in Seq(PieceSet)
            /\ Len(Pieces(k)) = Len(segments) + Len(sections)
            /\ Len(segments) \in Nat /\ Len(sections) \in Nat
            /\ \A i \in DOMAIN segments : Pieces(k)[i] = segments[i]
            /\ \A i \in 1 .. Len(Pieces(k)) : i > Len(segments) => Pieces(k)[i] \in SectionSet
<1>. DEFINE segments == Files[k].segments
            sections == Files[k].sections
<1>1. segments \in Seq(SegmentSet) /\ sections \in Seq(SectionSet)
  BY FileAssumption DEF SegmentSet, SectionSet
<1>. HIDE DEF segments, sections
<1>2. segments \in Seq(PieceSet) /\ sections \in Seq(PieceSet)
  BY <1>1 DEF PieceSet
<1>3. /\ segments \o sections \in Seq(PieceSet)
      /\ Len(segments \o sections) = Len(segments) + Len(sections)
      /\ Len(segments) \in Nat /\ Len(sections) \in Nat
      /\ \A i \in DOMAIN segments : (segments \o sections)[i] = segments[i]
  BY <1>2
<1>4. \A i \in 1 .. Len(segments \o sections) :
        i > Len(segments) => (segments \o sections)[i] \in SectionSet
  BY <1>1
<1>5. Pieces(k) = segments \o sections
  BY DEF Pieces, segments, sections
<1>. QED  BY <1>1, <1>2, <1>3, <1>4, <1>5 DEF segments, sections

\* All of what a job has to load is pieces of its file.
LEMMA WholeIs ==
  ASSUME JobOK
  PROVE  /\ job.file \in DOMAIN Files
         /\ Whole(job) \in Seq(PieceSet) /\ Len(Whole(job)) \in Nat
         /\ Len(Whole(job)) >= Len(Files[job.file].segments)
         /\ \A i \in DOMAIN Files[job.file].segments : Whole(job)[i] = Files[job.file].segments[i]
         /\ \A i \in 1 .. Len(Whole(job)) : i > Len(Files[job.file].segments) =>
              Whole(job)[i] \in SectionSet
<1>1. job.file \in DOMAIN Files
  BY DEF JobOK, PlainElf, MultibootElfs
<1>. DEFINE segments == Files[job.file].segments
            sections == Files[job.file].sections
<1>2. /\ segments \in Seq(PieceSet)
      /\ Pieces(job.file) \in Seq(PieceSet)
      /\ Len(Pieces(job.file)) = Len(segments) + Len(sections)
      /\ Len(segments) \in Nat /\ Len(sections) \in Nat
      /\ \A i \in DOMAIN segments : Pieces(job.file)[i] = segments[i]
      /\ \A i \in 1 .. Len(Pieces(job.file)) : i > Len(segments) => Pieces(job.file)[i] \in SectionSet
  BY <1>1, PiecesAre
<1>. HIDE DEF segments, sections
<1>3. Whole(job) = IF job.how = "multiboot" THEN Pieces(job.file) ELSE segments
  BY DEF Whole, segments
<1>4. CASE job.how = "multiboot"
  BY <1>1, <1>2, <1>3, <1>4 DEF segments
<1>5. CASE job.how # "multiboot"
  <2>1. Whole(job) = segments
    BY <1>3, <1>5
  <2>. QED  BY <1>1, <1>2, <2>1 DEF segments
<1>. QED  BY <1>4, <1>5

\* The next piece is one of the file, and it is taken off what is left.
LEMMA NextPieceIs ==
  ASSUME JobOK, job.todo # <<>>
  PROVE  /\ Piece \in PieceSet
         /\ Placed(job) + 1 \in 1 .. Len(Whole(job)) /\ Piece = Whole(job)[Placed(job) + 1]
         /\ Tail(job.todo) \in Seq(PieceSet)
         /\ Len(Tail(job.todo)) = Len(job.todo) - 1 /\ Len(job.todo) \in Nat
         /\ \A i \in DOMAIN Tail(job.todo) :
              Tail(job.todo)[i] = Whole(job)[Placed(job) + 1 + i]
<1>. DEFINE todo == job.todo
            whole == Whole(job)
            placed == Placed(job)
<1>1. todo \in Seq(PieceSet)
  BY DEF JobOK, PieceSet, SegmentSet, SectionSet
<1>2. placed = Len(whole) - Len(todo) /\ placed \in 0 .. Len(whole) /\ Len(whole) \in Nat
  BY WholeIs DEF JobOK, Placed
<1>3. \A i \in DOMAIN todo : todo[i] = whole[placed + i]
  BY DEF JobOK
<1>4. Piece = Head(todo) /\ todo # <<>>
  BY DEF Piece
<1>. HIDE DEF todo, whole, placed
<1>5. /\ Head(todo) \in PieceSet /\ Head(todo) = todo[1] /\ 1 \in DOMAIN todo
      /\ Tail(todo) \in Seq(PieceSet) /\ Len(Tail(todo)) = Len(todo) - 1
      /\ Len(todo) \in Nat /\ Len(todo) > 0
  BY <1>1, <1>4
<1>6. \A i \in DOMAIN Tail(todo) : Tail(todo)[i] = todo[i + 1] /\ i + 1 \in DOMAIN todo /\ i \in Nat
  BY <1>1, <1>4
<1>7. \A i \in DOMAIN Tail(todo) : Tail(todo)[i] = whole[placed + 1 + i]
  <2>1. SUFFICES ASSUME NEW i \in DOMAIN Tail(todo)
                 PROVE  Tail(todo)[i] = whole[placed + 1 + i]
    OBVIOUS
  <2>2. placed + (i + 1) = placed + 1 + i
    BY <1>2, <1>6
  <2>. QED  BY <1>3, <1>6, <2>2
<1>8. placed + 1 \in 1 .. Len(whole)
  BY <1>2, <1>5
<1>. QED  BY <1>2, <1>3, <1>4, <1>5, <1>7, <1>8 DEF todo, whole, placed

\* A piece is added to an image.
With(d, image) ==
  [p \in DOMAIN d \cup DOMAIN image |-> IF p \in DOMAIN d THEN d[p] ELSE image[p]]

\* Placing a piece takes it off the job and leaves the rest of the job as it is.
LEMMA PlacingIs ==
  ASSUME JobOK, job.todo # <<>>, NEW at, NEW torn, PlacePiece(at, torn)
  PROVE  /\ JobOK'
         /\ Placed(job') = Placed(job) + 1
         /\ job'.how = job.how /\ job'.file = job.file /\ job'.todo = Tail(job.todo)
         /\ job'.image = With(Declared(job.file, Piece, at, torn), job.image)
         /\ job'.line = job.line
<1>. DEFINE new == With(Declared(job.file, Piece, at, torn), job.image)
            rest == Tail(job.todo)
<1>1. job = [how |-> job.how, line |-> job.line, file |-> job.file, todo |-> job.todo,
             image |-> job.image]
  BY DEF JobOK
<1>2. job' = [job EXCEPT !.todo = rest, !.image = new]
  BY DEF PlacePiece, With
<1>. HIDE DEF new, rest
<1>3. job' = [how |-> job.how, line |-> job.line, file |-> job.file, todo |-> rest, image |-> new]
  BY <1>1, <1>2
<1>4. /\ job'.how = job.how /\ job'.file = job.file /\ job'.todo = rest
      /\ job'.image = new /\ job'.line = job.line
  BY <1>3
<1>5. Whole(job') = Whole(job)
  BY <1>4 DEF Whole
<1>6. /\ Placed(job) = Len(Whole(job)) - Len(job.todo) /\ Len(Whole(job)) \in Nat
      /\ Len(job.todo) \in Nat /\ Len(rest) = Len(job.todo) - 1
      /\ Placed(job) + 1 \in 1 .. Len(Whole(job))
      /\ rest \in Seq(PieceSet)
      /\ \A i \in DOMAIN rest : rest[i] = Whole(job)[Placed(job) + 1 + i]
  BY WholeIs, NextPieceIs DEF Placed, rest
<1>7. Placed(job') = Placed(job) + 1
  <2>1. Placed(job') = Len(Whole(job)) - Len(rest)
    BY <1>4, <1>5 DEF Placed
  <2>. QED  BY <1>6, <2>1
<1>8. JobOK'
  <2>1. job' = [how |-> job'.how, line |-> job'.line, file |-> job'.file, todo |-> job'.todo,
                image |-> job'.image]
    BY <1>3, <1>4
  <2>2. \/ job'.how = "multiboot" /\ job'.file \in MultibootElfs
        \/ job'.how = "kernel" /\ job'.file \in PlainElf
    BY <1>4 DEF JobOK
  <2>3. job'.line.name = job'.file[2]
    BY <1>4 DEF JobOK
  <2>4. job'.todo \in Seq(PiecesOf("segment") \cup PiecesOf("section"))
    BY <1>4, <1>6 DEF PieceSet, SegmentSet, SectionSet
  <2>5. Placed(job') \in 0 .. Len(Whole(job'))
    BY <1>5, <1>6, <1>7
  <2>6. \A i \in DOMAIN job'.todo : job'.todo[i] = Whole(job')[Placed(job') + i]
    BY <1>4, <1>5, <1>6, <1>7
  <2>. QED  BY <2>1, <2>2, <2>3, <2>4, <2>5, <2>6 DEF JobOK
<1>. QED  BY <1>4, <1>7, <1>8 DEF new, rest

\* A line starts to load an ELF file: all its pieces are still to be loaded.
LEMMA StartingIs ==
  ASSUME NEW how \in {"multiboot", "kernel"}, NEW line, NEW todo, StartJob(how, line, todo),
         \/ how = "multiboot" /\ On(line) \in MultibootElfs /\ todo = Pieces(On(line))
         \/ how = "kernel" /\ On(line) \in PlainElf /\ todo = Files[On(line)].segments
  PROVE  /\ JobOK' /\ Placed(job') = 0
         /\ job'.how = how /\ job'.file = On(line) /\ job'.image = <<>> /\ job'.line = line
<1>. DEFINE k == On(line)
<1>1. job' = [how |-> how, line |-> line, file |-> k, todo |-> todo, image |-> <<>>]
  BY DEF StartJob
<1>2. /\ job'.how = how /\ job'.line = line /\ job'.file = k /\ job'.todo = todo
      /\ job'.image = <<>>
  BY <1>1
<1>3. k[2] = line.name
  BY DEF On
<1>4. k \in DOMAIN Files
  BY DEF PlainElf, MultibootElfs
<1>. HIDE DEF k
<1>5. todo = Whole(job')
  BY <1>2 DEF Whole, k
<1>6. todo \in Seq(PieceSet)
  <2>1. Pieces(k) \in Seq(PieceSet) /\ Files[k].segments \in Seq(PieceSet)
    BY <1>4, PiecesAre
  <2>. QED  BY <2>1 DEF k
<1>7. Len(todo) \in Nat /\ DOMAIN todo = 1 .. Len(todo)
  BY <1>6
<1>8. Placed(job') = 0
  BY <1>2, <1>5, <1>7 DEF Placed
<1>9. JobOK'
  <2>1. job' = [how |-> job'.how, line |-> job'.line, file |-> job'.file, todo |-> job'.todo,
                image |-> job'.image]
    BY <1>1, <1>2
  <2>2. \/ job'.how = "multiboot" /\ job'.file \in MultibootElfs
        \/ job'.how = "kernel" /\ job'.file \in PlainElf
    BY <1>2 DEF k
  <2>3. job'.line.name = job'.file[2]
    BY <1>2, <1>3
  <2>4. job'.todo \in Seq(PiecesOf("segment") \cup PiecesOf("section"))
    BY <1>2, <1>6 DEF PieceSet, SegmentSet, SectionSet
  <2>5. Placed(job') \in 0 .. Len(Whole(job'))
    BY <1>5, <1>7, <1>8
  <2>6. \A i \in DOMAIN job'.todo : job'.todo[i] = Whole(job')[Placed(job') + i]
    <3>1. \A i \in DOMAIN todo : 0 + i = i
      BY <1>7
    <3>. QED  BY <1>2, <1>5, <1>8, <3>1
  <2>. QED  BY <2>1, <2>2, <2>3, <2>4, <2>5, <2>6 DEF JobOK
<1>. QED  BY <1>2, <1>8, <1>9 DEF k

-------------------------------------------------------------------------------
(***************************************************************************)
(* The types of the state, and the job that is consistent with its file.   *)
(***************************************************************************)

\* An information with the five fields that are filled in.
Full(info) ==
  info = [flags |-> info.flags, mmap |-> info.mmap, cmdline |-> info.cmdline,
          boot_device |-> info.boot_device, mods |-> info.mods]

\* What the functions that fill in an information make of it, field by field.
InfoOf(a, b, c, d, e) == [flags |-> a, mmap |-> b, cmdline |-> c, boot_device |-> d, mods |-> e]

LEMMA DescribedIs ==
  ASSUME NEW a, NEW b, NEW c, NEW d, NEW e, NEW k, NEW line, NEW device, device = k[1],
         NEW flags, flags = a \cup Told
  PROVE  Described(InfoOf(a, b, c, d, e), k, line)
           = InfoOf(flags, b, CommandLine(line), device, e)
<1>. DEFINE info == InfoOf(a, b, c, d, e)
            first == [info EXCEPT !.cmdline = CommandLine(line)]
            second == [first EXCEPT !.boot_device = k[1]]
            third == [second EXCEPT !.flags = flags]
<1>1. first = InfoOf(a, b, CommandLine(line), d, e) /\ info.flags = a
  BY DEF InfoOf
<1>. HIDE DEF first
<1>2. second = InfoOf(a, b, CommandLine(line), device, e)
  BY <1>1 DEF InfoOf
<1>. HIDE DEF second
<1>3. third = InfoOf(flags, b, CommandLine(line), device, e)
  BY <1>2 DEF InfoOf
<1>. QED  BY <1>1, <1>3 DEF Described, first, second, third

LEMMA WithModulesIs ==
  ASSUME NEW a, NEW b, NEW c, NEW d, NEW e
  PROVE  WithModules(InfoOf(a, b, c, d, e))
           = InfoOf(a \cup IF mods = <<>> THEN {} ELSE {3}, b, c, d, mods)
<1>. DEFINE info == InfoOf(a, b, c, d, e)
            first == [info EXCEPT !.mods = mods]
            flags == a \cup IF mods = <<>> THEN {} ELSE {3}
            second == [first EXCEPT !.flags = flags]
<1>. HIDE DEF flags
<1>1. first = InfoOf(a, b, c, d, mods) /\ info.flags = a
  BY DEF InfoOf
<1>. HIDE DEF first
<1>2. second = InfoOf(flags, b, c, d, mods)
  BY <1>1 DEF InfoOf
<1>. QED  BY <1>1, <1>2 DEF WithModules, first, second, flags

LEMMA DescribedFull ==
  ASSUME NEW info, Full(info), NEW k, NEW line, NEW new, new = Described(info, k, line)
  PROVE  /\ Full(new) /\ new.flags = info.flags \cup Told
         /\ new.mmap = info.mmap /\ new.cmdline = CommandLine(line)
         /\ new.boot_device = k[1]
<1>1. PICK a, b, c, d, e : info = InfoOf(a, b, c, d, e)
  BY DEF Full, InfoOf
<1>2. new = InfoOf(a \cup Told, b, CommandLine(line), k[1], e)
  BY <1>1, DescribedIs
<1>. QED  BY <1>1, <1>2 DEF Full, InfoOf

LEMMA FullInfo ==
  ASSUME NEW info, Full(info)
  PROVE  /\ LET new == [info EXCEPT !.flags = @ \cup {6}] IN
              Full(new) /\ new.flags = info.flags \cup {6} /\ new.mmap = info.mmap
         /\ LET new == WithModules(info) IN
              /\ Full(new) /\ new.flags = info.flags \cup IF mods = <<>> THEN {} ELSE {3}
              /\ new.mmap = info.mmap /\ new.cmdline = info.cmdline
              /\ new.boot_device = info.boot_device /\ new.mods = mods
         /\ info # NoInfo
<1>0. PICK a, b, c, d, e : info = InfoOf(a, b, c, d, e)
  BY DEF Full, InfoOf
<1>1. LET new == [info EXCEPT !.flags = @ \cup {6}]
      IN Full(new) /\ new.flags = info.flags \cup {6} /\ new.mmap = info.mmap
  <2>1. [info EXCEPT !.flags = @ \cup {6}] = InfoOf(a \cup {6}, b, c, d, e)
    BY <1>0 DEF InfoOf
  <2>. QED  BY <1>0, <2>1 DEF Full, InfoOf
<1>2. LET new == WithModules(info) IN
      /\ Full(new) /\ new.flags = info.flags \cup IF mods = <<>> THEN {} ELSE {3}
      /\ new.mmap = info.mmap /\ new.cmdline = info.cmdline
      /\ new.boot_device = info.boot_device /\ new.mods = mods
  <2>1. WithModules(info) = InfoOf(a \cup IF mods = <<>> THEN {} ELSE {3}, b, c, d, mods)
    BY <1>0, WithModulesIs
  <2>. QED  BY <1>0, <2>1 DEF Full, InfoOf
<1>3. info # NoInfo
  <2>1. "mmap" \in DOMAIN info
    BY DEF Full
  <2>2. "mmap" \notin DOMAIN NoInfo
    BY DEF NoInfo
  <2>. QED  BY <2>1, <2>2
<1>. QED  BY <1>1, <1>2, <1>3

LEMMA NewIsFull == \A k : Full(NewInfo(k))
BY DEF Full, NewInfo

LEMMA InfoOKIs == InfoOK <=> mbinfo = NoInfo \/ Full(mbinfo)
BY DEF InfoOK, Full

LEMMA FoundIs ==
  ASSUME NEW line \in Lines, Exists(line)
  PROVE  /\ On(line) \in DOMAIN Files /\ On(line)[2] = line.name
         /\ On(line)[1] \in Devices
         /\ line.device = "" \/ line.device = On(line)[1]
<1>1. On(line) \in DOMAIN Files /\ DOMAIN Files \subseteq Devices \X Names
  BY FileAssumption DEF Exists
<1>2. On(line)[2] = line.name /\ (line.device = "" \/ line.device = On(line)[1])
  BY DEF On
<1>. QED  BY <1>1, <1>2

\* The devices of files are devices.
LEMMA DeviceIs ==
  ASSUME NEW k \in DOMAIN Files
  PROVE  k[1] \in Devices
BY FileAssumption

LEMMA WriteIsMemory ==
  ASSUME NEW m, NEW at, NEW content
  PROVE  Write(m, at, content) = [p \in Memory |-> Write(m, at, content)[p]]
BY DEF Write

LEMMA FileIs ==
  ASSUME NEW k \in DOMAIN Files
  PROVE  /\ Files[k].pages \in Nat \ {0} /\ Files[k].load \in Nat /\ Files[k].bss \in Nat
         /\ Files[k].entry \in Nat /\ Files[k].toEnd \in BOOLEAN
BY FileAssumption

\* A conversion gives an address, whatever the segment.
LEMMA MovedIsAddress ==
  ASSUME NEW entry \in Nat, NEW s \in PieceSet
  PROVE  Moved(entry, s) \in Nat
<1>1. /\ s.virt \in Nat /\ s.phys \in Nat /\ s.pages \in Nat /\ s.bss \in Nat
      /\ s.pages + s.bss \in Nat
  BY DEF PieceSet, SegmentSet, SectionSet, PiecesOf
<1>2. CASE entry \in Need(s, s.virt)
  <2>1. s.virt <= entry
    BY <1>1, <1>2, PagesAre DEF Need
  <2>. QED  BY <1>1, <1>2, <2>1 DEF Moved, Physical
<1>3. CASE entry \notin Need(s, s.virt)
  BY <1>3 DEF Moved
<1>. QED  BY <1>2, <1>3

\* A place in memory where a piece or a file goes is an address.
LEMMA PlacesAre ==
  ASSUME NEW n \in Nat, binary_load_addr \in Nat
  PROVE  /\ AnyChunk(n) \in Nat
         /\ LoadAddress(n) \in Nat
         /\ LoadAddress(n) > 0 => CanAllocate(Pages(LoadAddress(n), n))
<1>1. AnyChunk(n) \in Nat
  <2>1. CASE AnyChunk(n) = 0
    BY <2>1
  <2>2. CASE AnyChunk(n) # 0
    BY <2>2, AnyChunkIsChunk
  <2>. QED  BY <2>1, <2>2
<1>2. AnyChunk(n) > 0 => CanAllocate(Pages(AnyChunk(n), n))
  BY <1>1, AnyChunkIsChunk
<1>. QED  BY <1>1, <1>2 DEF LoadAddress

LEMMA TypeInit == Init => TypeOK
<1>. SUFFICES ASSUME Init PROVE TypeOK
  OBVIOUS
<1>1. Untouched = [p \in Memory |-> Untouched[p]]
  BY DEF Untouched
<1>2. mods \in Seq([file : DOMAIN Files, start : Nat, end : Nat])
  BY DEF Init
<1>. QED  BY <1>1, <1>2, FileAssumption DEF Init, TypeOK, InfoOK

\* The steps that load nothing, and those that fail with a chunk allocated.
LEMMA TypeFails ==
  ASSUME TypeOK, pc' \in {"lines", "running", "stopped", "finished"}, lines' \in Nat,
         default' \in Devices, mem' = mem,
         \/ used' = used
         \/ \E pages : CanAllocate(pages) /\ used' = used \cup pages,
         entry_addr' \in Nat, binary_load_addr' \in Nat, InfoOK', mods' = mods
  PROVE  TypeOK'
<1>1. used' \subseteq Memory \ {0}
  BY ChunkIsMemory DEF TypeOK
<1>2. pc' # "loading"
  OBVIOUS
<1>3. mem' = [p \in Memory |-> mem'[p]]
  BY DEF TypeOK
<1>4. mods' \in Seq([file : DOMAIN Files, start : Nat, end : Nat])
  BY DEF TypeOK
<1>. QED  BY <1>1, <1>2, <1>3, <1>4 DEF TypeOK

LEMMA TypeAout ==
  ASSUME TypeOK, NEW line \in Lines, Aout(line)
  PROVE  TypeOK'
<1>. DEFINE k == On(line)
            f == Files[k]
<1>1. k \in DOMAIN Files /\ k[1] \in Devices
  BY FoundIs DEF Aout
<1>2. f.entry \in Nat /\ f.load \in Nat /\ lines \in Nat /\ entry_addr \in Nat
  BY <1>1, FileIs DEF TypeOK
<1>3. Full(NewInfo(k))
  BY NewIsFull
<1>4. CASE AoutFails(line, k)
  <2>1. InfoOK'
    BY <1>3, <1>4 DEF AoutFails, InfoOK, Full
  <2>2. \/ used' = used
        \/ \E pages : CanAllocate(pages) /\ used' = used \cup pages
    BY <1>4 DEF AoutFails
  <2>3. entry_addr' \in Nat
    BY <1>2, <1>4 DEF AoutFails
  <2>4. /\ pc' = "stopped" /\ lines' = lines + 1 /\ default' = default /\ mem' = mem
        /\ binary_load_addr' = binary_load_addr /\ mods' = mods
    BY <1>4 DEF AoutFails, Stop
  <2>5. /\ pc' \in {"lines", "running", "stopped", "finished"} /\ lines' \in Nat
        /\ default' \in Devices /\ binary_load_addr' \in Nat
    BY <1>2, <2>4 DEF TypeOK
  <2>. QED  BY <2>1, <2>2, <2>3, <2>4, <2>5, TypeFails
<1>5. ASSUME NEW torn \in Torn, AoutLoads(line, k, torn)
      PROVE  TypeOK'
  <2>1. /\ pc' = "lines" /\ lines' \in Nat /\ default' = k[1]
        /\ mbinfo' = Described(NewInfo(k), k, line)
        /\ entry_addr' = f.entry /\ binary_load_addr' = binary_load_addr /\ mods' = mods
    BY <1>2, <1>5 DEF AoutLoads, FinishMultiboot, NextLine
  <2>2. CanAllocate(AoutChunk(f)) /\ used' = used \cup AoutChunk(f)
    BY <1>5 DEF AoutLoads
  <2>3. used' \subseteq Memory \ {0}
    BY <2>2, ChunkIsMemory DEF TypeOK
  <2>4. mem' = [p \in Memory |-> mem'[p]]
    BY <1>5, WriteIsMemory DEF AoutLoads
  <2>5. InfoOK'
    <3>1. Full(Described(NewInfo(k), k, line))
      BY <1>3, DescribedFull
    <3>. QED  BY <2>1, <3>1 DEF InfoOK, Full
  <2>6. mods' \in Seq([file : DOMAIN Files, start : Nat, end : Nat])
    BY <2>1 DEF TypeOK
  <2>7. entry_addr' \in Nat /\ binary_load_addr' \in Nat /\ default' \in Devices
    BY <1>1, <1>2, <2>1 DEF TypeOK
  <2>8. pc' # "loading" /\ pc' \in {"lines", "loading", "running", "stopped", "finished"}
    BY <2>1
  <2>. QED  BY <2>1, <2>3, <2>4, <2>5, <2>6, <2>7, <2>8 DEF TypeOK
<1>. QED  BY <1>4, <1>5 DEF Aout

LEMMA TypeMultibootElf ==
  ASSUME TypeOK, NEW line \in Lines, MultibootElf(line)
  PROVE  TypeOK'
<1>. DEFINE k == On(line)
            f == Files[k]
<1>1. k \in DOMAIN Files /\ k[1] \in Devices
  BY FoundIs DEF MultibootElf
<1>2. f.entry \in Nat /\ lines \in Nat /\ entry_addr \in Nat
  BY <1>1, FileIs DEF TypeOK
<1>3. Full(NewInfo(k)) /\ mbinfo' = NewInfo(k)
  BY NewIsFull DEF MultibootElf
<1>4. InfoOK'
  BY <1>3 DEF InfoOK, Full
<1>5. /\ default' = default /\ mem' = mem /\ used' = used
      /\ binary_load_addr' = binary_load_addr /\ mods' = mods
  BY DEF MultibootElf, memory
<1>6. CASE Stop /\ UNCHANGED <<entry_addr, origin, job>>
  <2>1. pc' \in {"lines", "running", "stopped", "finished"} /\ lines' \in Nat
    BY <1>2, <1>6 DEF Stop
  <2>2. entry_addr' \in Nat /\ default' \in Devices /\ binary_load_addr' \in Nat
    BY <1>5, <1>6 DEF TypeOK
  <2>. QED  BY <1>4, <1>5, <2>1, <2>2, TypeFails
<1>7. CASE /\ f.kind = "elf" /\ entry_addr' = f.entry /\ origin' = "loading"
           /\ StartJob("multiboot", line, Pieces(k)) /\ UNCHANGED lines
  <2>1. k \in MultibootElfs
    BY <1>1, <1>7 DEF MultibootElf, MultibootElfs
  <2>2. JobOK' /\ job'.how = "multiboot" /\ job'.file = k
    BY <1>7, <2>1, StartingIs
  <2>3. InfoComing'
    BY <1>3, <1>7, <2>2 DEF InfoComing
  <2>4. pc' = "loading"
    BY <1>7 DEF StartJob
  <2>5. lines' \in Nat /\ entry_addr' \in Nat
    BY <1>2, <1>7
  <2>6. mem' = [p \in Memory |-> mem'[p]] /\ used' \subseteq Memory \ {0}
    BY <1>5 DEF TypeOK
  <2>7. mods' \in Seq([file : DOMAIN Files, start : Nat, end : Nat])
    BY <1>5 DEF TypeOK
  <2>8. default' \in Devices /\ binary_load_addr' \in Nat
    BY <1>5 DEF TypeOK
  <2>. QED  BY <1>4, <2>2, <2>3, <2>4, <2>5, <2>6, <2>7, <2>8 DEF TypeOK
<1>. QED  BY <1>6, <1>7 DEF MultibootElf

\* The chunk a piece is loaded to.
LEMMA PieceIs ==
  ASSUME TypeOK, pc = "loading", job.todo # <<>>
  PROVE  /\ JobOK /\ InfoComing /\ Piece \in PieceSet /\ job.file \in DOMAIN Files
         /\ Piece.pages \in Nat /\ Piece.bss \in Nat /\ Piece.pages + Piece.bss \in Nat
         /\ Piece.phys \in Nat /\ Piece.virt \in Nat
<1>1. JobOK /\ InfoComing
  BY DEF TypeOK
<1>2. Piece \in PieceSet /\ job.file \in DOMAIN Files
  BY <1>1, NextPieceIs, WholeIs
<1>. QED  BY <1>1, <1>2 DEF PieceSet, SegmentSet, SectionSet, PiecesOf

LEMMA TypePiece ==
  ASSUME TypeOK, pc = "loading", job.todo # <<>>, NEW at \in Nat,
         NEW torn, PlacePiece(at, torn),
         CanAllocate(Need(Piece, at)), entry_addr' \in Nat,
         UNCHANGED <<pc, lines, default, binary_load_addr, mbinfo, mods, origin>>
  PROVE  TypeOK'
<1>1. JobOK' /\ job'.how = job.how /\ job'.file = job.file
  BY PieceIs, PlacingIs
<1>2. InfoComing'
  BY <1>1, PieceIs DEF InfoComing
<1>3. used' \subseteq Memory \ {0}
  BY ChunkIsMemory DEF TypeOK, PlacePiece
<1>4. mem' = [p \in Memory |-> mem'[p]]
  BY WriteIsMemory DEF PlacePiece, Load
<1>5. InfoOK' /\ mods' \in Seq([file : DOMAIN Files, start : Nat, end : Nat])
  BY DEF TypeOK, InfoOK
<1>. QED  BY <1>1, <1>2, <1>3, <1>4, <1>5 DEF TypeOK

LEMMA TypePieceIsShort ==
  ASSUME TypeOK, pc = "loading", job.todo # <<>>, NEW at \in Nat, PieceIsShort(at),
         CanAllocate(Need(Piece, at))
  PROVE  TypeOK'
<1>1. /\ pc' = "stopped" /\ lines' = lines + 1 /\ default' = default /\ mem' = mem
      /\ used' = used \cup Need(Piece, at) /\ mbinfo' = mbinfo /\ mods' = mods
      /\ entry_addr' = entry_addr /\ binary_load_addr' = binary_load_addr
  BY DEF PieceIsShort, Stop
<1>2. InfoOK'
  BY <1>1 DEF TypeOK, InfoOK
<1>3. /\ pc' \in {"lines", "running", "stopped", "finished"} /\ lines' \in Nat
      /\ default' \in Devices /\ entry_addr' \in Nat /\ binary_load_addr' \in Nat
  BY <1>1 DEF TypeOK
<1>. QED  BY <1>1, <1>2, <1>3, TypeFails

LEMMA TypeLoadSegment ==
  ASSUME TypeOK, LoadSegment
  PROVE  TypeOK'
<1>1. pc = "loading" /\ job.todo # <<>> /\ CanAllocate(Need(Piece, Piece.phys))
  BY DEF LoadSegment, Loading
<1>2. Piece.phys \in Nat /\ Piece \in PieceSet
  BY <1>1, PieceIs
<1>3. CASE PieceIsShort(Piece.phys)
  BY <1>1, <1>2, <1>3, TypePieceIsShort
<1>4. ASSUME NEW torn \in Torn,
            /\ PlacePiece(Piece.phys, torn)
            /\ entry_addr' = IF job.how = "multiboot" THEN Moved(entry_addr, Piece) ELSE entry_addr
            /\ UNCHANGED <<pc, lines, default, binary_load_addr, mbinfo, mods, history>>
      PROVE  TypeOK'
  <2>1. Moved(entry_addr, Piece) \in Nat /\ entry_addr \in Nat
    BY <1>2, MovedIsAddress DEF TypeOK
  <2>2. entry_addr' \in Nat
    BY <1>4, <2>1
  <2>3. UNCHANGED <<pc, lines, default, binary_load_addr, mbinfo, mods, origin>>
    BY <1>4 DEF history
  <2>. QED  BY <1>1, <1>2, <1>4, <2>2, <2>3, TypePiece
<1>. QED  BY <1>3, <1>4 DEF LoadSegment

LEMMA TypeLoadSection ==
  ASSUME TypeOK, LoadSection
  PROVE  TypeOK'
<1>. DEFINE at == AnyChunk(Piece.pages + Piece.bss)
<1>1. pc = "loading" /\ job.todo # <<>>
  BY DEF LoadSection, Loading
<1>2. at \in Nat
  BY <1>1, PieceIs, PlacesAre DEF TypeOK
<1>3. ASSUME at > 0 PROVE CanAllocate(Need(Piece, at))
  <2>1. CanAllocate(Pages(at, Piece.pages + Piece.bss))
    BY <1>1, <1>2, <1>3, PieceIs, AnyChunkIsChunk
  <2>. QED  BY <2>1 DEF Need
<1>4. CASE at > 0 /\ PieceIsShort(at)
  BY <1>1, <1>2, <1>3, <1>4, TypePieceIsShort
<1>5. ASSUME NEW torn \in Torn,
             at > 0 /\ PlacePiece(at, torn) /\ UNCHANGED <<pc, lines, default, kernel, history>>
      PROVE  TypeOK'
  <2>1. UNCHANGED <<pc, lines, default, binary_load_addr, mbinfo, mods, origin>>
    BY <1>5 DEF kernel, history
  <2>2. entry_addr' \in Nat
    BY <1>5 DEF kernel, TypeOK
  <2>. QED  BY <1>1, <1>2, <1>3, <1>5, <2>1, <2>2, TypePiece
<1>6. CASE at = 0 /\ Stop /\ UNCHANGED <<default, memory, kernel, job, history>>
  <2>1. /\ pc' = "stopped" /\ lines' = lines + 1 /\ default' = default /\ mem' = mem
        /\ used' = used /\ mbinfo' = mbinfo /\ mods' = mods
        /\ entry_addr' = entry_addr /\ binary_load_addr' = binary_load_addr
    BY <1>6 DEF Stop, memory, kernel
  <2>2. InfoOK'
    BY <2>1 DEF TypeOK, InfoOK
  <2>3. /\ pc' \in {"lines", "running", "stopped", "finished"} /\ lines' \in Nat
        /\ default' \in Devices /\ entry_addr' \in Nat /\ binary_load_addr' \in Nat
    BY <2>1 DEF TypeOK
  <2>. QED  BY <2>1, <2>2, <2>3, TypeFails
<1>. QED  BY <1>4, <1>5, <1>6 DEF LoadSection

LEMMA TypeFinishElf ==
  ASSUME TypeOK, FinishElf
  PROVE  TypeOK'
<1>1. JobOK /\ InfoComing /\ job.file \in DOMAIN Files
  BY WholeIs DEF TypeOK, FinishElf
<1>2. /\ used' = used /\ mem' = mem /\ mods' = mods /\ binary_load_addr' = binary_load_addr
  BY DEF FinishElf, memory
<1>3. lines \in Nat /\ entry_addr \in Nat /\ binary_load_addr' \in Nat
  BY <1>2 DEF TypeOK
<1>4. CASE /\ job.how = "multiboot" /\ UNCHANGED entry_addr
           /\ FinishMultiboot([mbinfo EXCEPT !.flags = @ \cup {6}], job.file, job.line, job.image)
  <2>1. /\ pc' = "lines" /\ lines' = lines + 1 /\ default' = job.file[1]
        /\ mbinfo' = Described([mbinfo EXCEPT !.flags = @ \cup {6}], job.file, job.line)
    BY <1>4 DEF FinishMultiboot, NextLine
  <2>2. Full(mbinfo)
    BY <1>1, <1>4, NewIsFull DEF InfoComing
  <2>3. Full([mbinfo EXCEPT !.flags = @ \cup {6}])
    BY <2>2, FullInfo
  <2>4. Full(mbinfo')
    BY <2>1, <2>3, DescribedFull
  <2>5. InfoOK'
    BY <2>4 DEF InfoOK, Full
  <2>6. default' \in Devices
    BY <1>1, <2>1, DeviceIs
  <2>7. pc' \in {"lines", "running", "stopped", "finished"} /\ lines' \in Nat /\ entry_addr' \in Nat
    BY <1>3, <1>4, <2>1
  <2>. QED  BY <1>2, <1>3, <2>5, <2>6, <2>7, TypeFails
<1>5. CASE /\ job.how = "kernel" /\ entry_addr' = Files[job.file].entry
           /\ NextLine /\ UNCHANGED <<default, mbinfo>>
  <2>1. InfoOK' /\ default' \in Devices
    BY <1>5 DEF TypeOK, InfoOK
  <2>2. pc' \in {"lines", "running", "stopped", "finished"} /\ lines' \in Nat /\ entry_addr' \in Nat
    BY <1>1, <1>3, <1>5, FileIs DEF NextLine
  <2>. QED  BY <1>2, <1>3, <2>1, <2>2, TypeFails
<1>. QED  BY <1>4, <1>5 DEF FinishElf

LEMMA TypeKernelElf ==
  ASSUME TypeOK, NEW line \in Lines, KernelElf(line)
  PROVE  TypeOK'
<1>. DEFINE k == On(line)
<1>1. k \in DOMAIN Files /\ k[2] = line.name /\ (line.device = "" \/ line.device = k[1])
  BY FoundIs DEF KernelElf
<1>2. k \in PlainElf
  BY <1>1 DEF KernelElf, Running, PlainElf
<1>3. StartJob("kernel", line, Files[k].segments)
  BY DEF KernelElf
<1>4. JobOK' /\ job'.how = "kernel"
  BY <1>2, <1>3, StartingIs
<1>5. InfoComing' /\ pc' = "loading"
  BY <1>3, <1>4 DEF InfoComing, StartJob
<1>6. /\ UNCHANGED <<lines, default, mem, used, entry_addr, binary_load_addr, mbinfo, mods>>
  BY DEF KernelElf, memory, kernel
<1>7. InfoOK'
  BY <1>6 DEF TypeOK, InfoOK
<1>. QED  BY <1>4, <1>5, <1>6, <1>7 DEF TypeOK

LEMMA TypePlaceFile ==
  ASSUME TypeOK, NEW k \in DOMAIN Files, NEW how, NEW at \in Nat,
         NEW torn, PlaceFile(k, how, at, torn), NextLine,
         CanAllocate(Pages(at, Files[k].pages)), UNCHANGED <<default, mbinfo>>,
         entry_addr' \in Nat, binary_load_addr' \in Nat,
         mods' \in Seq([file : DOMAIN Files, start : Nat, end : Nat])
  PROVE  TypeOK'
<1>1. used' \subseteq Memory \ {0}
  BY ChunkIsMemory DEF TypeOK, PlaceFile
<1>2. mem' = [p \in Memory |-> mem'[p]]
  BY WriteIsMemory DEF PlaceFile
<1>3. InfoOK' /\ default' \in Devices
  BY DEF TypeOK, InfoOK
<1>4. pc' = "lines" /\ lines' \in Nat
  BY DEF NextLine, TypeOK
<1>. QED  BY <1>1, <1>2, <1>3, <1>4 DEF TypeOK

LEMMA TypeFileIsShort ==
  ASSUME TypeOK, NEW k \in DOMAIN Files, NEW at \in Nat, FileIsShort(k, at),
         CanAllocate(Pages(at, Files[k].pages)), mbinfo' = mbinfo,
         entry_addr' \in Nat, binary_load_addr' \in Nat
  PROVE  TypeOK'
<1>1. /\ pc' = "stopped" /\ lines' = lines + 1 /\ default' = default /\ mem' = mem
      /\ used' = used \cup Pages(at, Files[k].pages) /\ mods' = mods
  BY DEF FileIsShort, Stop
<1>2. InfoOK' /\ default' \in Devices /\ lines' \in Nat
  BY <1>1 DEF TypeOK, InfoOK
<1>. QED  BY <1>1, <1>2, TypeFails

LEMMA TypeKernelFlat ==
  ASSUME TypeOK, NEW line \in Lines, KernelFlat(line)
  PROVE  TypeOK'
<1>. DEFINE k == On(line)
            n == Files[k].pages
            at == LoadAddress(n)
<1>1. k \in DOMAIN Files
  BY FoundIs DEF KernelFlat
<1>2. n \in Nat
  BY <1>1, FileIs
<1>3. at \in Nat /\ (at > 0 => CanAllocate(Pages(at, n)))
  BY <1>2, PlacesAre DEF TypeOK
<1>4. binary_load_addr' \in Nat /\ mbinfo' = mbinfo
  BY <1>3 DEF KernelFlat, TypeOK
<1>5. ASSUME NEW torn \in Torn,
            /\ at > 0 /\ PlaceFile(k, "kernel", at, torn) /\ NextLine
            /\ entry_addr' = IF entry_addr = 0 THEN at ELSE entry_addr
            /\ UNCHANGED <<default, mods>>
      PROVE  TypeOK'
  <2>1. entry_addr' \in Nat /\ mods' \in Seq([file : DOMAIN Files, start : Nat, end : Nat])
    BY <1>3, <1>5 DEF TypeOK
  <2>. QED  BY <1>1, <1>3, <1>4, <1>5, <2>1, TypePlaceFile
<1>6. CASE at > 0 /\ FileIsShort(k, at) /\ UNCHANGED <<entry_addr, origin>>
  <2>1. entry_addr' \in Nat
    BY <1>6 DEF TypeOK
  <2>. QED  BY <1>1, <1>3, <1>4, <1>6, <2>1, TypeFileIsShort
<1>7. CASE at = 0 /\ Stop /\ UNCHANGED <<default, memory, entry_addr, mods, loaded, origin>>
  <2>1. /\ pc' = "stopped" /\ lines' = lines + 1 /\ UNCHANGED <<default, mem, used, entry_addr, mods>>
    BY <1>7 DEF Stop, memory
  <2>2. lines' \in Nat /\ default' \in Devices /\ entry_addr' \in Nat /\ InfoOK'
    BY <1>4, <2>1 DEF TypeOK, InfoOK
  <2>. QED  BY <1>4, <2>1, <2>2, TypeFails
<1>. QED  BY <1>5, <1>6, <1>7 DEF KernelFlat

LEMMA TypeModule ==
  ASSUME TypeOK, NEW line \in Lines, Module(line)
  PROVE  TypeOK'
<1>. DEFINE k == On(line)
            n == Files[k].pages
            at == AnyChunk(n)
<1>1. k \in DOMAIN Files
  BY FoundIs DEF Module
<1>2. n \in Nat
  BY <1>1, FileIs
<1>3. at \in Nat /\ (at > 0 => CanAllocate(Pages(at, n)))
  BY <1>2, PlacesAre, AnyChunkIsChunk DEF TypeOK
<1>4. entry_addr' \in Nat /\ binary_load_addr' \in Nat /\ mbinfo' = mbinfo
  BY DEF Module, TypeOK
<1>5. ASSUME NEW torn \in Torn,
            /\ at > 0 /\ PlaceFile(k, "module", at, torn) /\ NextLine
            /\ mods' = <<ModuleAt(k, at)>> \o mods /\ UNCHANGED default
      PROVE  TypeOK'
  <2>. DEFINE Modules == [file : DOMAIN Files, start : Nat, end : Nat]
  <2>1. ModuleAt(k, at) \in Modules
    BY <1>1, <1>2, <1>3 DEF ModuleAt
  <2>2. mods \in Seq(Modules)
    BY DEF TypeOK
  <2>. HIDE DEF Modules
  <2>3. <<ModuleAt(k, at)>> \o mods \in Seq(Modules)
    BY <2>1, <2>2
  <2>4. mods' \in Seq([file : DOMAIN Files, start : Nat, end : Nat])
    BY <1>5, <2>3 DEF Modules
  <2>. QED  BY <1>1, <1>3, <1>4, <1>5, <2>4, TypePlaceFile
<1>6. CASE at > 0 /\ FileIsShort(k, at)
  BY <1>1, <1>3, <1>4, <1>6, TypeFileIsShort
<1>7. CASE at = 0 /\ Stop /\ UNCHANGED <<default, memory, mods, loaded>>
  <2>1. /\ pc' = "stopped" /\ lines' = lines + 1 /\ UNCHANGED <<default, mem, used, mods>>
    BY <1>7 DEF Stop, memory
  <2>2. lines' \in Nat /\ default' \in Devices /\ InfoOK'
    BY <1>4, <2>1 DEF TypeOK, InfoOK
  <2>. QED  BY <1>4, <2>1, <2>2, TypeFails
<1>. QED  BY <1>5, <1>6, <1>7 DEF Module

\* The lines that load nothing: those that fail, those that only set an address,
\* boot, the return of the kernel, the end of the configuration and a segment
\* that is refused.
Quiet(line) ==
  \/ LineFails(line) \/ NotMultiboot(line) \/ KernelLinux(line)
  \/ EntryAddr(line) \/ BinaryLoadAddr(line) \/ NoKernel(line) \/ Boot(line)

LEMMA TypeQuiet ==
  ASSUME TypeOK,
         \/ \E line \in Lines : Quiet(line)
         \/ RefuseSegment \/ KernelReturns \/ FinishConfig
  PROVE  TypeOK'
<1>1. ASSUME pc' \in {"lines", "stopped", "finished"}, lines' \in {lines, lines + 1},
             UNCHANGED <<default, memory, kernel>>
      PROVE  TypeOK'
  <2>1. UNCHANGED <<default, mem, used, entry_addr, binary_load_addr, mbinfo, mods>>
    BY <1>1 DEF memory, kernel
  <2>2. /\ lines' \in Nat /\ default' \in Devices /\ entry_addr' \in Nat
        /\ binary_load_addr' \in Nat /\ InfoOK'
    BY <1>1, <2>1 DEF TypeOK, InfoOK
  <2>. QED  BY <1>1, <2>1, <2>2, TypeFails
<1>2. ASSUME NEW line \in Lines,
             LineFails(line) \/ NotMultiboot(line) \/ KernelLinux(line) \/ NoKernel(line)
      PROVE  TypeOK'
  BY <1>1, <1>2 DEF LineFails, NotMultiboot, KernelLinux, NoKernel, Stop
<1>3. CASE RefuseSegment \/ KernelReturns \/ FinishConfig
  BY <1>1, <1>3 DEF RefuseSegment, KernelReturns, FinishConfig, NextLine
<1>4. ASSUME NEW line \in Lines, EntryAddr(line) \/ BinaryLoadAddr(line)
      PROVE  TypeOK'
  <2>1. line.page \in Nat
    BY FileAssumption
  <2>2. pc' = "lines" /\ lines' = lines + 1 /\ UNCHANGED <<default, mem, used, mbinfo, mods>>
    BY <1>4 DEF EntryAddr, BinaryLoadAddr, NextLine, memory
  <2>3. entry_addr' \in Nat /\ binary_load_addr' \in Nat
    BY <1>4, <2>1 DEF EntryAddr, BinaryLoadAddr, TypeOK
  <2>4. lines' \in Nat /\ default' \in Devices /\ InfoOK'
    BY <2>2 DEF TypeOK, InfoOK
  <2>. QED  BY <2>2, <2>3, <2>4, TypeFails
<1>5. ASSUME NEW line \in Lines, Boot(line)
      PROVE  TypeOK'
  <2>1. /\ pc' = "running"
        /\ UNCHANGED <<lines, default, mem, used, entry_addr, binary_load_addr, mods>>
    BY <1>5 DEF Boot, memory
  <2>2. InfoOK'
    <3>1. CASE mbinfo # NoInfo /\ mbinfo' = WithModules(mbinfo)
      <4>1. Full(mbinfo)
        BY <3>1 DEF TypeOK, InfoOK, Full
      <4>2. Full(mbinfo')
        BY <3>1, <4>1, FullInfo
      <4>. QED  BY <4>2 DEF InfoOK, Full
    <3>2. CASE mbinfo' = mbinfo
      BY <3>2 DEF TypeOK, InfoOK
    <3>. QED  BY <1>5, <3>1, <3>2 DEF Boot
  <2>3. lines' \in Nat /\ default' \in Devices /\ entry_addr' \in Nat /\ binary_load_addr' \in Nat
    BY <2>1 DEF TypeOK
  <2>. QED  BY <2>1, <2>2, <2>3, TypeFails
<1>. QED  BY <1>2, <1>3, <1>4, <1>5 DEF Quiet

LEMMA TypeNext == TypeOK /\ [Next]_vars => TypeOK'
<1>. SUFFICES ASSUME TypeOK, [Next]_vars PROVE TypeOK'
  OBVIOUS
<1>1. ASSUME NEW line \in Lines, RunLine(line) PROVE TypeOK'
  BY <1>1, TypeAout, TypeMultibootElf, TypeKernelElf, TypeKernelFlat, TypeModule, TypeQuiet
     DEF RunLine, Quiet
<1>2. CASE RefuseSegment \/ KernelReturns \/ FinishConfig
  BY <1>2, TypeQuiet
<1>3. CASE LoadSegment \/ LoadSection \/ FinishElf
  BY <1>3, TypeLoadSegment, TypeLoadSection, TypeFinishElf
<1>4. CASE UNCHANGED vars
  BY <1>4 DEF vars, config, memory, kernel, history, TypeOK, InfoOK, JobOK, InfoComing, Placed, Whole
<1>. QED  BY <1>1, <1>2, <1>3, <1>4 DEF Next

\* Every variable holds what its place in the code can hold, and what is left of
\* an ELF file being loaded is the end of its pieces in their order
\* (multiboot.c:349-438, elf.c:28-92).
THEOREM TypeCorrect == Spec => []TypeOK
<1>. QED  BY TypeInit, TypeNext, PTL DEF Spec

-------------------------------------------------------------------------------
(***************************************************************************)
(* What is loaded stays: a chunk that is given out is in none of those     *)
(* that were, and a load fills the chunk it was given and no other page.   *)
(***************************************************************************)

\* InMemory, of any memory and any chunks.
Held(image, m, chunks) ==
  /\ image = [p \in DOMAIN image |-> image[p]] /\ DOMAIN image \subseteq chunks
  /\ \A p \in DOMAIN image : m[p] = image[p]

LEMMA HeldIs ==
  /\ \A image : InMemory(image) <=> Held(image, mem, used)
  /\ InMemory(job.image)' <=> Held(job'.image, mem', used')
  /\ (\A l \in loaded : InMemory(l.image))' <=> \A l \in loaded' : Held(l.image, mem', used')
BY DEF InMemory, Held

\* A chunk is filled with what a file declares.
LEMMA FilledIsKept ==
  ASSUME TypeOK, OnlyOwnChunks, NEW new, CanAllocate(new), used' = used \cup new,
         NEW content, content = [p \in new |-> content[p]], Filled(mem, new, content, mem')
  PROVE  /\ OnlyOwnChunks'
         /\ \A image : Held(image, mem, used) => Held(image, mem', used')
         /\ Held(content, mem', used')
<1>1. new \subseteq Memory /\ new \cap used = {} /\ used \subseteq Memory
  BY ChunkIsMemory DEF TypeOK
<1>2. OnlyOwnChunks'
  BY <1>1 DEF OnlyOwnChunks, Filled
<1>3. ASSUME NEW image, Held(image, mem, used)
      PROVE  Held(image, mem', used')
  <2>1. \A p \in used : mem'[p] = mem[p]
    BY <1>1 DEF Filled
  <2>. QED  BY <1>3, <2>1 DEF Held
<1>4. Held(content, mem', used')
  <2>1. DOMAIN content = new
    OBVIOUS
  <2>. QED  BY <2>1 DEF Held, Filled
<1>. QED  BY <1>2, <1>3, <1>4

\* A chunk is given out and nothing is written.
LEMMA UnwrittenIsKept ==
  ASSUME OnlyOwnChunks, used \subseteq used', mem' = mem
  PROVE  /\ OnlyOwnChunks'
         /\ \A image : Held(image, mem, used) => Held(image, mem', used')
BY DEF OnlyOwnChunks, Held

\* What a step has to show: memory is kept, and the images that are new are there.
LEMMA ImagesKeptBy ==
  ASSUME ImagesKept, OnlyOwnChunks',
         \A image : Held(image, mem, used) => Held(image, mem', used'),
         \A l \in loaded' : l \in loaded \/ Held(l.image, mem', used'),
         pc' = "loading" => Held(job'.image, mem', used')
  PROVE  ImagesKept'
<1>1. \A l \in loaded' : Held(l.image, mem', used')
  BY HeldIs DEF ImagesKept
<1>. QED  BY <1>1, HeldIs DEF ImagesKept

\* A step that writes nothing and completes no image.
LEMMA ImagesKeptStill ==
  ASSUME ImagesKept, used \subseteq used', mem' = mem, loaded' = loaded, pc' # "loading"
  PROVE  ImagesKept'
<1>1. OnlyOwnChunks
  BY DEF ImagesKept
<1>. QED  BY <1>1, UnwrittenIsKept, ImagesKeptBy

LEMMA NoPages == \A at : at \in Nat => Pages(at, 0) = {}
<1>1. ASSUME NEW at \in Nat, NEW p \in Pages(at, 0) PROVE FALSE
  BY DEF Pages
<1>. QED  BY <1>1

\* A file without zeros after it is loaded as a piece without them.
LEMMA NoZeros ==
  ASSUME NEW m, m = [p \in Memory |-> m[p]], NEW at \in Nat
  PROVE  Write(m, at, Zeros(0)) = m
<1>1. Len(Zeros(0)) = 0
  BY DataIs
<1>2. Pages(at, Len(Zeros(0))) = {}
  BY <1>1, NoPages
<1>. QED  BY <1>2 DEF Write

\* A file read whole is loaded like a piece of one.
LEMMA FileFills ==
  ASSUME TypeOK, NEW k \in DOMAIN Files, NEW at \in Nat, NEW torn,
         CanAllocate(Pages(at, Files[k].pages))
  PROVE  /\ Filled(mem, Pages(at, Files[k].pages), Declared(k, WholeFile(k), at, torn),
                   Write(mem, at, Data(k, "file", Files[k].pages, torn)))
         /\ Declared(k, WholeFile(k), at, torn)
              = [p \in Pages(at, Files[k].pages) |-> Declared(k, WholeFile(k), at, torn)[p]]
         /\ DOMAIN Declared(k, WholeFile(k), at, torn) = Pages(at, Files[k].pages)
<1>. DEFINE n == Files[k].pages
            piece == WholeFile(k)
            after == Write(mem, at, Data(k, "file", n, torn))
<1>1. n \in Nat /\ n + 0 = n /\ at + n \in Nat
  BY FileIs
<1>2. piece.part = "file" /\ piece.pages = n /\ piece.bss = 0
  BY DEF WholeFile
<1>3. after = [p \in Memory |-> after[p]]
  BY WriteIsMemory
<1>. HIDE DEF n, piece, after
<1>4. Need(piece, at) = Pages(at, n)
  BY <1>1, <1>2 DEF Need
<1>5. Need(piece, at) \subseteq Memory
  BY <1>4, ChunkIsMemory DEF n
<1>6. Load(mem, k, piece, at, torn) = Write(after, at + n, Zeros(0))
  BY <1>2 DEF Load, after
<1>7. Load(mem, k, piece, at, torn) = after
  BY <1>1, <1>3, <1>6, NoZeros
<1>8. /\ Filled(mem, Need(piece, at), Declared(k, piece, at, torn), Load(mem, k, piece, at, torn))
      /\ Declared(k, piece, at, torn) = [p \in Need(piece, at) |-> Declared(k, piece, at, torn)[p]]
      /\ DOMAIN Declared(k, piece, at, torn) = Need(piece, at)
  <2>1. piece.pages \in Nat /\ piece.bss \in Nat
    BY <1>1, <1>2
  <2>. QED  BY <1>5, <2>1, LoadFills
<1>. QED  BY <1>4, <1>7, <1>8 DEF n, piece, after

\* An a.out kernel is loaded like a piece of a file, where a header that leaves
\* its end open has no bss.
LEMMA AoutFills ==
  ASSUME TypeOK, BssIsPlaced, NEW k \in DOMAIN Files, NEW torn, CanAllocate(AoutChunk(Files[k]))
  PROVE  LET f == Files[k]
         IN /\ Filled(mem, AoutChunk(f), AoutDeclared(k, torn),
                      Write(Write(mem, f.load, Data(k, "file", f.pages, torn)),
                            BssStart(f), Zeros(BssLen(f))))
            /\ AoutDeclared(k, torn) = [p \in AoutChunk(f) |-> AoutDeclared(k, torn)[p]]
            /\ DOMAIN AoutDeclared(k, torn) = AoutChunk(f)
            /\ AoutChunk(f) = Pages(f.load, f.pages + f.bss)
<1>. DEFINE f == Files[k]
            piece == [part |-> "file", pages |-> f.pages, bss |-> f.bss]
            first == Write(mem, f.load, Data(k, "file", f.pages, torn))
            after == Write(first, BssStart(f), Zeros(BssLen(f)))
<1>1. /\ f.pages \in Nat /\ f.load \in Nat /\ f.bss \in Nat /\ f.toEnd \in BOOLEAN
      /\ f.load + f.pages \in Nat
  BY FileIs
<1>2. f.toEnd => f.bss = 0
  BY DEF BssIsPlaced
<1>3. piece.part = "file" /\ piece.pages = f.pages /\ piece.bss = f.bss
  OBVIOUS
<1>. HIDE DEF piece
<1>4. BssLen(f) = f.bss
  BY <1>1, <1>2 DEF BssLen
<1>5. AoutChunk(f) = Need(piece, f.load)
  BY <1>3, <1>4 DEF AoutChunk, Need
<1>6. AoutDeclared(k, torn) = Declared(k, piece, f.load, torn)
  BY DEF AoutDeclared, piece
<1>7. first = [p \in Memory |-> first[p]]
  BY WriteIsMemory
<1>8. Load(mem, k, piece, f.load, torn) = Write(first, f.load + f.pages, Zeros(f.bss))
  BY <1>3 DEF Load
<1>9. after = Load(mem, k, piece, f.load, torn)
  <2>1. CASE f.toEnd
    <3>1. BssStart(f) = 0 /\ 0 \in Nat
      BY <2>1 DEF BssStart
    <3>2. Write(first, 0, Zeros(0)) = first /\ Write(first, f.load + f.pages, Zeros(0)) = first
      <4>. DEFINE m == first
      <4>. HIDE DEF m
      <4>1. m = [p \in Memory |-> m[p]]
        BY <1>7 DEF m
      <4>2. Write(m, 0, Zeros(0)) = m /\ Write(m, f.load + f.pages, Zeros(0)) = m
        BY <1>1, <4>1, NoZeros
      <4>. QED  BY <4>2 DEF m
    <3>. QED  BY <1>2, <1>4, <1>8, <2>1, <3>1, <3>2
  <2>2. CASE ~ f.toEnd
    BY <1>4, <1>8, <2>2 DEF BssStart
  <2>. QED  BY <1>1, <2>1, <2>2
<1>10. Need(piece, f.load) \subseteq Memory
  BY <1>5, ChunkIsMemory
<1>. HIDE DEF first, after
<1>11. /\ Filled(mem, Need(piece, f.load), Declared(k, piece, f.load, torn), Load(mem, k, piece, f.load, torn))
       /\ Declared(k, piece, f.load, torn)
            = [p \in Need(piece, f.load) |-> Declared(k, piece, f.load, torn)[p]]
       /\ DOMAIN Declared(k, piece, f.load, torn) = Need(piece, f.load)
  <2>1. piece.pages \in Nat /\ piece.bss \in Nat
    BY <1>1, <1>3
  <2>. DEFINE at == f.load
  <2>2. at \in Nat /\ Need(piece, at) \subseteq Memory
    BY <1>1, <1>10
  <2>. HIDE DEF at
  <2>3. /\ Filled(mem, Need(piece, at), Declared(k, piece, at, torn), Load(mem, k, piece, at, torn))
        /\ Declared(k, piece, at, torn) = [p \in Need(piece, at) |-> Declared(k, piece, at, torn)[p]]
        /\ DOMAIN Declared(k, piece, at, torn) = Need(piece, at)
    BY <2>1, <2>2, LoadFills
  <2>. QED  BY <2>3 DEF at
<1>12. AoutChunk(f) = Pages(f.load, f.pages + f.bss)
  BY <1>4 DEF AoutChunk
<1>. QED  BY <1>5, <1>6, <1>9, <1>11, <1>12 DEF first, after

LEMMA ImagesInit == Init => ImagesKept
BY DEF Init, ImagesKept, OnlyOwnChunks

\* A step that fills a chunk with what it adds to the images.
LEMMA ImagesFilled ==
  ASSUME TypeOK, ImagesKept, NEW new, CanAllocate(new), used' = used \cup new,
         NEW content, content = [p \in new |-> content[p]], Filled(mem, new, content, mem'),
         NEW l, l.image = content, loaded' = loaded \cup {l}, pc' # "loading"
  PROVE  ImagesKept'
<1>1. /\ OnlyOwnChunks' /\ Held(content, mem', used')
      /\ \A image : Held(image, mem, used) => Held(image, mem', used')
  BY FilledIsKept DEF ImagesKept
<1>2. \A x \in loaded' : x \in loaded \/ Held(x.image, mem', used')
  BY <1>1
<1>. QED  BY <1>1, <1>2, ImagesKeptBy

LEMMA ImagesAout ==
  ASSUME TypeOK, ImagesKept, BssIsPlaced, NEW line \in Lines, Aout(line)
  PROVE  ImagesKept'
<1>. DEFINE k == On(line)
<1>1. k \in DOMAIN Files
  BY FoundIs DEF Aout
<1>2. CASE AoutFails(line, k)
  <2>1. used \subseteq used' /\ mem' = mem /\ loaded' = loaded /\ pc' # "loading"
    BY <1>2 DEF AoutFails, Stop
  <2>. QED  BY <2>1, ImagesKeptStill
<1>3. ASSUME NEW torn \in Torn, AoutLoads(line, k, torn)
      PROVE  ImagesKept'
  <2>. DEFINE new == AoutChunk(Files[k])
              content == AoutDeclared(k, torn)
              l == [file |-> k, how |-> "multiboot", image |-> content]
  <2>1. CanAllocate(new) /\ used' = used \cup new
    BY <1>3 DEF AoutLoads
  <2>2. content = [p \in new |-> content[p]] /\ Filled(mem, new, content, mem')
    <3>1. mem' = Write(Write(mem, Files[k].load, Data(k, "file", Files[k].pages, torn)),
                       BssStart(Files[k]), Zeros(BssLen(Files[k])))
      BY <1>3 DEF AoutLoads
    <3>. QED  BY <1>1, <2>1, <3>1, AoutFills
  <2>3. loaded' = loaded \cup {l} /\ pc' # "loading"
    BY <1>3 DEF AoutLoads, FinishMultiboot, NextLine
  <2>4. l.image = content
    OBVIOUS
  <2>. HIDE DEF new, content, l
  <2>. QED  BY <2>1, <2>2, <2>3, <2>4, ImagesFilled
<1>. QED  BY <1>2, <1>3 DEF Aout

\* An ELF file is begun: nothing of it is in memory yet.
LEMMA ImagesStart ==
  ASSUME ImagesKept, mem' = mem, used' = used, loaded' = loaded, job'.image = <<>>
  PROVE  ImagesKept'
<1>1. Held(<<>>, mem', used')
  BY DEF Held
<1>. QED  BY <1>1, UnwrittenIsKept, ImagesKeptBy DEF ImagesKept

LEMMA ImagesMultibootElf ==
  ASSUME ImagesKept, NEW line \in Lines, MultibootElf(line)
  PROVE  ImagesKept'
<1>1. mem' = mem /\ used' = used /\ loaded' = loaded
  BY DEF MultibootElf, memory
<1>2. CASE Stop
  BY <1>1, <1>2, ImagesKeptStill DEF Stop
<1>3. CASE StartJob("multiboot", line, Pieces(On(line)))
  BY <1>1, <1>3, ImagesStart DEF StartJob
<1>. QED  BY <1>2, <1>3 DEF MultibootElf

\* An image that a piece is added to.
LEMMA WithIsHeld ==
  ASSUME NEW d, NEW image, NEW m, NEW chunks, Held(d, m, chunks), Held(image, m, chunks)
  PROVE  Held(With(d, image), m, chunks)
BY DEF Held, With

\* Placing a piece fills the chunk it is given.
LEMMA PieceFills ==
  ASSUME TypeOK, pc = "loading", job.todo # <<>>, NEW at \in Nat,
         NEW torn, PlacePiece(at, torn),
         CanAllocate(Need(Piece, at))
  PROVE  /\ Filled(mem, Need(Piece, at), Declared(job.file, Piece, at, torn), mem')
         /\ Declared(job.file, Piece, at, torn)
              = [p \in Need(Piece, at) |-> Declared(job.file, Piece, at, torn)[p]]
         /\ DOMAIN Declared(job.file, Piece, at, torn) = Need(Piece, at)
<1>1. Piece.pages \in Nat /\ Piece.bss \in Nat
  BY PieceIs
<1>2. Need(Piece, at) \subseteq Memory
  BY ChunkIsMemory
<1>3. mem' = Load(mem, job.file, Piece, at, torn)
  BY DEF PlacePiece
<1>. DEFINE piece == Piece
            k == job.file
<1>. HIDE DEF piece, k
<1>4. /\ Filled(mem, Need(piece, at), Declared(k, piece, at, torn), Load(mem, k, piece, at, torn))
      /\ Declared(k, piece, at, torn) = [p \in Need(piece, at) |-> Declared(k, piece, at, torn)[p]]
      /\ DOMAIN Declared(k, piece, at, torn) = Need(piece, at)
  <2>1. piece.pages \in Nat /\ piece.bss \in Nat
    BY <1>1 DEF piece
  <2>2. Need(piece, at) \subseteq Memory
    BY <1>2 DEF piece
  <2>. QED  BY ONLY <2>1, <2>2, at \in Nat, LoadFills
<1>. QED  BY <1>3, <1>4 DEF piece, k

LEMMA ImagesPiece ==
  ASSUME TypeOK, ImagesKept, pc = "loading", job.todo # <<>>, NEW at \in Nat,
         NEW torn, PlacePiece(at, torn),
         CanAllocate(Need(Piece, at)), loaded' = loaded
  PROVE  ImagesKept'
<1>. DEFINE new == Need(Piece, at)
            content == Declared(job.file, Piece, at, torn)
<1>1. content = [p \in new |-> content[p]] /\ Filled(mem, new, content, mem')
  BY PieceFills
<1>2. used' = used \cup new
  BY DEF PlacePiece
<1>3. job'.image = With(content, job.image)
  BY PieceIs, PlacingIs
<1>4. CanAllocate(new)
  OBVIOUS
<1>. HIDE DEF new, content
<1>5. /\ OnlyOwnChunks' /\ Held(content, mem', used')
      /\ \A image : Held(image, mem, used) => Held(image, mem', used')
  BY <1>1, <1>2, <1>4, FilledIsKept DEF ImagesKept
<1>6. Held(job.image, mem', used')
  BY <1>5, HeldIs DEF ImagesKept
<1>7. Held(job'.image, mem', used')
  BY <1>3, <1>5, <1>6, WithIsHeld
<1>. QED  BY <1>5, <1>7, ImagesKeptBy

LEMMA ImagesPieceIsShort ==
  ASSUME ImagesKept, NEW at, PieceIsShort(at)
  PROVE  ImagesKept'
<1>1. used \subseteq used' /\ mem' = mem /\ loaded' = loaded /\ pc' # "loading"
  BY DEF PieceIsShort, Stop, history
<1>. QED  BY <1>1, ImagesKeptStill

LEMMA ImagesLoadSegment ==
  ASSUME TypeOK, ImagesKept, LoadSegment
  PROVE  ImagesKept'
<1>1. pc = "loading" /\ job.todo # <<>> /\ CanAllocate(Need(Piece, Piece.phys))
  BY DEF LoadSegment, Loading
<1>2. Piece.phys \in Nat
  BY <1>1, PieceIs
<1>3. ASSUME NEW torn \in Torn, PlacePiece(Piece.phys, torn) /\ UNCHANGED history
      PROVE  ImagesKept'
  <2>1. loaded' = loaded
    BY <1>3 DEF history
  <2>. QED  BY <1>1, <1>2, <1>3, <2>1, ImagesPiece
<1>. QED  BY <1>3, ImagesPieceIsShort DEF LoadSegment

LEMMA ImagesLoadSection ==
  ASSUME TypeOK, ImagesKept, LoadSection
  PROVE  ImagesKept'
<1>. DEFINE at == AnyChunk(Piece.pages + Piece.bss)
<1>1. pc = "loading" /\ job.todo # <<>>
  BY DEF LoadSection, Loading
<1>2. at \in Nat
  BY <1>1, PieceIs, PlacesAre DEF TypeOK
<1>3. ASSUME NEW torn \in Torn, at > 0 /\ PlacePiece(at, torn) /\ UNCHANGED history
      PROVE  ImagesKept'
  <2>1. CanAllocate(Pages(at, Piece.pages + Piece.bss))
    BY <1>1, <1>2, <1>3, PieceIs, AnyChunkIsChunk
  <2>2. CanAllocate(Need(Piece, at)) /\ loaded' = loaded
    BY <1>3, <2>1 DEF Need, history
  <2>. QED  BY <1>1, <1>2, <1>3, <2>2, ImagesPiece
<1>4. CASE Stop /\ UNCHANGED <<memory, history>>
  <2>1. used' = used /\ mem' = mem /\ loaded' = loaded /\ pc' # "loading"
    BY <1>4 DEF Stop, memory, history
  <2>. QED  BY <2>1, ImagesKeptStill
<1>5. CASE PieceIsShort(at)
  BY <1>5, ImagesPieceIsShort
<1>. QED  BY <1>3, <1>4, <1>5 DEF LoadSection

\* The image of an ELF file is complete, and is in memory already.
LEMMA ImagesFinishElf ==
  ASSUME ImagesKept, FinishElf
  PROVE  ImagesKept'
<1>1. mem' = mem /\ used' = used /\ pc' # "loading" /\ pc = "loading"
  BY DEF FinishElf, memory, FinishMultiboot, NextLine
<1>2. PICK how : loaded' = loaded \cup {[file |-> job.file, how |-> how, image |-> job.image]}
  BY DEF FinishElf, FinishMultiboot
<1>3. Held(job.image, mem', used')
  BY <1>1, HeldIs DEF ImagesKept
<1>4. \A l \in loaded' : l \in loaded \/ Held(l.image, mem', used')
  BY <1>2, <1>3
<1>. QED  BY <1>1, <1>4, UnwrittenIsKept, ImagesKeptBy DEF ImagesKept

LEMMA ImagesKernelElf ==
  ASSUME ImagesKept, NEW line \in Lines, KernelElf(line)
  PROVE  ImagesKept'
<1>1. mem' = mem /\ used' = used /\ loaded' = loaded /\ job'.image = <<>>
  BY DEF KernelElf, StartJob, memory, history
<1>. QED  BY <1>1, ImagesStart

LEMMA ImagesPlaceFile ==
  ASSUME TypeOK, ImagesKept, NEW k \in DOMAIN Files, NEW how, NEW at \in Nat,
         NEW torn, PlaceFile(k, how, at, torn), NextLine, CanAllocate(Pages(at, Files[k].pages))
  PROVE  ImagesKept'
<1>. DEFINE new == Pages(at, Files[k].pages)
            content == Declared(k, WholeFile(k), at, torn)
            l == [file |-> k, how |-> how, image |-> content]
<1>1. content = [p \in new |-> content[p]] /\ Filled(mem, new, content, mem')
  BY FileFills DEF PlaceFile
<1>2. CanAllocate(new) /\ used' = used \cup new /\ loaded' = loaded \cup {l}
  BY DEF PlaceFile
<1>3. l.image = content /\ pc' # "loading"
  BY DEF NextLine
<1>. HIDE DEF new, content, l
<1>. QED  BY <1>1, <1>2, <1>3, ImagesFilled

LEMMA ImagesFileIsShort ==
  ASSUME ImagesKept, NEW k, NEW at, FileIsShort(k, at)
  PROVE  ImagesKept'
<1>1. used \subseteq used' /\ mem' = mem /\ loaded' = loaded /\ pc' # "loading"
  BY DEF FileIsShort, Stop
<1>. QED  BY <1>1, ImagesKeptStill

LEMMA ImagesKernelFlat ==
  ASSUME TypeOK, ImagesKept, NEW line \in Lines, KernelFlat(line)
  PROVE  ImagesKept'
<1>. DEFINE k == On(line)
            n == Files[k].pages
            at == LoadAddress(n)
<1>1. k \in DOMAIN Files
  BY FoundIs DEF KernelFlat
<1>2. at \in Nat /\ (at > 0 => CanAllocate(Pages(at, n)))
  BY <1>1, FileIs, PlacesAre DEF TypeOK
<1>3. ASSUME NEW torn \in Torn, at > 0 /\ PlaceFile(k, "kernel", at, torn) /\ NextLine
      PROVE  ImagesKept'
  BY <1>1, <1>2, <1>3, ImagesPlaceFile
<1>4. CASE FileIsShort(k, at)
  BY <1>4, ImagesFileIsShort
<1>5. CASE Stop /\ UNCHANGED <<memory, loaded>>
  BY <1>5, ImagesKeptStill DEF Stop, memory
<1>. QED  BY <1>3, <1>4, <1>5 DEF KernelFlat

LEMMA ImagesModule ==
  ASSUME TypeOK, ImagesKept, NEW line \in Lines, Module(line)
  PROVE  ImagesKept'
<1>. DEFINE k == On(line)
            n == Files[k].pages
            at == AnyChunk(n)
<1>1. k \in DOMAIN Files
  BY FoundIs DEF Module
<1>2. at \in Nat /\ (at > 0 => CanAllocate(Pages(at, n)))
  BY <1>1, FileIs, PlacesAre, AnyChunkIsChunk DEF TypeOK
<1>3. ASSUME NEW torn \in Torn, at > 0 /\ PlaceFile(k, "module", at, torn) /\ NextLine
      PROVE  ImagesKept'
  BY <1>1, <1>2, <1>3, ImagesPlaceFile
<1>4. CASE FileIsShort(k, at)
  BY <1>4, ImagesFileIsShort
<1>5. CASE Stop /\ UNCHANGED <<memory, loaded>>
  BY <1>5, ImagesKeptStill DEF Stop, memory
<1>. QED  BY <1>3, <1>4, <1>5 DEF Module

LEMMA ImagesQuiet ==
  ASSUME ImagesKept,
         \/ \E line \in Lines : Quiet(line)
         \/ RefuseSegment \/ KernelReturns \/ FinishConfig
  PROVE  ImagesKept'
<1>1. mem' = mem /\ used' = used /\ loaded' = loaded
  BY DEF Quiet, LineFails, NotMultiboot, KernelLinux, EntryAddr, BinaryLoadAddr, NoKernel, Boot,
         RefuseSegment, KernelReturns, FinishConfig, memory, history
<1>2. pc' # "loading"
  BY DEF Quiet, LineFails, NotMultiboot, KernelLinux, EntryAddr, BinaryLoadAddr, NoKernel, Boot,
         RefuseSegment, KernelReturns, FinishConfig, Stop, NextLine
<1>. QED  BY <1>1, <1>2, ImagesKeptStill

LEMMA ImagesNext == BssIsPlaced /\ TypeOK /\ ImagesKept /\ [Next]_vars => ImagesKept'
<1>. SUFFICES ASSUME BssIsPlaced, TypeOK, ImagesKept, [Next]_vars PROVE ImagesKept'
  OBVIOUS
<1>1. ASSUME NEW line \in Lines, RunLine(line) PROVE ImagesKept'
  BY <1>1, ImagesAout, ImagesMultibootElf, ImagesKernelElf, ImagesKernelFlat, ImagesModule,
     ImagesQuiet DEF RunLine, Quiet
<1>2. CASE RefuseSegment \/ KernelReturns \/ FinishConfig
  BY <1>2, ImagesQuiet
<1>3. CASE LoadSegment \/ LoadSection \/ FinishElf
  BY <1>3, ImagesLoadSegment, ImagesLoadSection, ImagesFinishElf
<1>4. CASE UNCHANGED vars
  BY <1>4 DEF vars, config, memory, history, ImagesKept, InMemory, OnlyOwnChunks
<1>. QED  BY <1>1, <1>2, <1>3, <1>4 DEF Next

\* The images that are loaded and the one being loaded are in chunks of their own
\* and in memory, and nothing is written outside chunks (multiboot.c:267-308,
\* 370-380, 417-431, 549-560, 666-683).
THEOREM ImagesInvariant == ASSUME BssIsPlaced PROVE Spec => []ImagesKept
<1>1. Init => TypeOK /\ ImagesKept
  BY TypeInit, ImagesInit
<1>2. TypeOK /\ ImagesKept /\ [Next]_vars => (TypeOK /\ ImagesKept)'
  BY TypeNext, ImagesNext
<1>. QED  BY <1>1, <1>2, PTL DEF Spec

\* An image that was loaded completely is in memory as its file describes it,
\* whatever is loaded after it.
THEOREM ImagesStay == ASSUME BssIsPlaced PROVE Spec => []ImagesIntact
<1>1. ImagesKept => ImagesIntact
  BY DEF ImagesKept, InMemory, ImagesIntact
<1>. QED  BY <1>1, ImagesInvariant, PTL

\* The loader writes the chunks it allocated and no other memory.
THEOREM ChunksOnly == ASSUME BssIsPlaced PROVE Spec => []OnlyOwnChunks
<1>1. ImagesKept => OnlyOwnChunks
  BY DEF ImagesKept
<1>. QED  BY <1>1, ImagesInvariant, PTL

-------------------------------------------------------------------------------
(***************************************************************************)
(* The list of modules, while the memory it tells of is kept.              *)
(***************************************************************************)

\* A page of a module in the list, which may be junk if it is the last one.
PageListed(entry, p, m) ==
  \/ m[p] = <<entry.file, "file", p - entry.start + 1>>
  \/ p + 1 = entry.end /\ m[p] = Junk

\* Lists, of any images and any memory.
IsListOf(list, images, m) ==
  /\ {Extent(list[i]) : i \in DOMAIN list} = {DOMAIN l.image : l \in {x \in images : x.how = "module"}}
  /\ \A i, j \in DOMAIN list :
       i # j => list[i].end <= list[j].start \/ list[j].end <= list[i].start
  /\ \A i \in DOMAIN list : \A p \in Extent(list[i]) : PageListed(list[i], p, m)

\* The modules are in chunks of their own.
InChunks(list, chunks) ==
  \A i \in DOMAIN list : list[i].start < list[i].end /\ Extent(list[i]) \subseteq chunks

\* What is said of the modules in the information.
ModulesTold ==
  /\ mbinfo # NoInfo /\ 3 \in mbinfo.flags => mods # <<>>
  /\ pc = "running" /\ r0 = "magic" =>
       mbinfo.mods = mods /\ (3 \in mbinfo.flags <=> mods # <<>>)

LEMMA ModulesKeptIs ==
  /\ ModulesKept <=> IsListOf(mods, loaded, mem) /\ InChunks(mods, used) /\ ModulesTold
  /\ ModulesKept' <=> IsListOf(mods', loaded', mem') /\ InChunks(mods', used') /\ ModulesTold'
  /\ \A list : Lists(list) <=> IsListOf(list, loaded, mem)
BY DEF ModulesKept, Lists, IsListOf, PageListed, InChunks, ModulesTold

\* Steps that add no module keep those there are.
LEMMA ModulesStay ==
  ASSUME ModulesKept, ModulesTold', mods' = mods, used \subseteq used',
         \A p \in used : mem'[p] = mem[p],
         {l \in loaded' : l.how = "module"} = {l \in loaded : l.how = "module"}
  PROVE  ModulesKept'
<1>1. IsListOf(mods, loaded, mem) /\ InChunks(mods, used)
  BY ModulesKeptIs
<1>2. \A i \in DOMAIN mods : \A p \in Extent(mods[i]) : mem'[p] = mem[p]
  BY <1>1 DEF InChunks
<1>3. IsListOf(mods', loaded', mem')
  <2>1. \A i \in DOMAIN mods : \A p \in Extent(mods[i]) : PageListed(mods[i], p, mem')
    <3>1. ASSUME NEW i \in DOMAIN mods, NEW p \in Extent(mods[i])
          PROVE  PageListed(mods[i], p, mem')
      <4>1. PageListed(mods[i], p, mem) /\ mem'[p] = mem[p]
        BY <1>1, <1>2 DEF IsListOf
      <4>2. QED
        BY ONLY <4>1 DEF PageListed
    <3>2. QED
      BY ONLY <3>1
  <2>2. QED
    BY <1>1, <2>1 DEF IsListOf
<1>4. InChunks(mods', used')
  BY <1>1 DEF InChunks
<1>. QED  BY <1>3, <1>4, ModulesKeptIs

\* A step that fills a chunk and adds the image of a kernel, or none.
LEMMA ModulesStayFilled ==
  ASSUME TypeOK, ModulesKept, ModulesTold', mods' = mods,
         NEW new, CanAllocate(new), used' = used \cup new,
         NEW content, Filled(mem, new, content, mem'),
         NEW l, loaded' = loaded \/ (loaded' = loaded \cup {l} /\ l.how # "module")
  PROVE  ModulesKept'
<1>1. \A p \in used : mem'[p] = mem[p]
  BY ChunkIsMemory DEF TypeOK, Filled
<1>2. {x \in loaded' : x.how = "module"} = {x \in loaded : x.how = "module"}
  OBVIOUS
<1>. QED  BY <1>1, <1>2, ModulesStay

\* Two extents without a page in common, neither empty, are one after the other.
LEMMA ExtentsApart ==
  ASSUME NEW a \in Nat, NEW b \in Nat, NEW c \in Nat, NEW d \in Nat, a < b, c < d,
         (a .. b - 1) \cap (c .. d - 1) = {}
  PROVE  b <= c \/ d <= a
<1>1. CASE a <= c
  <2>1. c \in c .. d - 1
    OBVIOUS
  <2>2. c \notin a .. b - 1
    BY <2>1
  <2>. QED  BY <1>1, <2>2
<1>2. CASE c < a
  <2>1. a \in a .. b - 1
    OBVIOUS
  <2>2. a \notin c .. d - 1
    BY <2>1
  <2>. QED  BY <1>2, <2>2
<1>. QED  BY <1>1, <1>2

ModuleSet == [file : DOMAIN Files, start : Nat, end : Nat]

\* The newest module is put before the list of the others.
LEMMA ModuleAdded ==
  ASSUME NEW list \in Seq(ModuleSet), NEW m \in ModuleSet
  PROVE  /\ <<m>> \o list # <<>> /\ DOMAIN (<<m>> \o list) = 1 .. Len(list) + 1
         /\ Len(list) \in Nat /\ DOMAIN list = 1 .. Len(list)
         /\ (<<m>> \o list)[1] = m
         /\ \A i \in DOMAIN (<<m>> \o list) :
              i = 1 \/ (i - 1 \in DOMAIN list /\ (<<m>> \o list)[i] = list[i - 1])
         /\ \A i \in DOMAIN list :
              i + 1 \in DOMAIN (<<m>> \o list) /\ (<<m>> \o list)[i + 1] = list[i]
         /\ \A i \in DOMAIN list : list[i] \in ModuleSet
<1>. DEFINE new == <<m>> \o list
<1>. HIDE DEF ModuleSet
<1>1. /\ new \in Seq(ModuleSet) /\ Len(new) = Len(list) + 1 /\ Len(list) \in Nat
      /\ DOMAIN list = 1 .. Len(list) /\ DOMAIN new = 1 .. Len(list) + 1
  OBVIOUS
<1>2. new[1] = m
  OBVIOUS
<1>3. \A i \in 1 .. Len(list) : new[i + 1] = list[i]
  OBVIOUS
<1>4. new # <<>>
  BY <1>1
<1>5. \A i \in DOMAIN list : list[i] \in ModuleSet
  OBVIOUS
<1>. HIDE DEF new
<1>6. \A i \in DOMAIN new : i = 1 \/ (i - 1 \in DOMAIN list /\ new[i] = list[i - 1])
  <2>1. SUFFICES ASSUME NEW i \in DOMAIN new, i # 1
                 PROVE  i - 1 \in DOMAIN list /\ new[i] = list[i - 1]
    OBVIOUS
  <2>2. i - 1 \in 1 .. Len(list) /\ (i - 1) + 1 = i
    BY <1>1, <2>1
  <2>. QED  BY <1>1, <1>3, <2>2
<1>7. \A i \in DOMAIN list : i + 1 \in DOMAIN new /\ new[i + 1] = list[i]
  BY <1>1, <1>3
<1>. QED  BY <1>1, <1>2, <1>4, <1>5, <1>6, <1>7 DEF new

\* A module that is loaded is put into the list with the pages it is in.
LEMMA ModuleListed ==
  ASSUME TypeOK, ModulesKept, NEW k \in DOMAIN Files, NEW at \in Nat,
         NEW torn, PlaceFile(k, "module", at, torn), CanAllocate(Pages(at, Files[k].pages)),
         mods' = <<ModuleAt(k, at)>> \o mods
  PROVE  IsListOf(mods', loaded', mem') /\ InChunks(mods', used') /\ mods' # <<>>
<1>. DEFINE n == Files[k].pages
            chunk == Pages(at, n)
            m == ModuleAt(k, at)
            content == Declared(k, WholeFile(k), at, torn)
            image == [file |-> k, how |-> "module", image |-> content]
            list == mods'
<1>1. n \in Nat \ {0}
  BY FileIs
<1>2. /\ used' = used \cup chunk /\ chunk \cap used = {} /\ chunk \subseteq Memory
      /\ loaded' = loaded \cup {image} /\ used \subseteq Memory
  BY ChunkIsMemory DEF PlaceFile, TypeOK
<1>3. Filled(mem, chunk, content, mem') /\ DOMAIN content = chunk
  BY FileFills DEF PlaceFile
<1>4. /\ m \in ModuleSet /\ m.file = k /\ m.start = at /\ m.end = at + n
  BY <1>1 DEF ModuleAt, ModuleSet
<1>5. image.how = "module" /\ image.image = content
  OBVIOUS
<1>6. Extent(m) = chunk
  <2>1. Extent(m) = at .. at + n - 1
    BY <1>1, <1>4 DEF Extent
  <2>. QED  BY <1>1, <2>1 DEF Pages
<1>7. \A p \in chunk : \/ content[p] = <<k, "file", p - at + 1>>
                       \/ p + 1 = at + n /\ content[p] = Junk
  <2>1. \A p \in chunk : p < at + n /\ (p - at + 1 = n => p + 1 = at + n)
    BY <1>1 DEF Pages
  <2>2. WholeFile(k).pages = n /\ WholeFile(k).bss = 0 /\ WholeFile(k).part = "file" /\ n + 0 = n
    BY <1>1 DEF WholeFile
  <2>3. \A p \in chunk : content[p] = Delivered(k, "file", p - at + 1, n, torn)
    BY <2>1, <2>2 DEF Declared
  <2>. QED  BY <2>1, <2>3 DEF Delivered
<1>8. mods \in Seq(ModuleSet)
  BY DEF TypeOK, ModuleSet
<1>9. IsListOf(mods, loaded, mem) /\ InChunks(mods, used)
  BY ModulesKeptIs
<1>10. /\ list # <<>> /\ DOMAIN list = 1 .. Len(mods) + 1 /\ Len(mods) \in Nat
       /\ DOMAIN mods = 1 .. Len(mods) /\ list[1] = m
       /\ \A i \in DOMAIN list : i = 1 \/ (i - 1 \in DOMAIN mods /\ list[i] = mods[i - 1])
       /\ \A i \in DOMAIN mods : i + 1 \in DOMAIN list /\ list[i + 1] = mods[i]
       /\ \A i \in DOMAIN mods : mods[i] \in ModuleSet
  BY <1>4, <1>8, ModuleAdded
<1>. HIDE DEF n, chunk, m, content, image, list
<1>11. {Extent(list[i]) : i \in DOMAIN list}
         = {DOMAIN l.image : l \in {x \in loaded' : x.how = "module"}}
  <2>1. {Extent(list[i]) : i \in DOMAIN list} = {chunk} \cup {Extent(mods[i]) : i \in DOMAIN mods}
    <3>1. ASSUME NEW i \in DOMAIN list
          PROVE  Extent(list[i]) \in {chunk} \cup {Extent(mods[j]) : j \in DOMAIN mods}
      BY <1>6, <1>10
    <3>2. ASSUME NEW i \in DOMAIN mods
          PROVE  Extent(mods[i]) \in {Extent(list[j]) : j \in DOMAIN list}
      BY <1>10
    <3>3. 1 \in DOMAIN list /\ Extent(list[1]) = chunk
      BY <1>6, <1>10
    <3>. QED  BY <3>1, <3>2, <3>3
  <2>2. {x \in loaded' : x.how = "module"} = {x \in loaded : x.how = "module"} \cup {image}
    BY <1>2, <1>5
  <2>3. {DOMAIN l.image : l \in {x \in loaded : x.how = "module"} \cup {image}}
          = {DOMAIN l.image : l \in {x \in loaded : x.how = "module"}} \cup {chunk}
    BY <1>3, <1>5
  <2>4. {Extent(mods[i]) : i \in DOMAIN mods}
          = {DOMAIN l.image : l \in {x \in loaded : x.how = "module"}}
    BY <1>9 DEF IsListOf
  <2>. QED  BY <2>1, <2>2, <2>3, <2>4
<1>12. InChunks(list, used')
  <2>1. SUFFICES ASSUME NEW i \in DOMAIN list
                 PROVE  list[i].start < list[i].end /\ Extent(list[i]) \subseteq used'
    BY DEF InChunks
  <2>2. CASE i = 1
    BY <1>1, <1>2, <1>4, <1>6, <1>10, <2>2
  <2>3. CASE i # 1
    BY <1>2, <1>9, <1>10, <2>3 DEF InChunks
  <2>. QED  BY <2>2, <2>3
<1>13. \A i \in DOMAIN mods : m.end <= mods[i].start \/ mods[i].end <= m.start
  <2>1. SUFFICES ASSUME NEW i \in DOMAIN mods
                 PROVE  m.end <= mods[i].start \/ mods[i].end <= m.start
    OBVIOUS
  <2>2. /\ mods[i].start \in Nat /\ mods[i].end \in Nat /\ m.start \in Nat /\ m.end \in Nat
    BY <1>4, <1>10 DEF ModuleSet
  <2>3. m.start < m.end /\ mods[i].start < mods[i].end
    BY <1>1, <1>4, <1>9 DEF InChunks
  <2>4. Extent(m) \cap Extent(mods[i]) = {}
    BY <1>2, <1>6, <1>9 DEF InChunks
  <2>. DEFINE a == m.start
              b == m.end
              c == mods[i].start
              d == mods[i].end
  <2>5. (a .. b - 1) \cap (c .. d - 1) = {}
    BY <2>4 DEF Extent
  <2>. HIDE DEF a, b, c, d
  <2>6. b <= c \/ d <= a
    BY <2>2, <2>3, <2>5, ExtentsApart DEF a, b, c, d
  <2>. QED  BY <2>6 DEF a, b, c, d
<1>14. ASSUME NEW i \in DOMAIN list, NEW j \in DOMAIN list, i # j
       PROVE  list[i].end <= list[j].start \/ list[j].end <= list[i].start
  <2>1. CASE i = 1
    BY <1>10, <1>13, <1>14, <2>1
  <2>2. CASE j = 1
    BY <1>10, <1>13, <1>14, <2>2
  <2>3. CASE i # 1 /\ j # 1
    <3>1. i - 1 \in DOMAIN mods /\ j - 1 \in DOMAIN mods /\ i - 1 # j - 1
      BY <1>10, <1>14, <2>3
    <3>2. list[i] = mods[i - 1] /\ list[j] = mods[j - 1]
      BY <1>10, <2>3
    <3>. QED  BY <1>9, <3>1, <3>2 DEF IsListOf
  <2>. QED  BY <2>1, <2>2, <2>3
<1>15. ASSUME NEW i \in DOMAIN list, NEW p \in Extent(list[i])
       PROVE  PageListed(list[i], p, mem')
  <2>1. CASE i = 1
    <3>1. list[i] = m /\ p \in chunk
      BY <1>6, <1>10, <2>1
    <3>2. mem'[p] = content[p]
      BY <1>3, <3>1 DEF Filled
    <3>. QED  BY <1>4, <1>7, <3>1, <3>2 DEF PageListed
  <2>2. CASE i # 1
    <3>1. i - 1 \in DOMAIN mods /\ list[i] = mods[i - 1]
      BY <1>10, <2>2
    <3>2. PageListed(list[i], p, mem)
      BY <1>9, <3>1 DEF IsListOf
    <3>3. p \in used
      BY <1>9, <3>1 DEF InChunks
    <3>4. mem'[p] = mem[p]
      BY <1>2, <1>3, <3>3 DEF Filled
    <3>. QED  BY <3>2, <3>4 DEF PageListed
  <2>. QED  BY <2>1, <2>2
<1>16. IsListOf(list, loaded', mem')
  BY <1>11, <1>14, <1>15 DEF IsListOf
<1>. QED  BY <1>10, <1>12, <1>16 DEF list

LEMMA ModulesInit == Init => ModulesKept
<1>. SUFFICES ASSUME Init PROVE ModulesKept
  OBVIOUS
<1>1. mods = <<>> /\ loaded = {} /\ mbinfo = NoInfo /\ pc = "lines"
  BY DEF Init
<1>2. DOMAIN mods = {}
  BY <1>1
<1>3. Lists(mods)
  BY <1>1, <1>2 DEF Lists
<1>4. 3 \notin NoInfo.flags
  BY DEF NoInfo
<1>. QED  BY <1>1, <1>2, <1>3, <1>4 DEF ModulesKept

\* Until boot, a new information says nothing of modules.
LEMMA ToldStill ==
  ASSUME ModulesKept, pc' # "running", mods' = mods \/ mods' # <<>>,
         mbinfo' = mbinfo \/ 3 \notin mbinfo'.flags
  PROVE  ModulesTold'
BY DEF ModulesKept, ModulesTold

LEMMA NewSaysNothing ==
  ASSUME NEW k, NEW line
  PROVE  /\ 3 \notin NewInfo(k).flags
         /\ 3 \notin Described(NewInfo(k), k, line).flags
         /\ LET more == [NewInfo(k) EXCEPT !.flags = @ \cup {6}]
            IN 3 \notin Described(more, k, line).flags
<1>. DEFINE info == NewInfo(k)
            more == [info EXCEPT !.flags = @ \cup {6}]
<1>1. 3 \notin info.flags
  BY DEF NewInfo
<1>2. Full(info)
  BY NewIsFull
<1>. HIDE DEF info
<1>3. Full(more) /\ more.flags = info.flags \cup {6}
  BY <1>2, FullInfo
<1>. HIDE DEF more
<1>4. ASSUME NEW i, Full(i)
      PROVE  Described(i, k, line).flags = i.flags \cup Told
  BY <1>4, DescribedFull
<1>5. /\ Described(info, k, line).flags = info.flags \cup Told
      /\ Described(more, k, line).flags = more.flags \cup Told
  BY <1>2, <1>3, <1>4
<1>6. 3 \notin Told
  BY DEF Told
<1>. QED  BY <1>1, <1>3, <1>5, <1>6 DEF more, info

\* A step that loads nothing, before a kernel runs.
LEMMA ModulesStill ==
  ASSUME ModulesKept, pc' # "running", mods' = mods, used \subseteq used', mem' = mem,
         mbinfo' = mbinfo \/ 3 \notin mbinfo'.flags,
         {l \in loaded' : l.how = "module"} = {l \in loaded : l.how = "module"}
  PROVE  ModulesKept'
<1>1. ModulesTold'
  BY ToldStill
<1>. QED  BY <1>1, ModulesStay

LEMMA ModulesAout ==
  ASSUME TypeOK, ModulesKept, BssIsPlaced, NEW line \in Lines, Aout(line)
  PROVE  ModulesKept'
<1>. DEFINE k == On(line)
            new == AoutChunk(Files[k])
<1>1. k \in DOMAIN Files
  BY FoundIs DEF Aout
<1>2. CASE AoutFails(line, k)
  <2>1. /\ used \subseteq used' /\ mem' = mem /\ loaded' = loaded /\ pc' # "running"
        /\ mods' = mods /\ mbinfo' = NewInfo(k)
    BY <1>2 DEF AoutFails, Stop
  <2>2. 3 \notin mbinfo'.flags
    BY <2>1, NewSaysNothing
  <2>. QED  BY <2>1, <2>2, ModulesStill
<1>3. ASSUME NEW torn \in Torn, AoutLoads(line, k, torn)
      PROVE  ModulesKept'
  <2>. DEFINE l == [file |-> k, how |-> "multiboot", image |-> AoutDeclared(k, torn)]
  <2>1. /\ CanAllocate(new) /\ used' = used \cup new /\ mods' = mods
        /\ loaded' = loaded \cup {l} /\ l.how # "module" /\ pc' # "running"
        /\ mbinfo' = Described(NewInfo(k), k, line)
        /\ mem' = Write(Write(mem, Files[k].load, Data(k, "file", Files[k].pages, torn)),
                        BssStart(Files[k]), Zeros(BssLen(Files[k])))
    BY <1>3 DEF AoutLoads, FinishMultiboot, NextLine
  <2>2. Filled(mem, new, AoutDeclared(k, torn), mem')
    BY <1>1, <2>1, AoutFills
  <2>3. 3 \notin mbinfo'.flags
    BY <2>1, NewSaysNothing
  <2>4. ModulesTold'
    BY <2>1, <2>3, ToldStill
  <2>. HIDE DEF new, l
  <2>. QED  BY <2>1, <2>2, <2>4, ModulesStayFilled
<1>. QED  BY <1>2, <1>3 DEF Aout

LEMMA ModulesMultibootElf ==
  ASSUME ModulesKept, NEW line \in Lines, MultibootElf(line)
  PROVE  ModulesKept'
<1>1. /\ mem' = mem /\ used' = used /\ loaded' = loaded /\ mods' = mods
      /\ mbinfo' = NewInfo(On(line)) /\ pc' # "running"
  BY DEF MultibootElf, memory, Stop, StartJob
<1>2. 3 \notin mbinfo'.flags
  BY <1>1, NewSaysNothing
<1>. QED  BY <1>1, <1>2, ModulesStill

LEMMA ModulesPiece ==
  ASSUME TypeOK, ModulesKept, pc = "loading", job.todo # <<>>, NEW at \in Nat,
         NEW torn, PlacePiece(at, torn),
         CanAllocate(Need(Piece, at)), loaded' = loaded, UNCHANGED <<pc, mbinfo, mods>>
  PROVE  ModulesKept'
<1>1. Filled(mem, Need(Piece, at), Declared(job.file, Piece, at, torn), mem')
  BY PieceFills
<1>2. used' = used \cup Need(Piece, at)
  BY DEF PlacePiece
<1>3. ModulesTold'
  BY ToldStill
<1>. QED  BY <1>1, <1>2, <1>3, ModulesStayFilled

LEMMA ModulesPieceIsShort ==
  ASSUME ModulesKept, NEW at, PieceIsShort(at)
  PROVE  ModulesKept'
<1>1. /\ used \subseteq used' /\ mem' = mem /\ loaded' = loaded /\ pc' # "running"
      /\ mods' = mods /\ mbinfo' = mbinfo
  BY DEF PieceIsShort, Stop, history
<1>. QED  BY <1>1, ModulesStill

LEMMA ModulesLoadSegment ==
  ASSUME TypeOK, ModulesKept, LoadSegment
  PROVE  ModulesKept'
<1>1. pc = "loading" /\ job.todo # <<>> /\ CanAllocate(Need(Piece, Piece.phys))
  BY DEF LoadSegment, Loading
<1>2. Piece.phys \in Nat
  BY <1>1, PieceIs
<1>3. ASSUME NEW torn \in Torn,
             PlacePiece(Piece.phys, torn) /\ UNCHANGED <<pc, mbinfo, mods, history>>
      PROVE  ModulesKept'
  <2>1. loaded' = loaded
    BY <1>3 DEF history
  <2>. QED  BY <1>1, <1>2, <1>3, <2>1, ModulesPiece
<1>. QED  BY <1>3, ModulesPieceIsShort DEF LoadSegment

LEMMA ModulesLoadSection ==
  ASSUME TypeOK, ModulesKept, LoadSection
  PROVE  ModulesKept'
<1>. DEFINE at == AnyChunk(Piece.pages + Piece.bss)
<1>1. pc = "loading" /\ job.todo # <<>>
  BY DEF LoadSection, Loading
<1>2. at \in Nat
  BY <1>1, PieceIs, PlacesAre DEF TypeOK
<1>3. ASSUME NEW torn \in Torn, at > 0 /\ PlacePiece(at, torn) /\ UNCHANGED <<pc, kernel, history>>
      PROVE  ModulesKept'
  <2>1. CanAllocate(Pages(at, Piece.pages + Piece.bss))
    BY <1>1, <1>2, <1>3, PieceIs, AnyChunkIsChunk
  <2>2. CanAllocate(Need(Piece, at)) /\ loaded' = loaded /\ UNCHANGED <<pc, mbinfo, mods>>
    BY <1>3, <2>1 DEF Need, history, kernel
  <2>. QED  BY <1>1, <1>2, <1>3, <2>2, ModulesPiece
<1>4. CASE Stop /\ UNCHANGED <<memory, kernel, history>>
  <2>1. /\ used' = used /\ mem' = mem /\ loaded' = loaded /\ pc' # "running"
        /\ mods' = mods /\ mbinfo' = mbinfo
    BY <1>4 DEF Stop, memory, kernel, history
  <2>. QED  BY <2>1, ModulesStill
<1>5. CASE PieceIsShort(at)
  BY <1>5, ModulesPieceIsShort
<1>. QED  BY <1>3, <1>4, <1>5 DEF LoadSection

LEMMA ModulesFinishElf ==
  ASSUME TypeOK, ModulesKept, FinishElf
  PROVE  ModulesKept'
<1>1. mem' = mem /\ used' = used /\ mods' = mods /\ pc' # "running" /\ InfoComing
  BY DEF FinishElf, memory, FinishMultiboot, NextLine, TypeOK
<1>2. PICK how \in {"multiboot", "kernel"} :
        loaded' = loaded \cup {[file |-> job.file, how |-> how, image |-> job.image]}
  BY DEF FinishElf, FinishMultiboot
<1>3. {l \in loaded' : l.how = "module"} = {l \in loaded : l.how = "module"}
  BY <1>2
<1>4. mbinfo' = mbinfo \/ 3 \notin mbinfo'.flags
  <2>1. CASE job.how = "kernel" /\ UNCHANGED mbinfo
    BY <2>1
  <2>2. CASE /\ job.how = "multiboot"
             /\ FinishMultiboot([mbinfo EXCEPT !.flags = @ \cup {6}], job.file, job.line, job.image)
    <3>1. mbinfo = NewInfo(job.file)
      BY <1>1, <2>2 DEF InfoComing
    <3>2. mbinfo' = Described([mbinfo EXCEPT !.flags = @ \cup {6}], job.file, job.line)
      BY <2>2 DEF FinishMultiboot
    <3>. QED  BY <3>1, <3>2, NewSaysNothing
  <2>. QED  BY <2>1, <2>2 DEF FinishElf
<1>. QED  BY <1>1, <1>3, <1>4, ModulesStill

LEMMA ModulesFileIsShort ==
  ASSUME ModulesKept, NEW k, NEW at, FileIsShort(k, at), mbinfo' = mbinfo
  PROVE  ModulesKept'
<1>1. /\ used \subseteq used' /\ mem' = mem /\ loaded' = loaded /\ pc' # "running"
      /\ mods' = mods
  BY DEF FileIsShort, Stop
<1>. QED  BY <1>1, ModulesStill

LEMMA ModulesKernelFlat ==
  ASSUME TypeOK, ModulesKept, NEW line \in Lines, KernelFlat(line)
  PROVE  ModulesKept'
<1>. DEFINE k == On(line)
            n == Files[k].pages
            at == LoadAddress(n)
<1>1. k \in DOMAIN Files /\ mbinfo' = mbinfo
  BY FoundIs DEF KernelFlat
<1>2. at \in Nat /\ (at > 0 => CanAllocate(Pages(at, n)))
  BY <1>1, FileIs, PlacesAre DEF TypeOK
<1>3. ASSUME NEW torn \in Torn,
             at > 0 /\ PlaceFile(k, "kernel", at, torn) /\ NextLine /\ UNCHANGED <<default, mods>>
      PROVE  ModulesKept'
  <2>. DEFINE content == Declared(k, WholeFile(k), at, torn)
              l == [file |-> k, how |-> "kernel", image |-> content]
  <2>1. Filled(mem, Pages(at, n), content, mem') /\ used' = used \cup Pages(at, n)
    BY <1>1, <1>2, <1>3, FileFills DEF PlaceFile
  <2>2. loaded' = loaded \cup {l} /\ l.how # "module"
    BY <1>3 DEF PlaceFile
  <2>3. ModulesTold'
    BY <1>1, <1>3, ToldStill DEF NextLine
  <2>. HIDE DEF l
  <2>. QED  BY <1>2, <1>3, <2>1, <2>2, <2>3, ModulesStayFilled
<1>4. CASE FileIsShort(k, at)
  BY <1>1, <1>4, ModulesFileIsShort
<1>5. CASE Stop /\ UNCHANGED <<memory, mods, loaded>>
  BY <1>1, <1>5, ModulesStill DEF Stop, memory
<1>. QED  BY <1>3, <1>4, <1>5 DEF KernelFlat

LEMMA ModulesModule ==
  ASSUME TypeOK, ModulesKept, NEW line \in Lines, Module(line)
  PROVE  ModulesKept'
<1>. DEFINE k == On(line)
            n == Files[k].pages
            at == AnyChunk(n)
<1>1. k \in DOMAIN Files /\ mbinfo' = mbinfo
  BY FoundIs DEF Module
<1>2. at \in Nat /\ (at > 0 => CanAllocate(Pages(at, n)))
  BY <1>1, FileIs, PlacesAre, AnyChunkIsChunk DEF TypeOK
<1>3. ASSUME NEW torn \in Torn,
            /\ at > 0 /\ PlaceFile(k, "module", at, torn) /\ NextLine
            /\ mods' = <<ModuleAt(k, at)>> \o mods
      PROVE  ModulesKept'
  <2>1. IsListOf(mods', loaded', mem') /\ InChunks(mods', used') /\ mods' # <<>>
    BY <1>1, <1>2, <1>3, ModuleListed
  <2>2. ModulesTold'
    BY <1>1, <1>3, <2>1, ToldStill DEF NextLine
  <2>. QED  BY <2>1, <2>2, ModulesKeptIs
<1>4. CASE FileIsShort(k, at)
  BY <1>1, <1>4, ModulesFileIsShort
<1>5. CASE Stop /\ UNCHANGED <<memory, mods, loaded>>
  BY <1>1, <1>5, ModulesStill DEF Stop, memory
<1>. QED  BY <1>3, <1>4, <1>5 DEF Module

\* Boot copies the list into the information.
LEMMA ModulesBoot ==
  ASSUME TypeOK, ModulesKept, NEW line \in Lines, Boot(line)
  PROVE  ModulesKept'
<1>1. mem' = mem /\ used' = used /\ loaded' = loaded /\ mods' = mods /\ pc' = "running"
  BY DEF Boot, memory
<1>2. ModulesTold'
  <2>1. CASE mbinfo # NoInfo /\ mbinfo' = WithModules(mbinfo)
    <3>1. Full(mbinfo)
      BY <2>1 DEF TypeOK, InfoOK, Full
    <3>2. mbinfo'.mods = mods /\ mbinfo'.flags = mbinfo.flags \cup IF mods = <<>> THEN {} ELSE {3}
      BY <2>1, <3>1, FullInfo
    <3>3. 3 \in mbinfo.flags => mods # <<>>
      BY <2>1 DEF ModulesKept
    <3>4. 3 \in mbinfo'.flags <=> mods # <<>>
      BY <3>2, <3>3
    <3>. QED  BY <1>1, <3>2, <3>4 DEF ModulesTold
  <2>2. CASE mbinfo = NoInfo /\ r0' = "zero" /\ UNCHANGED mbinfo
    BY <1>1, <2>2 DEF ModulesTold
  <2>. QED  BY <2>1, <2>2 DEF Boot
<1>. QED  BY <1>1, <1>2, ModulesStay

LEMMA ModulesQuiet ==
  ASSUME TypeOK, ModulesKept,
         \/ \E line \in Lines : Quiet(line)
         \/ RefuseSegment \/ KernelReturns \/ FinishConfig
  PROVE  ModulesKept'
<1>1. CASE \E line \in Lines : Boot(line)
  BY <1>1, ModulesBoot
<1>2. CASE \/ \E line \in Lines :
                \/ LineFails(line) \/ NotMultiboot(line) \/ KernelLinux(line)
                \/ EntryAddr(line) \/ BinaryLoadAddr(line) \/ NoKernel(line)
           \/ RefuseSegment \/ KernelReturns \/ FinishConfig
  <2>1. mem' = mem /\ used' = used /\ loaded' = loaded /\ mods' = mods /\ mbinfo' = mbinfo
    BY <1>2 DEF LineFails, NotMultiboot, KernelLinux, EntryAddr, BinaryLoadAddr, NoKernel,
           RefuseSegment, KernelReturns, FinishConfig, memory, kernel, history
  <2>2. pc' # "running"
    BY <1>2 DEF LineFails, NotMultiboot, KernelLinux, EntryAddr, BinaryLoadAddr, NoKernel,
           RefuseSegment, KernelReturns, FinishConfig, Stop, NextLine
  <2>. QED  BY <2>1, <2>2, ModulesStill
<1>. QED  BY <1>1, <1>2 DEF Quiet

LEMMA ModulesKernelElf ==
  ASSUME ModulesKept, NEW line \in Lines, KernelElf(line)
  PROVE  ModulesKept'
<1>1. /\ mem' = mem /\ used' = used /\ loaded' = loaded /\ mods' = mods /\ mbinfo' = mbinfo
      /\ pc' # "running"
  BY DEF KernelElf, StartJob, memory, kernel, history
<1>. QED  BY <1>1, ModulesStill

LEMMA ModulesNext == BssIsPlaced /\ TypeOK /\ ModulesKept /\ [Next]_vars => ModulesKept'
<1>. SUFFICES ASSUME BssIsPlaced, TypeOK, ModulesKept, [Next]_vars PROVE ModulesKept'
  OBVIOUS
<1>1. ASSUME NEW line \in Lines, RunLine(line) PROVE ModulesKept'
  BY <1>1, ModulesAout, ModulesMultibootElf, ModulesKernelElf, ModulesKernelFlat, ModulesModule,
     ModulesQuiet DEF RunLine, Quiet
<1>2. CASE RefuseSegment \/ KernelReturns \/ FinishConfig
  BY <1>2, ModulesQuiet
<1>3. CASE LoadSegment \/ LoadSection \/ FinishElf
  BY <1>3, ModulesLoadSegment, ModulesLoadSection, ModulesFinishElf
<1>4. CASE UNCHANGED vars
  BY <1>4 DEF vars, config, memory, kernel, history, ModulesKept, Lists
<1>. QED  BY <1>1, <1>2, <1>3, <1>4 DEF Next

\* At any time the list of modules has every module that was loaded once, with
\* the pages it is in (multiboot.c:503-575).
THEOREM ModulesInvariant == ASSUME BssIsPlaced PROVE Spec => []ModulesKept
<1>1. Init => TypeOK /\ ModulesKept
  BY TypeInit, ModulesInit
<1>2. TypeOK /\ ModulesKept /\ [Next]_vars => (TypeOK /\ ModulesKept)'
  BY TypeNext, ModulesNext
<1>. QED  BY <1>1, <1>2, PTL DEF Spec

\* A multiboot kernel is handed the list of its modules, and told whether there
\* is one (multiboot.c:503-532, 594).
THEOREM ModulesListed == ASSUME BssIsPlaced PROVE Spec => []ListsModules
<1>1. ModulesKept => ListsModules
  BY DEF ModulesKept, ListsModules
<1>. QED  BY <1>1, ModulesInvariant, PTL

-------------------------------------------------------------------------------
(***************************************************************************)
(* The entry point of the kernel, and what the kernel is told of itself.   *)
(***************************************************************************)

\* The next piece is a segment as long as there are segments left.
LEMMA SegmentsFirst ==
  ASSUME JobOK, job.todo # <<>>
  PROVE  LET segments == Files[job.file].segments
         IN /\ Placed(job) \in Nat /\ Len(segments) \in Nat /\ DOMAIN segments = 1 .. Len(segments)
            /\ Placed(job) + 1 <= Len(segments) =>
                 Piece = segments[Placed(job) + 1] /\ Piece.kind = "segment"
            /\ Placed(job) + 1 > Len(segments) => Piece.kind = "section"
<1>. DEFINE segments == Files[job.file].segments
            next == Placed(job) + 1
<1>1. job.file \in DOMAIN Files /\ Len(Whole(job)) \in Nat
  BY WholeIs
<1>2. segments \in Seq(SegmentSet)
  BY <1>1, PiecesAre
<1>3. /\ next \in 1 .. Len(Whole(job)) /\ Piece = Whole(job)[next]
      /\ Placed(job) \in 0 .. Len(Whole(job))
  BY NextPieceIs DEF JobOK
<1>4. /\ \A i \in DOMAIN segments : Whole(job)[i] = segments[i]
      /\ \A i \in 1 .. Len(Whole(job)) : i > Len(segments) => Whole(job)[i] \in SectionSet
  BY WholeIs
<1>5. Placed(job) \in Nat
  BY <1>1, <1>3
<1>. HIDE DEF segments
<1>6. /\ Len(segments) \in Nat /\ DOMAIN segments = 1 .. Len(segments)
      /\ \A i \in DOMAIN segments : segments[i] \in SegmentSet
  BY <1>2
<1>7. ASSUME next <= Len(segments)
      PROVE  Piece = segments[next] /\ Piece.kind = "segment"
  <2>1. next \in DOMAIN segments
    BY <1>5, <1>6, <1>7
  <2>. QED  BY <1>3, <1>4, <1>6, <2>1 DEF SegmentSet, PiecesOf
<1>8. ASSUME next > Len(segments)
      PROVE  Piece.kind = "section"
  BY <1>3, <1>4, <1>8 DEF SectionSet, PiecesOf
<1>. QED  BY <1>5, <1>6, <1>7, <1>8 DEF segments

\* What EntriesInside says of the file being loaded.
LEMMA EntryIs ==
  ASSUME JobOK, EntriesInside
  PROVE  LET f == Files[job.file]
             e == EntrySegment(f)
         IN /\ e \in DOMAIN f.segments
            /\ \A j \in DOMAIN f.segments :
                 f.entry \in Need(f.segments[j], f.segments[j].virt) <=> j = e
            /\ job.how = "kernel" => f.segments[e].virt = f.segments[e].phys
            /\ job.how = "multiboot" => \A j \in DOMAIN f.segments : j > e =>
                 Physical(f.entry, f.segments[e]) \notin Need(f.segments[j], f.segments[j].virt)
<1>1. \/ job.how = "multiboot" /\ job.file \in MultibootElfs
      \/ job.how = "kernel" /\ job.file \in PlainElf
  BY DEF JobOK
<1>2. job.file \in DOMAIN Files
  BY WholeIs
<1>. QED  BY <1>1, <1>2 DEF EntriesInside

\* An entry point is converted to an address in the chunk of its segment.
LEMMA PhysicalIsInside ==
  ASSUME NEW s \in PieceSet, NEW entry \in Nat, entry \in Need(s, s.virt)
  PROVE  Physical(entry, s) \in Need(s, s.phys)
<1>1. s.virt \in Nat /\ s.phys \in Nat /\ s.pages \in Nat /\ s.bss \in Nat /\ s.pages + s.bss \in Nat
  BY DEF PieceSet, SegmentSet, SectionSet, PiecesOf
<1>2. s.virt <= entry /\ entry < s.virt + (s.pages + s.bss)
  BY <1>1, PagesAre DEF Need
<1>3. /\ s.phys + (entry - s.virt) \in Nat
      /\ s.phys <= s.phys + (entry - s.virt)
      /\ s.phys + (entry - s.virt) < s.phys + (s.pages + s.bss)
  BY <1>1, <1>2
<1>. QED  BY <1>1, <1>3, PagesAre DEF Need, Physical

\* A piece is placed: if it is the segment of the entry point, it is there now.
LEMMA EntryComes ==
  ASSUME TypeOK, EntriesInside, EntryComing, pc = "loading", job.todo # <<>>, NEW at \in Nat,
         NEW torn, PlacePiece(at, torn),
         \/ Piece.kind = "segment" /\ at = Piece.phys /\
            entry_addr' = (IF job.how = "multiboot" THEN Moved(entry_addr, Piece) ELSE entry_addr)
         \/ Piece.kind = "section" /\ entry_addr' = entry_addr
  PROVE  EntryComing'
<1>. DEFINE f == Files[job.file]
            e == EntrySegment(f)
            s == f.segments[e]
            n == Placed(job)
            d == Declared(job.file, Piece, at, torn)
<1>1. JobOK
  BY DEF TypeOK
<1>2. /\ Placed(job') = n + 1 /\ job'.how = job.how /\ job'.file = job.file
      /\ job'.image = With(d, job.image)
  BY <1>1, PlacingIs
<1>3. /\ n \in Nat /\ Len(f.segments) \in Nat /\ DOMAIN f.segments = 1 .. Len(f.segments)
      /\ n + 1 <= Len(f.segments) => Piece = f.segments[n + 1] /\ Piece.kind = "segment"
      /\ n + 1 > Len(f.segments) => Piece.kind = "section"
  BY <1>1, SegmentsFirst
<1>4. /\ e \in DOMAIN f.segments
      /\ \A j \in DOMAIN f.segments :
           f.entry \in Need(f.segments[j], f.segments[j].virt) <=> j = e
      /\ job.how = "multiboot" => \A j \in DOMAIN f.segments : j > e =>
           Physical(f.entry, s) \notin Need(f.segments[j], f.segments[j].virt)
  BY <1>1, EntryIs
<1>5. /\ n >= e => Need(s, s.phys) \subseteq DOMAIN job.image
      /\ job.how = "multiboot" => entry_addr = IF n >= e THEN Physical(f.entry, s) ELSE f.entry
  BY DEF EntryComing
<1>6. DOMAIN d = Need(Piece, at) /\ DOMAIN job'.image = DOMAIN d \cup DOMAIN job.image
  BY <1>2 DEF With, Declared, Need
<1>. SUFFICES /\ n + 1 >= e => Need(s, s.phys) \subseteq DOMAIN job'.image
              /\ job.how = "multiboot" =>
                   entry_addr' = IF n + 1 >= e THEN Physical(f.entry, s) ELSE f.entry
  BY <1>2 DEF EntryComing
<1>. HIDE DEF f, e, s, n, d
<1>7. CASE n + 1 < e
  <2>1. /\ n + 1 \in DOMAIN f.segments /\ n + 1 # e /\ ~ (n >= e) /\ ~ (n + 1 >= e)
        /\ Piece = f.segments[n + 1] /\ Piece.kind = "segment"
    BY <1>3, <1>4, <1>7
  <2>2. f.entry \notin Need(Piece, Piece.virt)
    BY <1>4, <2>1
  <2>. QED  BY <1>5, <2>1, <2>2 DEF Moved
<1>8. CASE n + 1 = e
  <2>1. /\ n + 1 \in DOMAIN f.segments /\ ~ (n >= e) /\ n + 1 >= e
        /\ Piece = s /\ Piece.kind = "segment"
    BY <1>3, <1>4, <1>8 DEF s
  <2>2. f.entry \in Need(Piece, Piece.virt)
    BY <1>4, <2>1 DEF s
  <2>. QED  BY <1>5, <1>6, <2>1, <2>2 DEF Moved
<1>9. CASE n + 1 > e
  <2>1. n >= e /\ n + 1 >= e
    BY <1>3, <1>4, <1>9
  <2>2. Need(s, s.phys) \subseteq DOMAIN job'.image
    BY <1>5, <1>6, <2>1
  <2>3. ASSUME job.how = "multiboot"
        PROVE  entry_addr' = Physical(f.entry, s)
    <3>1. entry_addr = Physical(f.entry, s)
      BY <1>5, <2>1, <2>3
    <3>2. CASE Piece.kind = "segment"
      <4>1. n + 1 \in DOMAIN f.segments /\ Piece = f.segments[n + 1]
        BY <1>3, <3>2
      <4>2. Physical(f.entry, s) \notin Need(Piece, Piece.virt)
        BY <1>4, <1>9, <2>3, <4>1
      <4>. QED  BY <2>3, <3>1, <3>2, <4>2 DEF Moved
    <3>3. CASE Piece.kind = "section"
      BY <3>1, <3>3
    <3>. QED  BY <3>2, <3>3
  <2>. QED  BY <2>1, <2>2, <2>3
<1>10. n + 1 < e \/ n + 1 = e \/ n + 1 > e
  BY <1>3, <1>4
<1>. QED  BY <1>7, <1>8, <1>9, <1>10

LEMMA EntryLoadSegment ==
  ASSUME TypeOK, EntriesInside, EntryComing, LoadSegment
  PROVE  EntryComing'
<1>1. pc = "loading" /\ job.todo # <<>> /\ Piece.kind = "segment"
  BY DEF LoadSegment, Loading
<1>2. Piece.phys \in Nat
  BY <1>1, PieceIs
<1>3. ASSUME NEW torn \in Torn,
            /\ PlacePiece(Piece.phys, torn)
            /\ entry_addr' = IF job.how = "multiboot" THEN Moved(entry_addr, Piece) ELSE entry_addr
      PROVE  EntryComing'
  BY <1>1, <1>2, <1>3, EntryComes
<1>4. CASE PieceIsShort(Piece.phys)
  BY <1>4 DEF PieceIsShort, Stop, EntryComing
<1>. QED  BY <1>3, <1>4 DEF LoadSegment

LEMMA EntryLoadSection ==
  ASSUME TypeOK, EntriesInside, EntryComing, LoadSection
  PROVE  EntryComing'
<1>. DEFINE at == AnyChunk(Piece.pages + Piece.bss)
<1>1. pc = "loading" /\ job.todo # <<>> /\ Piece.kind = "section"
  BY DEF LoadSection, Loading
<1>2. at \in Nat
  BY <1>1, PieceIs, PlacesAre DEF TypeOK
<1>3. ASSUME NEW torn \in Torn, PlacePiece(at, torn) /\ UNCHANGED kernel
      PROVE  EntryComing'
  <2>1. entry_addr' = entry_addr
    BY <1>3 DEF kernel
  <2>. QED  BY <1>1, <1>2, <1>3, <2>1, EntryComes
<1>4. CASE Stop
  BY <1>4 DEF Stop, EntryComing
<1>5. CASE PieceIsShort(at)
  BY <1>5 DEF PieceIsShort, Stop, EntryComing
<1>. QED  BY <1>3, <1>4, <1>5 DEF LoadSection

\* A file that is begun has nothing of its entry's segment in memory.
LEMMA EntryStarts ==
  ASSUME EntriesInside, JobOK', Placed(job') = 0,
         job'.how = "multiboot" => entry_addr' = Files[job'.file].entry
  PROVE  EntryComing'
<1>. DEFINE f == Files[job'.file]
            e == EntrySegment(f)
<1>1. job'.file \in PlainElf \cup MultibootElfs
  BY DEF JobOK
<1>2. job'.file \in DOMAIN Files /\ e \in DOMAIN f.segments
  BY <1>1 DEF EntriesInside, PlainElf, MultibootElfs
<1>3. DOMAIN f.segments = 1 .. Len(f.segments) /\ Len(f.segments) \in Nat
  <2>1. f.segments \in Seq(SegmentSet)
    BY <1>2, PiecesAre
  <2>. QED  BY <2>1
<1>4. ~ (0 >= e)
  BY <1>2, <1>3
<1>. QED  BY <1>4 DEF EntryComing

LEMMA EntryMultibootElf ==
  ASSUME EntriesInside, NEW line \in Lines, MultibootElf(line)
  PROVE  EntryComing'
<1>. DEFINE k == On(line)
<1>1. k \in DOMAIN Files
  BY FoundIs DEF MultibootElf
<1>2. CASE Stop
  BY <1>2 DEF Stop, EntryComing
<1>3. CASE /\ Files[k].kind = "elf" /\ entry_addr' = Files[k].entry
           /\ StartJob("multiboot", line, Pieces(k))
  <2>1. k \in MultibootElfs
    BY <1>1, <1>3 DEF MultibootElf, MultibootElfs
  <2>2. JobOK' /\ job'.file = k /\ Placed(job') = 0
    BY <1>3, <2>1, StartingIs
  <2>. QED  BY <1>3, <2>2, EntryStarts
<1>. QED  BY <1>2, <1>3 DEF MultibootElf

LEMMA EntryKernelElf ==
  ASSUME EntriesInside, NEW line \in Lines, KernelElf(line)
  PROVE  EntryComing'
<1>. DEFINE k == On(line)
<1>1. k \in DOMAIN Files /\ k[2] = line.name /\ (line.device = "" \/ line.device = k[1])
  BY FoundIs DEF KernelElf
<1>2. k \in PlainElf
  BY <1>1 DEF KernelElf, Running, PlainElf
<1>3. JobOK' /\ Placed(job') = 0 /\ job'.how = "kernel"
  BY <1>2, StartingIs DEF KernelElf
<1>. QED  BY <1>3, EntryStarts

LEMMA EntryNext == EntriesInside /\ TypeOK /\ EntryComing /\ [Next]_vars => EntryComing'
<1>. SUFFICES ASSUME EntriesInside, TypeOK, EntryComing, [Next]_vars PROVE EntryComing'
  OBVIOUS
<1>1. CASE pc' # "loading"
  BY <1>1 DEF EntryComing
<1>2. CASE LoadSegment \/ LoadSection
  BY <1>2, EntryLoadSegment, EntryLoadSection
<1>3. CASE \E line \in Lines : MultibootElf(line) \/ KernelElf(line)
  BY <1>3, EntryMultibootElf, EntryKernelElf
<1>4. CASE UNCHANGED vars
  BY <1>4 DEF vars, config, kernel, EntryComing, Placed, Whole
<1>5. CASE \/ RefuseSegment \/ FinishElf \/ KernelReturns \/ FinishConfig
           \/ \E line \in Lines : Quiet(line) \/ Aout(line) \/ KernelFlat(line) \/ Module(line)
  <2>1. pc' # "loading"
    BY <1>5 DEF RefuseSegment, FinishElf, FinishMultiboot, KernelReturns, FinishConfig, Quiet,
           LineFails, NotMultiboot, KernelLinux, EntryAddr, BinaryLoadAddr, NoKernel, Boot,
           Aout, AoutFails, AoutLoads, KernelFlat, Module, FileIsShort, Stop, NextLine
  <2>. QED  BY <2>1 DEF EntryComing
<1>. QED  BY <1>2, <1>3, <1>4, <1>5 DEF Next, RunLine, Quiet

\* What a step that leaves the kernel to be entered as it is has to show.
LEMMA KernelStays ==
  ASSUME KernelKept, loaded \subseteq loaded', entry_addr' = entry_addr, origin' = origin,
         pc # "stopped",
         \/ pc' = "stopped"
         \/ \A l : Describes(mbinfo, l) => Describes(mbinfo', l)
  PROVE  KernelKept'
<1>. SUFFICES ASSUME origin' \in {"multiboot", "kernel"}
              PROVE  \E l \in loaded' :
                       /\ l.how = origin' /\ entry_addr' = EntryOf(l) /\ entry_addr' \in DOMAIN l.image
                       /\ origin' = "multiboot" /\ pc' # "stopped" => Describes(mbinfo', l)
  BY DEF KernelKept, Entered
<1>1. PICK l \in loaded : /\ Entered(l) /\ entry_addr \in DOMAIN l.image
                          /\ origin = "multiboot" /\ pc # "stopped" => Describes(mbinfo, l)
  BY DEF KernelKept
<1>. QED  BY <1>1 DEF Entered

\* A step that completes the image of the kernel to be entered.
LEMMA KernelNew ==
  ASSUME NEW l \in loaded', l.how = origin', entry_addr' = EntryOf(l),
         entry_addr' \in DOMAIN l.image, origin' = "multiboot" => Describes(mbinfo', l)
  PROVE  KernelKept'
BY DEF KernelKept, Entered

LEMMA KernelAout ==
  ASSUME KernelKept, EntriesInside, NEW line \in Lines, Aout(line)
  PROVE  KernelKept'
<1>. DEFINE k == On(line)
            f == Files[k]
<1>1. k \in DOMAIN Files /\ k[2] = line.name /\ f.header = "aout" /\ pc # "stopped"
  BY FoundIs DEF Aout, Running
<1>2. CASE AoutFails(line, k)
  <2>1. pc' = "stopped" /\ loaded' = loaded
    BY <1>2 DEF AoutFails, Stop
  <2>2. CASE UNCHANGED <<used, entry_addr, origin>>
    BY <1>1, <2>1, <2>2, KernelStays
  <2>3. CASE origin' = "loading"
    BY <2>3 DEF KernelKept
  <2>. QED  BY <1>2, <2>2, <2>3 DEF AoutFails
<1>3. ASSUME NEW torn \in Torn, AoutLoads(line, k, torn)
      PROVE  KernelKept'
  <2>. DEFINE l == [file |-> k, how |-> "multiboot", image |-> AoutDeclared(k, torn)]
  <2>1. /\ l \in loaded' /\ origin' = "multiboot" /\ entry_addr' = f.entry
        /\ mbinfo' = Described(NewInfo(k), k, line)
    BY <1>3 DEF AoutLoads, FinishMultiboot
  <2>2. l.how = "multiboot" /\ l.file = k /\ l.image = AoutDeclared(k, torn)
    OBVIOUS
  <2>3. EntryOf(l) = f.entry
    BY <1>1, <2>2 DEF EntryOf
  <2>4. f.entry \in DOMAIN l.image
    <3>1. f.entry \in Pages(f.load, f.pages + f.bss)
      BY <1>1 DEF EntriesInside
    <3>2. DOMAIN AoutDeclared(k, torn) = Pages(f.load, f.pages + f.bss)
      BY DEF AoutDeclared, Declared
    <3>. QED  BY <2>2, <3>1, <3>2
  <2>5. Describes(mbinfo', l)
    <3>1. Full(NewInfo(k))
      BY NewIsFull
    <3>2. /\ mbinfo'.flags = NewInfo(k).flags \cup Told /\ mbinfo'.mmap = NewInfo(k).mmap
          /\ mbinfo'.cmdline = CommandLine(line) /\ mbinfo'.boot_device = k[1]
      BY <2>1, <3>1, DescribedFull
    <3>3. f.memory => NewInfo(k).mmap = Reported /\ {0, 6} \subseteq NewInfo(k).flags
      BY DEF NewInfo
    <3>4. {1, 2, 9, 11} = Told
      BY DEF Told
    <3>. QED  BY <1>1, <2>2, <3>2, <3>3, <3>4 DEF Describes, CommandLine
  <2>. HIDE DEF l
  <2>. QED  BY <2>1, <2>2, <2>3, <2>4, <2>5, KernelNew
<1>. QED  BY <1>2, <1>3 DEF Aout

LEMMA KernelMultibootElf ==
  ASSUME KernelKept, NEW line \in Lines, MultibootElf(line)
  PROVE  KernelKept'
<1>1. CASE Stop /\ UNCHANGED <<entry_addr, origin, job>>
  <2>1. pc # "stopped" /\ pc' = "stopped" /\ loaded' = loaded
    BY <1>1 DEF MultibootElf, Running, Stop
  <2>. QED  BY <1>1, <2>1, KernelStays
<1>2. CASE origin' = "loading"
  BY <1>2 DEF KernelKept
<1>. QED  BY <1>1, <1>2 DEF MultibootElf

LEMMA KernelPieceIsShort ==
  ASSUME KernelKept, pc = "loading", NEW at, PieceIsShort(at)
  PROVE  KernelKept'
<1>1. pc' = "stopped" /\ loaded' = loaded /\ entry_addr' = entry_addr /\ origin' = origin
  BY DEF PieceIsShort, Stop, history
<1>. QED  BY <1>1, KernelStays

LEMMA KernelLoadSegment ==
  ASSUME TypeOK, KernelKept, LoadSegment
  PROVE  KernelKept'
<1>1. pc = "loading" /\ JobOK /\ InfoComing
  BY DEF LoadSegment, Loading, TypeOK
<1>2. CASE PieceIsShort(Piece.phys)
  BY <1>1, <1>2, KernelPieceIsShort
<1>3. CASE /\ entry_addr' = IF job.how = "multiboot" THEN Moved(entry_addr, Piece) ELSE entry_addr
           /\ UNCHANGED <<pc, mbinfo, history>>
  <2>1. CASE job.how = "multiboot"
    <3>1. origin' = "loading"
      BY <1>1, <1>3, <2>1 DEF InfoComing, history
    <3>. QED  BY <3>1 DEF KernelKept
  <2>2. CASE job.how # "multiboot"
    <3>1. entry_addr' = entry_addr /\ loaded' = loaded /\ origin' = origin /\ mbinfo' = mbinfo
      BY <1>3, <2>2 DEF history
    <3>. QED  BY <1>1, <3>1, KernelStays
  <2>. QED  BY <2>1, <2>2
<1>. QED  BY <1>2, <1>3 DEF LoadSegment

LEMMA KernelLoadSection ==
  ASSUME KernelKept, LoadSection
  PROVE  KernelKept'
<1>. DEFINE at == AnyChunk(Piece.pages + Piece.bss)
<1>1. pc = "loading"
  BY DEF LoadSection, Loading
<1>2. CASE PieceIsShort(at)
  BY <1>1, <1>2, KernelPieceIsShort
<1>3. CASE UNCHANGED <<kernel, history>>
  <2>1. entry_addr' = entry_addr /\ loaded' = loaded /\ origin' = origin /\ mbinfo' = mbinfo
    BY <1>3 DEF kernel, history
  <2>. QED  BY <1>1, <2>1, KernelStays
<1>. QED  BY <1>2, <1>3 DEF LoadSection

\* The file that was being loaded is in memory, its entry point too.
LEMMA EntryArrived ==
  ASSUME JobOK, EntriesInside, EntryComing, pc = "loading", job.todo = <<>>
  PROVE  LET f == Files[job.file]
             s == f.segments[EntrySegment(f)]
         IN /\ Physical(f.entry, s) \in DOMAIN job.image
            /\ job.how = "multiboot" => entry_addr = Physical(f.entry, s)
            /\ job.how = "kernel" => f.entry = Physical(f.entry, s)
<1>. DEFINE f == Files[job.file]
            e == EntrySegment(f)
            s == f.segments[e]
<1>1. job.file \in DOMAIN Files /\ Len(Whole(job)) \in Nat /\ Len(Whole(job)) >= Len(f.segments)
  BY WholeIs
<1>2. /\ e \in DOMAIN f.segments /\ f.entry \in Need(s, s.virt)
      /\ job.how = "kernel" => s.virt = s.phys
  BY EntryIs
<1>3. f.segments \in Seq(SegmentSet) /\ f.entry \in Nat
  BY <1>1, PiecesAre, FileIs
<1>4. s \in SegmentSet /\ e \in 1 .. Len(f.segments) /\ Len(f.segments) \in Nat
  BY <1>2, <1>3
<1>5. Placed(job) = Len(Whole(job))
  BY <1>1 DEF Placed
<1>6. Placed(job) >= e
  BY <1>1, <1>4, <1>5
<1>7. /\ Need(s, s.phys) \subseteq DOMAIN job.image
      /\ job.how = "multiboot" => entry_addr = Physical(f.entry, s)
  BY <1>6 DEF EntryComing
<1>8. s \in PieceSet
  BY <1>4 DEF PieceSet
<1>. HIDE DEF s
<1>9. Physical(f.entry, s) \in Need(s, s.phys)
  BY <1>2, <1>3, <1>8, PhysicalIsInside
<1>10. ASSUME job.how = "kernel" PROVE f.entry = Physical(f.entry, s)
  <2>1. s.virt = s.phys /\ s.phys \in Nat
    BY <1>2, <1>8, <1>10 DEF PieceSet, SegmentSet, SectionSet, PiecesOf
  <2>. QED  BY <1>3, <2>1 DEF Physical
<1>. QED  BY <1>7, <1>9, <1>10 DEF s

LEMMA KernelFinishElf ==
  ASSUME TypeOK, EntriesInside, EntryComing, FinishElf
  PROVE  KernelKept'
<1>. DEFINE k == job.file
            f == Files[k]
            s == f.segments[EntrySegment(f)]
            l == [file |-> k, how |-> job.how, image |-> job.image]
<1>1. JobOK /\ InfoComing /\ pc = "loading" /\ job.todo = <<>>
  BY DEF TypeOK, FinishElf
<1>2. /\ Physical(f.entry, s) \in DOMAIN job.image
      /\ job.how = "multiboot" => entry_addr = Physical(f.entry, s)
      /\ job.how = "kernel" => f.entry = Physical(f.entry, s)
  BY <1>1, EntryArrived
<1>3. /\ \/ job.how = "multiboot" /\ k \in MultibootElfs
         \/ job.how = "kernel" /\ k \in PlainElf
      /\ job.line.name = k[2]
  BY <1>1 DEF JobOK
<1>4. EntryOf(l) = Physical(f.entry, s)
  BY <1>3 DEF EntryOf, MultibootElfs, PlainElf
<1>5. l.file = k /\ l.how = job.how /\ l.image = job.image
  OBVIOUS
<1>6. CASE /\ job.how = "multiboot" /\ UNCHANGED entry_addr
           /\ FinishMultiboot([mbinfo EXCEPT !.flags = @ \cup {6}], k, job.line, job.image)
  <2>. DEFINE info == NewInfo(k)
              more == [info EXCEPT !.flags = @ \cup {6}]
  <2>1. mbinfo = info
    BY <1>1, <1>6 DEF InfoComing
  <2>2. /\ l \in loaded' /\ origin' = "multiboot" /\ mbinfo' = Described(more, k, job.line)
    BY <1>6, <2>1 DEF FinishMultiboot
  <2>3. Full(info)
    BY NewIsFull
  <2>4. f.memory => info.mmap = Reported /\ {0, 6} \subseteq info.flags
    BY DEF NewInfo
  <2>. HIDE DEF info
  <2>5. Full(more) /\ more.flags = info.flags \cup {6} /\ more.mmap = info.mmap
    BY <2>3, FullInfo
  <2>. HIDE DEF more
  <2>6. /\ mbinfo'.flags = more.flags \cup Told /\ mbinfo'.mmap = more.mmap
        /\ mbinfo'.cmdline = CommandLine(job.line) /\ mbinfo'.boot_device = k[1]
    BY <2>2, <2>5, DescribedFull
  <2>7. {1, 2, 9, 11} = Told
    BY DEF Told
  <2>8. Describes(mbinfo', l)
    BY <1>3, <1>5, <2>4, <2>5, <2>6, <2>7 DEF Describes, CommandLine
  <2>9. entry_addr' = EntryOf(l) /\ entry_addr' \in DOMAIN l.image /\ l.how = origin'
    BY <1>2, <1>4, <1>5, <1>6, <2>2
  <2>. HIDE DEF l
  <2>. QED  BY <2>2, <2>8, <2>9, KernelNew
<1>7. CASE /\ job.how = "kernel" /\ entry_addr' = f.entry /\ origin' = "kernel"
           /\ loaded' = loaded \cup {[file |-> k, how |-> "kernel", image |-> job.image]}
  <2>1. l \in loaded'
    BY <1>7
  <2>2. entry_addr' = EntryOf(l) /\ entry_addr' \in DOMAIN l.image /\ l.how = origin'
        /\ origin' # "multiboot"
    BY <1>2, <1>4, <1>5, <1>7
  <2>. HIDE DEF l
  <2>. QED  BY <2>1, <2>2, KernelNew
<1>. QED  BY <1>6, <1>7 DEF FinishElf

\* The first page of a file read whole.
LEMMA FirstPage ==
  ASSUME NEW at \in Nat, NEW n \in Nat \ {0}, NEW S, S = Pages(at, n)
  PROVE  at \in S /\ (CHOOSE p \in S : \A q \in S : p <= q) = at
<1>1. \A p \in Nat : p \in S <=> at <= p /\ p < at + n
  BY PagesAre
<1>2. S \subseteq Nat /\ at \in S
  BY <1>1, PagesAre
<1>3. \A q \in S : at <= q
  BY <1>1, <1>2
<1>. DEFINE least == CHOOSE p \in S : \A q \in S : p <= q
<1>4. least \in S /\ \A q \in S : least <= q
  BY <1>2, <1>3
<1>. HIDE DEF least
<1>5. least \in Nat /\ least <= at /\ at <= least
  BY <1>2, <1>3, <1>4
<1>. QED  BY <1>2, <1>5 DEF least

LEMMA KernelFileIsShort ==
  ASSUME KernelKept, pc = "lines", NEW k, NEW at, FileIsShort(k, at),
         UNCHANGED <<entry_addr, origin>>
  PROVE  KernelKept'
<1>1. pc' = "stopped" /\ loaded' = loaded
  BY DEF FileIsShort, Stop
<1>. QED  BY <1>1, KernelStays

LEMMA KernelKernelFlat ==
  ASSUME TypeOK, KernelKept, NEW line \in Lines, KernelFlat(line)
  PROVE  KernelKept'
<1>. DEFINE k == On(line)
            n == Files[k].pages
            at == LoadAddress(n)
<1>1. k \in DOMAIN Files /\ Files[k].kind = "flat" /\ pc = "lines" /\ mbinfo' = mbinfo
  BY FoundIs DEF KernelFlat, Running
<1>2. n \in Nat \ {0}
  BY <1>1, FileIs
<1>3. at \in Nat
  BY <1>2, PlacesAre DEF TypeOK
<1>4. ASSUME NEW torn \in Torn,
            /\ PlaceFile(k, "kernel", at, torn)
            /\ entry_addr' = IF entry_addr = 0 THEN at ELSE entry_addr
            /\ origin' = IF entry_addr = 0 THEN "kernel" ELSE origin
      PROVE  KernelKept'
  <2>. DEFINE content == Declared(k, WholeFile(k), at, torn)
              l == [file |-> k, how |-> "kernel", image |-> content]
  <2>1. loaded' = loaded \cup {l}
    BY <1>4 DEF PlaceFile
  <2>2. CASE entry_addr = 0
    <3>1. DOMAIN l.image = Pages(at, n)
      <4>1. WholeFile(k).pages = n /\ WholeFile(k).bss = 0 /\ n + 0 = n
        BY <1>2 DEF WholeFile
      <4>. QED  BY <4>1 DEF Declared
    <3>2. at \in DOMAIN l.image /\ (CHOOSE p \in DOMAIN l.image : \A q \in DOMAIN l.image : p <= q) = at
      BY <1>2, <1>3, <3>1, FirstPage
    <3>3. EntryOf(l) = at
      BY <1>1, <3>2 DEF EntryOf
    <3>4. l.how = "kernel" /\ l \in loaded' /\ origin' = "kernel" /\ entry_addr' = at
      BY <1>4, <2>1, <2>2
    <3>. HIDE DEF l
    <3>. QED  BY <3>2, <3>3, <3>4, KernelNew
  <2>3. CASE entry_addr # 0
    BY <1>1, <1>4, <2>1, <2>3, KernelStays
  <2>. QED  BY <2>2, <2>3
<1>5. CASE FileIsShort(k, at) /\ UNCHANGED <<entry_addr, origin>>
  BY <1>1, <1>5, KernelFileIsShort
<1>6. CASE Stop /\ UNCHANGED <<entry_addr, loaded, origin>>
  BY <1>1, <1>6, KernelStays DEF Stop
<1>. QED  BY <1>4, <1>5, <1>6 DEF KernelFlat

LEMMA KernelModule ==
  ASSUME KernelKept, NEW line \in Lines, Module(line)
  PROVE  KernelKept'
<1>1. pc = "lines" /\ entry_addr' = entry_addr /\ origin' = origin /\ mbinfo' = mbinfo
  BY DEF Module, Running
<1>2. loaded \subseteq loaded'
  BY DEF Module, PlaceFile, FileIsShort
<1>. QED  BY <1>1, <1>2, KernelStays

\* With the list of modules in it, the information describes the kernel it did.
LEMMA KernelBoot ==
  ASSUME TypeOK, KernelKept, NEW line \in Lines, Boot(line)
  PROVE  KernelKept'
<1>1. pc = "lines" /\ entry_addr' = entry_addr /\ origin' = origin /\ loaded' = loaded
  BY DEF Boot, Running
<1>2. ASSUME NEW l, Describes(mbinfo, l)
      PROVE  Describes(mbinfo', l)
  <2>1. CASE mbinfo # NoInfo /\ mbinfo' = WithModules(mbinfo)
    <3>1. Full(mbinfo)
      BY <2>1 DEF TypeOK, InfoOK, Full
    <3>2. /\ mbinfo.flags \subseteq mbinfo'.flags /\ mbinfo'.mmap = mbinfo.mmap
          /\ mbinfo'.cmdline = mbinfo.cmdline /\ mbinfo'.boot_device = mbinfo.boot_device
      BY <2>1, <3>1, FullInfo
    <3>. QED  BY <1>2, <3>2 DEF Describes
  <2>2. CASE mbinfo' = mbinfo
    BY <1>2, <2>2
  <2>. QED  BY <2>1, <2>2 DEF Boot
<1>. QED  BY <1>1, <1>2, KernelStays

LEMMA KernelQuiet ==
  ASSUME TypeOK, KernelKept,
         \/ \E line \in Lines : Quiet(line)
         \/ RefuseSegment \/ KernelReturns \/ FinishConfig
  PROVE  KernelKept'
<1>1. CASE \E line \in Lines : Boot(line)
  BY <1>1, KernelBoot
<1>2. CASE \E line \in Lines : EntryAddr(line)
  <2>1. origin' \notin {"multiboot", "kernel"}
    BY <1>2 DEF EntryAddr
  <2>. QED  BY <2>1 DEF KernelKept
<1>3. CASE \/ \E line \in Lines :
                \/ LineFails(line) \/ NotMultiboot(line) \/ KernelLinux(line)
                \/ BinaryLoadAddr(line) \/ NoKernel(line)
           \/ RefuseSegment \/ KernelReturns \/ FinishConfig
  <2>1. /\ loaded' = loaded /\ entry_addr' = entry_addr /\ origin' = origin /\ mbinfo' = mbinfo
    BY <1>3 DEF LineFails, NotMultiboot, KernelLinux, BinaryLoadAddr, NoKernel,
           RefuseSegment, KernelReturns, FinishConfig, kernel, history
  <2>2. pc # "stopped"
    BY <1>3 DEF LineFails, NotMultiboot, KernelLinux, BinaryLoadAddr, NoKernel, Running,
           RefuseSegment, Loading, KernelReturns, FinishConfig
  <2>. QED  BY <2>1, <2>2, KernelStays
<1>. QED  BY <1>1, <1>2, <1>3 DEF Quiet

LEMMA KernelKernelElf ==
  ASSUME KernelKept, NEW line \in Lines, KernelElf(line)
  PROVE  KernelKept'
<1>1. /\ loaded' = loaded /\ entry_addr' = entry_addr /\ origin' = origin /\ mbinfo' = mbinfo
      /\ pc = "lines"
  BY DEF KernelElf, kernel, history, Running
<1>. QED  BY <1>1, KernelStays

LEMMA KernelNext ==
  EntriesInside /\ TypeOK /\ EntryComing /\ KernelKept /\ [Next]_vars => KernelKept'
<1>. SUFFICES ASSUME EntriesInside, TypeOK, EntryComing, KernelKept, [Next]_vars
              PROVE  KernelKept'
  OBVIOUS
<1>1. ASSUME NEW line \in Lines, RunLine(line) PROVE KernelKept'
  BY <1>1, KernelAout, KernelMultibootElf, KernelKernelElf, KernelKernelFlat, KernelModule,
     KernelQuiet DEF RunLine, Quiet
<1>2. CASE RefuseSegment \/ KernelReturns \/ FinishConfig
  BY <1>2, KernelQuiet
<1>3. CASE LoadSegment \/ LoadSection \/ FinishElf
  BY <1>3, KernelLoadSegment, KernelLoadSection, KernelFinishElf
<1>4. CASE UNCHANGED vars
  BY <1>4 DEF vars, config, kernel, history, KernelKept, Entered
<1>. QED  BY <1>1, <1>2, <1>3, <1>4 DEF Next

LEMMA KernelInit == Init => EntryComing /\ KernelKept
BY DEF Init, EntryComing, KernelKept

\* The entry point is that of an image that is loaded, or of the file that is
\* being loaded, and the information describes that image unless a line failed
\* (multiboot.c:285, 342, 394-403, 452-477, 690-692).
THEOREM KernelInvariant == ASSUME EntriesInside PROVE Spec => []KernelKept
<1>1. Init => TypeOK /\ EntryComing /\ KernelKept
  BY TypeInit, KernelInit
<1>2. /\ TypeOK /\ EntryComing /\ KernelKept /\ [Next]_vars
      => (TypeOK /\ EntryComing /\ KernelKept)'
  BY TypeNext, EntryNext, KernelNext
<1>. QED  BY <1>1, <1>2, PTL DEF Spec

\* Boot jumps to the entry point of a kernel that is completely in memory, where
\* the files' entry points are inside their images.
THEOREM KernelBoots == ASSUME BssIsPlaced, EntriesInside PROVE Spec => []BootsKernel
<1>1. ImagesKept /\ KernelKept => BootsKernel
  <2>1. SUFFICES ASSUME ImagesKept, KernelKept, origin \in {"multiboot", "kernel"}
                 PROVE  \E l \in loaded : Entered(l) /\ mem[entry_addr] = l.image[entry_addr]
    BY DEF BootsKernel
  <2>2. PICK l \in loaded : Entered(l) /\ entry_addr \in DOMAIN l.image
    BY <2>1 DEF KernelKept
  <2>3. mem[entry_addr] = l.image[entry_addr]
    BY <2>1, <2>2 DEF ImagesKept, InMemory
  <2>. QED  BY <2>2, <2>3
<1>. QED  BY <1>1, ImagesInvariant, KernelInvariant, PTL

\* A multiboot kernel is handed an information that describes it and no other,
\* with the modules of all the configuration's lines.
THEOREM InfoIsWhole == ASSUME BssIsPlaced, EntriesInside PROVE Spec => []InfoHandedOver
<1>1. KernelKept => DescribesKernel
  <2>1. SUFFICES ASSUME KernelKept, pc = "running", origin = "multiboot"
                 PROVE  \E l \in loaded : Entered(l) /\ Describes(mbinfo, l)
    BY DEF DescribesKernel
  <2>. QED  BY <2>1 DEF KernelKept
<1>2. DescribesKernel /\ ListsModules => InfoHandedOver
  BY DEF InfoHandedOver
<1>. QED  BY <1>1, <1>2, KernelInvariant, ModulesListed, PTL

================================================================================
