---------------------------------- MODULE Vfs ----------------------------------
(***************************************************************************)
(* The devices and paths of vfs.c.                                         *)
(*                                                                         *)
(* Devices are kept in the order of their registration, the reverse of the *)
(* list that the code searches.  A path is a sequence of tokens: brackets, *)
(* slashes, and names, which are at least one character long.              *)
(***************************************************************************)
EXTENDS Naturals, Sequences, FiniteSets

Punctuation == {"(", ")", "/"}
Nameless == ""
NoDevice == [name |-> Nameless]

\* A name is as long as it can be: no two of them meet.
IsPath(path) ==
  /\ path \in Seq(STRING)
  /\ \A i \in 1 .. Len(path) - 1 : path[i] \in Punctuation \/ path[i + 1] \in Punctuation

\* The latest device of a name.
find_ve(entries, name) ==
  LET found == {i \in DOMAIN entries : entries[i].name = name}
  IN  IF found = {} THEN NoDevice ELSE entries[CHOOSE i \in found : \A j \in found : j <= i]

(***************************************************************************)
(* split_dir.                                                              *)
(***************************************************************************)
Positions(path, token) == {i \in DOMAIN path : path[i] = token}

\* A bracket opens only at the beginning.
ReadingDevice(path, i) == i > 1 /\ path[1] = "(" /\ \A j \in 2 .. i - 1 : path[j] # ")"

DirError(path) ==
  \/ Positions(path, "(") \ {1} # {}
  \/ \E i \in Positions(path, ")") : ~ReadingDevice(path, i)
  \/ \E i \in Positions(path, "/") : ReadingDevice(path, i)

\* The device between the brackets that end at i.
DeviceAt(path, i, entries) == find_ve(entries, IF i = 3 THEN path[2] ELSE Nameless)

DeviceOf(path, entries, def) ==
  IF Positions(path, ")") = {} THEN def
  ELSE DeviceAt(path, CHOOSE i \in Positions(path, ")") : TRUE, entries)

\* Mutant: the slash behind a device's brackets begins a component.
StartAtBracket(path) == 1 + Cardinality({i \in DOMAIN path : \E j \in i .. Len(path) : path[j] = ")"})

\* dir_start: behind the brackets, and behind the slashes that follow.
StartOf(path) ==
  LET named == {i \in DOMAIN path : \E j \in i .. Len(path) : path[j] = ")"}
      slashes == {i \in DOMAIN path \ named : \A j \in 1 .. i : j \in named \/ path[j] = "/"}
  IN  1 + Cardinality(named \cup slashes)

\* A slash, or a name at the end of the path, ends a component.
Ends(path) ==
  {i \in Positions(path, "/") : i > StartOf(path)}
  \cup (IF path # <<>> /\ path[Len(path)] \notin Punctuation THEN {Len(path) + 1} ELSE {})

\* The end before i, where a component begins.
Before(path, i) ==
  LET earlier == {e \in Ends(path) : e < i}
  IN  IF earlier = {} THEN StartOf(path)
      ELSE 1 + CHOOSE e \in earlier : \A f \in earlier : f <= e

\* The k-th of a set of positions.
Nth(positions, k) ==
  CHOOSE i \in positions : Cardinality({j \in positions : j < i}) = k - 1

\* The device and the components of a path, or no device where it has none.
split_dir(path, entries, def) ==
  IF DirError(path) \/ DeviceOf(path, entries, def) = NoDevice THEN [ve |-> NoDevice, parts |-> <<>>]
  ELSE [ve |-> DeviceOf(path, entries, def),
        parts |-> [k \in 1 .. Cardinality(Ends(path)) |->
                    SubSeq(path, Before(path, Nth(Ends(path), k)), Nth(Ends(path), k) - 1)]]

(***************************************************************************)
(* What a path means, for paths without empty components.                  *)
(***************************************************************************)
HasDevice(path) == Len(path) >= 3 /\ path[1] = "(" /\ path[2] \notin Punctuation /\ path[3] = ")"

Rest(path) == IF HasDevice(path) THEN SubSeq(path, 4, Len(path)) ELSE path

ProperPath(path) ==
  LET rest == Rest(path)
  IN  /\ \A i \in DOMAIN rest : rest[i] \notin {"(", ")"}
      /\ \A i \in 1 .. Len(rest) - 1 : rest[i] # "/" \/ rest[i + 1] # "/"

\* The names of a path, each a component.
Names(path) ==
  LET names == {i \in DOMAIN path : path[i] # "/"}
  IN  [k \in 1 .. Cardinality(names) |-> <<path[Nth(names, k)]>>]

Named(path, entries, def) ==
  [ve |-> IF HasDevice(path) THEN find_ve(entries, path[2]) ELSE def, parts |-> Names(Rest(path))]
================================================================================
