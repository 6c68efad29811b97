------------------------------- MODULE ConfigText -------------------------------
(***************************************************************************)
(* How config_parse.c takes the text of a configuration apart.  A text is  *)
(* a sequence of characters.                                               *)
(***************************************************************************)
EXTENDS Naturals, Sequences

\* What isspace says of the characters that are used.
Space == " "
Blanks == {Space, "\t"}

\* The first of a set of positions, or the one behind the end.
First(s, found) ==
  IF found = {} THEN Len(s) + 1 ELSE CHOOSE k \in found : \A j \in found : k <= j

\* The first from i on that is one of chars, or that is none.
FirstIn(s, i, chars) == First(s, {k \in i .. Len(s) : s[k] \in chars})
FirstNotIn(s, i, chars) == First(s, {k \in i .. Len(s) : s[k] \notin chars})

(***************************************************************************)
(* Lines.                                                                  *)
(***************************************************************************)
EndOfLine(buf) == FirstIn(buf, 1, {"\n"})

\* The first line of a text that is not empty, and what is behind it.
read_line(buf) == SubSeq(buf, 1, EndOfLine(buf) - 1)
Behind(buf) == SubSeq(buf, EndOfLine(buf) + 1, Len(buf))

\* strip_comments: white space in front, then the comment, then white space behind
\* what is left, down to its second character.
Unindented(s) == SubSeq(s, FirstNotIn(s, 1, Blanks), Len(s))

\* Mutant: only a line that begins with it is a comment.
UncommentedLine(s) == IF s # <<>> /\ s[1] = "#" THEN <<>> ELSE s

Uncommented(s) == SubSeq(s, 1, FirstIn(s, 1, {"#"}) - 1)

Trimmed(s) ==
  LET kept == {k \in DOMAIN s : k = 1 \/ s[k] \notin Blanks}
  IN  IF s = <<>> THEN s ELSE SubSeq(s, 1, CHOOSE k \in kept : \A j \in kept : j <= k)

(***************************************************************************)
(* Words.                                                                  *)
(***************************************************************************)
MethodStart(s) == FirstNotIn(s, 1, {Space})
MethodEnd(s) == FirstIn(s, MethodStart(s), {Space})
ArgsStart(s) == FirstNotIn(s, MethodEnd(s), {Space})

\* split_string, for the delimiter that stands for none: the first word, and all
\* from the second on.
split_string(s) ==
  [method |-> SubSeq(s, MethodStart(s), MethodEnd(s) - 1), args |-> SubSeq(s, ArgsStart(s), Len(s))]

(***************************************************************************)
(* What a line means.                                                      *)
(***************************************************************************)
AllBlank(s) == \A i \in DOMAIN s : s[i] \in Blanks

\* Nothing but white space and then a comment.
Ignored(s) == \E i \in 0 .. Len(s) : AllBlank(SubSeq(s, 1, i)) /\ (i = Len(s) \/ s[i + 1] = "#")

\* Words without a comment, with no white space at their ends.
Words(s) ==
  /\ \A i \in DOMAIN s : s[i] # "#"
  /\ s # <<>> => s[1] \notin Blanks /\ s[Len(s)] \notin Blanks

\* A line is white space, the method, spaces, the arguments, and what is ignored.
Means(line, method, args) ==
  \/ Ignored(line) /\ method = <<>> /\ args = <<>>
  \/ \E i, k \in 0 .. Len(line) :
       LET words == SubSeq(line, i + 1, k)
           gap == SubSeq(words, Len(method) + 1, Len(words) - Len(args))
       IN  /\ AllBlank(SubSeq(line, 1, i)) /\ Ignored(SubSeq(line, k + 1, Len(line))) /\ Words(words)
           /\ method # <<>> /\ words = method \o gap \o args
           /\ \A j \in DOMAIN method : method[j] # Space
           /\ \A j \in DOMAIN gap : gap[j] = Space
           /\ args # <<>> => gap # <<>> /\ args[1] # Space
================================================================================
