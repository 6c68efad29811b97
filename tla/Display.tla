-------------------------------- MODULE Display --------------------------------
(***************************************************************************)
(* The screen: the exchanges of fb.c with the firmware through the mailbox *)
(* of mbox.c, and the console of console.c that draws into what they get.  *)
(*                                                                         *)
(* The framebuffer is numbered in pixels, and a pixel of a glyph is named  *)
(* by its character, line and column.                                      *)
(***************************************************************************)
EXTENDS Integers, Sequences

CONSTANTS
  CHAR_W, CHAR_H,  \* the font
  WIDTH, HEIGHT,   \* what is asked for when the firmware knows no display
  Chars,           \* characters
  Newline          \* the character that ends a line

ASSUME DisplayAssumption ==
  /\ {CHAR_W, CHAR_H, WIDTH, HEIGHT} \subseteq Nat \ {0}
  /\ Newline \notin Chars

VARIABLES
  exchange,        \* of fb_init: which is under way, or "done" or "failed"
  mail,            \* what the firmware has put in the mailbox
  asked,           \* whether a request waits for the firmware
  virt_w, virt_h, pitch,
  fb,              \* what each pixel shows; empty while there is no framebuffer
  cur_x, cur_y,
  rows,            \* history: the rows a terminal of this width makes of the text
  printed          \* bound: how many characters the console was given

screen == <<virt_w, virt_h, pitch, fb>>
cursor == <<cur_x, cur_y, rows, printed>>
displayVars == <<exchange, mail, asked, screen, cursor>>

MBOX_PROP == 8
Black == <<0>>
Old == <<>>     \* a pixel as it was before: nothing clears the framebuffer

DisplayInit ==
  /\ exchange = "resolution" /\ mail = <<>> /\ asked = FALSE
  /\ virt_w = 0 /\ virt_h = 0 /\ pitch = 0 /\ fb = <<>>
  /\ cur_x = 0 /\ cur_y = 0 /\ rows = <<<<>>>> /\ printed = 0

(***************************************************************************)
(* The mailbox and the firmware behind it.                                 *)
(***************************************************************************)
FirmwareAnswers ==
  /\ asked /\ asked' = FALSE /\ mail' = Append(mail, MBOX_PROP)
  /\ UNCHANGED <<exchange, screen, cursor>>

\* Something for another channel, at most one at a time.
OtherChannel ==
  /\ asked /\ mail = <<>> /\ mail' = <<1>>
  /\ UNCHANGED <<exchange, asked, screen, cursor>>

\* Where an exchange of fb_init stands.
Exchanging == exchange \in {"resolution", "allocate", "pitch"}
Reading == mail # <<>> /\ mail' = Tail(mail)

mbox_write ==
  /\ Exchanging /\ ~asked /\ mail = <<>> /\ asked' = TRUE
  /\ UNCHANGED <<exchange, mail, screen, cursor>>

\* Mutant: what comes first is taken for the answer.
AnyMail == FALSE

\* mbox_read passes over what is for another channel.
OtherMail == mail # <<>> /\ Head(mail) # MBOX_PROP

PassOver == Exchanging /\ OtherMail /\ Reading /\ UNCHANGED <<exchange, asked, screen, cursor>>

(***************************************************************************)
(* fb_init: three exchanges, each of which may be refused.                 *)
(***************************************************************************)
HasRead(name) == exchange = name /\ mail # <<>> /\ ~OtherMail /\ Reading
Answered(name) == HasRead(name) /\ ~asked

\* The code in the mailbox buffer is not MBOX_SUCCESS: the firmware refused, or it is
\* still that of the request.
Refused ==
  /\ exchange' = "failed" /\ \E name \in {"resolution", "allocate", "pitch"} : HasRead(name)
  /\ UNCHANGED <<asked, screen, cursor>>

\* A display of no size at all is given one; one of no width or no height is none.
GetResolution(d) ==
  /\ Answered("resolution")
  /\ LET none == d.width = 0 /\ d.height = 0
         w == IF none THEN WIDTH ELSE d.width
         h == IF none THEN HEIGHT ELSE d.height
     IN  IF w = 0 \/ h = 0 THEN exchange' = "failed" /\ UNCHANGED screen
         ELSE /\ exchange' = "allocate" /\ virt_w' = w /\ virt_h' = h
              /\ UNCHANGED <<pitch, fb>>
  /\ UNCHANGED <<asked, cursor>>

\* The buffer holds as many lines of the firmware's pitch as were asked for.
Pitch(d) == virt_w + d.padding

AllocateBuffer(d) ==
  /\ Answered("allocate") /\ exchange' = "pitch"
  /\ fb' = [p \in 0 .. Pitch(d) * virt_h - 1 |-> Old]
  /\ UNCHANGED <<asked, virt_w, virt_h, pitch, cursor>>

GetPitch(d) ==
  /\ Answered("pitch") /\ exchange' = "done" /\ pitch' = Pitch(d)
  /\ UNCHANGED <<asked, virt_w, virt_h, fb, cursor>>

fb_init(d) == mbox_write \/ PassOver \/ GetResolution(d) \/ AllocateBuffer(d) \/ GetPitch(d)

(***************************************************************************)
(* The console.                                                            *)
(***************************************************************************)
Columns == virt_w \div CHAR_W
Rows == virt_h \div CHAR_H

\* The pixels draw_char sets at a place of the cursor.
Glyph(x, y) ==
  {(y * CHAR_H + j) * pitch + x * CHAR_W + i : i \in 0 .. CHAR_W - 1, j \in 0 .. CHAR_H - 1}

\* Each shows a character at a line and a column of its glyph.
draw_char(c, x, y, f) ==
  [p \in DOMAIN f |->
     IF p \in Glyph(x, y) THEN <<c, (p \div pitch) % CHAR_H, (p % pitch) % CHAR_W>> ELSE f[p]]

\* Mutant: the lines of the last row stay as they are.
ScrolledOnly(f) ==
  [p \in DOMAIN f |->
     IF p % pitch < virt_w /\ p \div pitch < virt_h - CHAR_H THEN f[p + CHAR_H * pitch] ELSE f[p]]

\* Line by line from the top, so that every line is read before it is written.
Scrolled(f) ==
  [p \in DOMAIN f |->
     IF p % pitch >= virt_w THEN f[p]
     ELSE IF p \div pitch < virt_h - CHAR_H THEN f[p + CHAR_H * pitch]
     ELSE Black]

\* newline, on what has been drawn.
newline(f) ==
  /\ cur_x' = 0
  /\ IF cur_y + 1 = Rows THEN cur_y' = cur_y /\ fb' = Scrolled(f)
     ELSE cur_y' = cur_y + 1 /\ fb' = f

LineFull == cur_x + 1 = Columns

\* What a terminal does: the last row takes the character, and a full row or the
\* end of a line begins a new one.
Put(shown, c) ==
  LET n == Len(shown)
      longer == [shown EXCEPT ![n] = Append(@, c)]
  IN  IF c = Newline THEN Append(shown, <<>>)
      ELSE IF Len(shown[n]) + 1 = Columns THEN Append(longer, <<>>)
      ELSE longer

\* Only with a framebuffer: without one it draws into memory from address 0.
console_putc(c) ==
  /\ exchange = "done"
  /\ \/ c = Newline /\ newline(fb)
     \/ /\ c # Newline /\ LineFull
        /\ newline(draw_char(c, cur_x, cur_y, fb))
     \/ /\ c # Newline /\ ~LineFull
        /\ fb' = draw_char(c, cur_x, cur_y, fb)
        /\ cur_x' = cur_x + 1 /\ UNCHANGED cur_y
  /\ rows' = Put(rows, c) /\ printed' = printed + 1
  /\ UNCHANGED <<exchange, mail, asked, virt_w, virt_h, pitch>>

(***************************************************************************)
(* Properties.                                                             *)
(***************************************************************************)
\* Every pixel the next character sets is in the framebuffer, however long the
\* text is and wherever its lines end (console.c:84-159).
DrawsInside ==
  exchange = "done" => Glyph(cur_x, cur_y) \subseteq DOMAIN fb

\* Where nothing was printed: what scrolling brings in is black, and what was there
\* before it is as it was before.
Ground(j, scrolled) == IF j + scrolled * CHAR_H < virt_h THEN Old ELSE Black

\* What the terminal shows at pixel i of line j.
Expected(i, j) ==
  LET scrolled == IF Len(rows) > Rows THEN Len(rows) - Rows ELSE 0
      y == j \div CHAR_H + 1 + scrolled
      x == i \div CHAR_W + 1
  IN  IF y <= Len(rows) /\ x <= Len(rows[y]) THEN <<rows[y][x], j % CHAR_H, i % CHAR_W>>
      ELSE Ground(j, scrolled)

\* The screen shows the last rows of what was printed: scrolling loses no row but
\* the first, mixes none, and leaves nothing of an old one; what the framebuffer held
\* at the start is seen until it has scrolled away (console.c:84-121).
ShowsText ==
  exchange = "done" =>
    \A i \in 0 .. virt_w - 1, j \in 0 .. virt_h - 1 : fb[j * pitch + i] = Expected(i, j)

\* Printing changes the framebuffer and nothing else, to what was printed.
ScreenRight == DrawsInside /\ ShowsText
================================================================================
