------------------------------ MODULE Terminal ------------------------------
(***************************************************************************)
(* The shell's line editor and the VGA text buffer it echoes to, with the  *)
(* demo tasks printing lines of their own between the shell's turns.  A    *)
(* print holds the writer's lock throughout, so it is one step here (the   *)
(* lock is in IrqMutex); a program's output is any text of a small set.    *)
(***************************************************************************)
EXTENDS Integers, Sequences, FiniteSetsExt

CONSTANTS
  BUFFER_WIDTH, BUFFER_HEIGHT,
  LINE_CAPACITY,
  Bytes,             \* what a text is made of
  Unprintable,       \* bytes outside ' '..='~'
  Keys,              \* characters that can be typed
  PROMPT,            \* the prompt's text
  Texts,             \* what help, about and cat may print, newlines included
  UNKNOWN,           \* "unknown command: "
  Line,              \* what a demo prints, its newline included
  MAX_EVENTS         \* bound: keys typed and lines printed

Blank == " "
Newline == "\n"
Block == "fe"        \* what stands for a byte the text mode cannot show

ASSUME TerminalAssumption ==
  /\ BUFFER_WIDTH \in Nat \ {0} /\ BUFFER_HEIGHT \in Nat \ {0}
  /\ LINE_CAPACITY \in Nat /\ MAX_EVENTS \in Nat
  /\ Len(PROMPT) + LINE_CAPACITY <= BUFFER_WIDTH
  /\ Unprintable \subseteq Bytes \ {Newline} /\ Keys \subseteq Bytes \ {Newline}
  /\ PROMPT \in Seq(Bytes \ ({Newline} \cup Unprintable))
  /\ UNKNOWN \in Seq(Bytes) /\ Line \in Seq(Bytes) /\ {Blank, Newline} \subseteq Bytes
  /\ \A text \in Texts : text \in Seq(Bytes) /\ text # << >> /\ text[Len(text)] = Newline

VARIABLES
  screen,        \* the cells, row by row
  row, column,   \* Writer
  line_buf,      \* LineEditor: buf[..len]
  disturbed,     \* has a demo printed since the last prompt?
  events

terminal_vars == <<screen, row, column, line_buf, disturbed, events>>

Rows == 0 .. BUFFER_HEIGHT - 1
Columns == 0 .. BUFFER_WIDTH - 1
BlankRow == [c \in Columns |-> Blank]

-----------------------------------------------------------------------------
\* The writer: a terminal is [screen, row, column].
Writer == [screen |-> screen, row |-> row, column |-> column]

put_char(w, ch) == [w EXCEPT !.screen[w.row][w.column] = ch]

scroll(s) == [r \in Rows |-> IF r = BUFFER_HEIGHT - 1 THEN BlankRow ELSE s[r + 1]]

new_line(w) ==
  IF w.row + 1 < BUFFER_HEIGHT
  THEN [w EXCEPT !.row = @ + 1, !.column = 0]
  ELSE [w EXCEPT !.screen = scroll(@), !.column = 0]

Full(w) == w.column >= BUFFER_WIDTH

write_byte(w, byte) ==
  LET at == IF Full(w) THEN new_line(w) ELSE w
  IN  IF byte = Newline THEN new_line(w)
      ELSE [put_char(at, byte) EXCEPT !.column = @ + 1]

representable(byte) == IF byte \in Unprintable THEN Block ELSE byte

write_string(w, text) ==
  LET after[n \in 0 .. Len(text)] ==
        IF n = 0 THEN w ELSE write_byte(after[n - 1], representable(text[n]))
  IN  after[Len(text)]

erase(w) == put_char([w EXCEPT !.column = @ - 1], Blank)

backspace(w) == IF w.column = 0 THEN w ELSE erase(w)

clear_screen == [screen |-> [r \in Rows |-> BlankRow], row |-> 0, column |-> 0]

Shows(w) == screen' = w.screen /\ row' = w.row /\ column' = w.column
-----------------------------------------------------------------------------
\* shell::init, under whatever the boot has printed.
TerminalInit ==
  /\ \E banner \in Texts \cup {<< >>} :
       LET w == write_string(write_string(clear_screen, banner), PROMPT)
       IN  screen = w.screen /\ row = w.row /\ column = w.column
  /\ line_buf = << >> /\ disturbed = FALSE /\ events = 0

Event == events < MAX_EVENTS /\ events' = events + 1

HasRoom == Len(line_buf) < LINE_CAPACITY

\* Mutant: a character is echoed whether or not the line has room for it.
echo_always(c, pushed) == Shows(write_string(Writer, <<c>>))

echo(c, pushed) == Shows(IF pushed THEN write_string(Writer, <<c>>) ELSE Writer)

\* push_char and its echo.
Char(c) ==
  LET pushed == HasRoom /\ c \notin Unprintable
  IN  /\ Event
      /\ line_buf' = IF pushed THEN Append(line_buf, c) ELSE line_buf
      /\ echo(c, pushed)
      /\ UNCHANGED disturbed

Backspace ==
  /\ Event
  /\ IF line_buf = << >> THEN UNCHANGED <<line_buf, screen, row, column>>
     ELSE line_buf' = SubSeq(line_buf, 1, Len(line_buf) - 1) /\ Shows(backspace(Writer))
  /\ UNCHANGED disturbed

\* str::trim
trim(s) ==
  LET visible == {i \in 1 .. Len(s) : s[i] # Blank}
  IN  IF visible = {} THEN << >> ELSE SubSeq(s, Min(visible), Max(visible))

\* The first word of a trimmed line, and the rest of it.
split_command(line) ==
  LET blanks == {i \in 1 .. Len(line) : line[i] = Blank}
      end == IF blanks = {} THEN Len(line) + 1 ELSE Min(blanks)
  IN  [cmd |-> SubSeq(line, 1, end - 1), rest |-> trim(SubSeq(line, end, Len(line)))]

\* The terminals a line may leave: "c" stands for clear, "e" for echo, "h" for the rest.
run_line(w, line) ==
  LET parts == split_command(trim(line))
  IN  CASE trim(line) = << >> -> {w}
        [] parts.cmd = <<"c">> -> {clear_screen}
        [] parts.cmd = <<"e">> -> {write_string(w, Append(parts.rest, Newline))}
        [] parts.cmd = <<"h">> -> {write_string(w, t) : t \in Texts}
        [] OTHER -> {write_string(w, Append(UNKNOWN \o parts.cmd, Newline))}

Enter ==
  /\ Event
  /\ \E w \in run_line(write_byte(Writer, Newline), line_buf) : Shows(write_string(w, PROMPT))
  /\ line_buf' = << >> /\ disturbed' = FALSE

\* demo_counter_task: once a second a line on the screen, at the demo's turn.
demo_prints ==
  /\ Event
  /\ Shows(write_string(Writer, Line))
  /\ disturbed' = TRUE
  /\ UNCHANGED line_buf

\* Nothing typed and no new second.
rest == UNCHANGED terminal_vars

TerminalNext == (\E c \in Keys : Char(c)) \/ Backspace \/ Enter \/ demo_prints \/ rest

TerminalSpec == TerminalInit /\ [][TerminalNext]_terminal_vars
-----------------------------------------------------------------------------
AfterCursorIsBlank ==
  \A r \in Rows : \A c \in Columns :
    r > row \/ (r = row /\ c >= column) => screen[r][c] = Blank

\* The row of the cursor reads: the prompt, then the line being edited.
EditShown ==
  /\ column = Len(PROMPT \o line_buf)
  /\ \A i \in 1 .. column : screen[row][i - 1] = (PROMPT \o line_buf)[i]

(***************************************************************************)
(* Nothing stale is on the screen after the cursor, whoever prints.  After *)
(* every command, output that wraps or scrolls included, the row of the    *)
(* cursor shows the prompt and the characters of the line buffer, and goes *)
(* on doing so until another task prints.  The capacity "Leaves room for a *)
(* short prompt on an 80-column VGA row without wrapping mid-edit."        *)
(***************************************************************************)
EditIsShown == AfterCursorIsBlank /\ (~disturbed => EditShown)
=============================================================================
