------------------------------ MODULE Terminal ------------------------------
(***************************************************************************)
(* The two sides of the machine's terminal as functions: what a character  *)
(* does to the text display (devices/vga.c) and what a scancode does to    *)
(* the keyboard driver (devices/kbd.c).  Both run with interrupts off, so  *)
(* each call is one step of the state it is given.  Characters are their   *)
(* codes.                                                                  *)
(***************************************************************************)
EXTENDS Integers, Sequences, SequencesExt

CONSTANTS ROW_CNT, COL_CNT,     \* the size of the display (25 and 80)
          TAB                   \* the distance of tab stops (8)

Space == 32
BEL == 7
BS == 8
TABULATOR == 9
LF == 10
FF == 12
CR == 13

(***************************************************************************)
(* The display: fb[y][x] is the character in row y and column x, counted   *)
(* from 0; cx and cy are the driver's cursor, cp the hardware's.           *)
(***************************************************************************)
BlankRow == [x \in 0 .. COL_CNT - 1 |-> Space]

clear_row(s, y) == [s EXCEPT !.fb[y] = BlankRow]

move_cursor(s) == [s EXCEPT !.cp = s.cx + (COL_CNT * s.cy)]

find_cursor(cp) == [x |-> cp % COL_CNT, y |-> cp \div COL_CNT]

(* The first vga_putc(): the cursor is where the BIOS left it.             *)
init(fb, cp) == [fb |-> fb, cx |-> find_cursor(cp).x, cy |-> find_cursor(cp).y, cp |-> cp]

cls(s) ==
  move_cursor([FoldLeft(clear_row, s, [i \in 1 .. ROW_CNT |-> i - 1])
                 EXCEPT !.cx = 0, !.cy = 0])

newline(s) ==
  IF s.cy + 1 >= ROW_CNT
  THEN [clear_row([s EXCEPT !.fb = [y \in DOMAIN s.fb |->
                     IF y < ROW_CNT - 1 THEN s.fb[y + 1] ELSE s.fb[y]]], ROW_CNT - 1)
          EXCEPT !.cx = 0, !.cy = ROW_CNT - 1]
  ELSE [s EXCEPT !.cx = 0, !.cy = s.cy + 1]

Wrapped(s) == IF s.cx >= COL_CNT THEN newline(s) ELSE s

ROUND_UP(n, step) == ((n + step - 1) \div step) * step

vga_putc(s, c) ==
  move_cursor(
    CASE c = LF -> newline(s)
      [] c = FF -> cls(s)
      [] c = BS -> IF s.cx > 0 THEN [s EXCEPT !.cx = s.cx - 1] ELSE s
      [] c = CR -> [s EXCEPT !.cx = 0]
      [] c = TABULATOR -> Wrapped([s EXCEPT !.cx = ROUND_UP(s.cx + 1, TAB)])
      [] c = BEL -> s
      [] OTHER -> Wrapped([s EXCEPT !.fb[s.cy][s.cx] = c, !.cx = s.cx + 1]))

(***************************************************************************)
(* The keyboard: a keymap is a sequence of runs of consecutive scancodes.  *)
(***************************************************************************)
Run(first, chars) == [first |-> first, chars |-> chars]

invariant_keymap ==
  <<Run(1, <<27>>), Run(14, <<BS>>),
    Run(15, <<TABULATOR, 81, 87, 69, 82, 84, 89, 85, 73, 79, 80>>),     \* QWERTYUIOP
    Run(28, <<CR>>), Run(30, <<65, 83, 68, 70, 71, 72, 74, 75, 76>>),   \* ASDFGHJKL
    Run(44, <<90, 88, 67, 86, 66, 78, 77>>),                            \* ZXCVBNM
    Run(55, <<42>>), Run(57, <<Space>>), Run(83, <<127>>)>>

unshifted_keymap ==
  <<Run(2, <<49, 50, 51, 52, 53, 54, 55, 56, 57, 48, 45, 61>>),         \* 1234567890-=
    Run(26, <<91, 93>>), Run(39, <<59, 39, 96>>), Run(43, <<92>>),      \* [] ;'` \
    Run(51, <<44, 46, 47>>)>>                                           \* ,./

shifted_keymap ==
  <<Run(2, <<33, 64, 35, 36, 37, 94, 38, 42, 40, 41, 95, 43>>),         \* !@#$%^&*()_+
    Run(26, <<123, 125>>), Run(39, <<58, 34, 126>>), Run(43, <<124>>),  \* {} :"~ |
    Run(51, <<60, 62, 63>>)>>                                           \* <>?

NOT_FOUND == -1

(* The character a keymap gives a scancode, or NOT_FOUND.                  *)
map_key(k, scancode) ==
  LET hits == SelectSeq(k, LAMBDA run : scancode >= run.first
                                        /\ scancode < run.first + Len(run.chars))
  IN IF hits = <<>> THEN NOT_FOUND ELSE hits[1].chars[scancode - hits[1].first + 1]

(* Prefixed scancodes are 0xe000 + code.                                   *)
Prefix == 57344
CapsLock == 58
Delete == 127
ShiftKeys == <<42, 54>>                 \* left_shift, right_shift
AltKeys == <<56, Prefix + 56>>          \* left_alt, right_alt
CtrlKeys == <<29, Prefix + 29>>         \* left_ctrl, right_ctrl
shift_keys == ToSet(ShiftKeys \o AltKeys \o CtrlKeys)

(* The driver's state: the modifiers that are down, Caps Lock, and the     *)
(* characters appended to the input buffer.                                *)
KbdInit == [down |-> {}, caps_lock |-> FALSE, typed |-> <<>>, reboot |-> FALSE]

Down(k, keys) == \E key \in ToSet(keys) : key \in k.down

tolower(c) == IF c \in 65 .. 90 THEN c + 32 ELSE c

(* The character for a key that is pressed, or NOT_FOUND.                  *)
Mapped(k, code) ==
  LET same == map_key(invariant_keymap, code)
  IN IF same # NOT_FOUND THEN same
     ELSE map_key(IF Down(k, ShiftKeys) THEN shifted_keymap ELSE unshifted_keymap, code)

ModifiedShiftOnly(k, c) ==
  LET cased == IF Down(k, CtrlKeys) /\ c >= 64 /\ c < 96 THEN c - 64
               ELSE IF ~Down(k, ShiftKeys) THEN tolower(c) ELSE c
  IN IF Down(k, AltKeys) THEN cased + 128 ELSE cased
Modified(k, c) ==
  LET cased == IF Down(k, CtrlKeys) /\ c >= 64 /\ c < 96 THEN c - 64
               ELSE IF Down(k, ShiftKeys) = k.caps_lock THEN tolower(c) ELSE c
  IN IF Down(k, AltKeys) THEN cased + 128 ELSE cased

(* One scancode; `full' is input_full().                                   *)
keyboard_interrupt(k, code, release, full) ==
  IF code = CapsLock
  THEN IF release THEN k ELSE [k EXCEPT !.caps_lock = ~k.caps_lock]
  ELSE IF Mapped(k, code) # NOT_FOUND
  THEN IF release THEN k
       ELSE IF Mapped(k, code) = Delete /\ Down(k, CtrlKeys) /\ Down(k, AltKeys)
       THEN [k EXCEPT !.reboot = TRUE]
       ELSE IF full THEN k
       ELSE [k EXCEPT !.typed = Append(@, Modified(k, Mapped(k, code)))]
  ELSE IF code \in shift_keys
  THEN [k EXCEPT !.down = IF release THEN @ \ {code} ELSE @ \union {code}]
  ELSE k
=============================================================================
