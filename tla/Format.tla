------------------------------- MODULE Format -------------------------------
(***************************************************************************)
(* printf and the dumps of lib/stdio.c, and atoi of lib/stdlib.c.  Text is *)
(* a sequence of one-character strings; integer types have the sizes of    *)
(* Bits.                                                                   *)
(***************************************************************************)
EXTENDS Integers, Sequences, SequencesExt

CONSTANTS
  Bits,      \* bits of the types CHAR, SHORT, INT and LONGLONG
  BUF_SIZE   \* room for the digits of format_integer, 64 in the code

Digits == <<"0", "1", "2", "3", "4", "5", "6", "7", "8", "9", "a", "b", "c", "d", "e", "f">>
IsDigit(ch) == \E i \in 1 .. 10 : Digits[i] = ch
DigitValue(ch) == (CHOOSE i \in 1 .. 16 : Digits[i] = ch) - 1

(* The integer bases, with the digits that the ' flag puts in a group. *)
base_d == [base |-> 10, x |-> <<>>, group |-> 3]
base_o == [base |-> 8, x |-> <<>>, group |-> 3]
base_x == [base |-> 16, x |-> <<"x">>, group |-> 4]

(* What a variable of the type holds after the assignment of v. *)
AsUnsigned(v, type) == v % 2 ^ Bits[type]
AsSigned(v, type) ==
  LET u == AsUnsigned(v, type) IN IF u >= 2 ^ (Bits[type] - 1) THEN u - 2 ^ Bits[type] ELSE u

output_dup(ch, cnt) == [i \in 1 .. (IF cnt > 0 THEN cnt ELSE 0) |-> ch]

-----------------------------------------------------------------------------
(* A conversion is [flags, width, precision, type]; -1 is no precision. *)

(* The digits of a number, least significant first, with group marks. *)
RECURSIVE Accumulate(_, _, _, _)
Accumulate(value, b, group, cnt) ==
  IF value = 0 THEN <<>>
  ELSE (IF group /\ cnt > 0 /\ cnt % b.group = 0 THEN <<",">> ELSE <<>>)
       \o <<Digits[(value % b.base) + 1]>> \o Accumulate(value \div b.base, b, group, cnt + 1)

(* Digits up to the precision, as many as fit in the buffer. *)
Filled(digits, precision) ==
  LET limit == IF precision < BUF_SIZE - 1 THEN precision ELSE BUF_SIZE - 1
  IN digits \o output_dup("0", limit - Len(digits))

(* The # flag makes an octal number start with 0. *)
LeadingZero(buf, b, c) ==
  IF "#" \in c.flags /\ b.base = 8 /\ (buf = <<>> \/ Last(buf) # "0") THEN Append(buf, "0") ELSE buf

(* Sign, prefix and digits, in the width and on the side the flags say. *)
Padded(sign, x, buf, c) ==
  LET pad_cnt == c.width - Len(buf) - Len(x) - Len(sign)
  IN (IF c.flags \cap {"-", "0"} = {} THEN output_dup(" ", pad_cnt) ELSE <<>>)
     \o sign \o x
     \o (IF "0" \in c.flags THEN output_dup("0", pad_cnt) ELSE <<>>)
     \o Reverse(buf)
     \o (IF "-" \in c.flags THEN output_dup(" ", pad_cnt) ELSE <<>>)

format_integer(value, is_signed, negative, b, c) ==
  LET sign == IF ~is_signed THEN <<>>
              ELSE IF negative THEN <<"-">>
              ELSE IF "+" \in c.flags THEN <<"+">>
              ELSE IF " " \in c.flags THEN <<" ">> ELSE <<>>
      x == IF "#" \in c.flags /\ value # 0 /\ b.x # <<>> THEN <<"0">> \o b.x ELSE <<>>
      digits == Accumulate(value, b, "'" \in c.flags, 0)
      precision == IF c.precision < 0 THEN 1 ELSE c.precision
  IN Padded(sign, x, LeadingZero(Filled(digits, precision), b, c), c)

format_string(s, c) ==
  LET pad == output_dup(" ", c.width - Len(s))
  IN IF "-" \in c.flags THEN s \o pad ELSE pad \o s

-----------------------------------------------------------------------------
(* parse_conversion: the conversion at the start of a format, the rest of  *)
(* the format and the arguments that are left.                             *)

(* The length of the start of s whose characters satisfy Is. *)
Prefix(s, Is(_)) ==
  LET bad == {i \in DOMAIN s : ~Is(s[i])}
  IN IF bad = {} THEN Len(s) ELSE (CHOOSE i \in bad : \A j \in bad : i <= j) - 1
Number(s) == FoldLeft(LAMBDA v, ch : v * 10 + DigitValue(ch), 0, s)
Drop(s, n) == SubSeq(s, n + 1, Len(s))

(* A width or a precision: digits, or * for the next argument. *)
Field(f, args) ==
  IF f # <<>> /\ f[1] = "*" THEN [value |-> args[1], rest |-> Tail(f), args |-> Tail(args)]
  ELSE LET n == Prefix(f, IsDigit)
       IN [value |-> Number(SubSeq(f, 1, n)), rest |-> Drop(f, n), args |-> args]

(* The type letters: hh, h and ll; the other ones are as long as an int or *)
(* as a long long.                                                         *)
Type(f) ==
  CASE f[1] = "h" /\ f[2] = "h" -> <<"CHAR", Drop(f, 2)>>
    [] f[1] = "h" /\ f[2] # "h" -> <<"SHORT", Drop(f, 1)>>
    [] f[1] = "l" /\ f[2] = "l" -> <<"LONGLONG", Drop(f, 2)>>
    [] f[1] = "l" /\ f[2] # "l" -> <<"INT", Drop(f, 1)>>
    [] f[1] = "j" -> <<"LONGLONG", Drop(f, 1)>>
    [] f[1] \in {"t", "z"} -> <<"INT", Drop(f, 1)>>
    [] OTHER -> <<"INT", f>>

Precision(w) ==
  IF w.rest[1] = "." THEN Field(Tail(w.rest), w.args) ELSE [w EXCEPT !.value = -1]

(* The conversion with these flags, width and precision.  A negative width *)
(* is the flag -; - overrides 0, + overrides the blank, and a precision    *)
(* overrides 0.                                                            *)
Conversion(given, w, p) ==
  LET flags == given \ ((IF "-" \in given THEN {"0"} ELSE {}) \cup
                        (IF "+" \in given THEN {" "} ELSE {}))
      t == Type(p.rest)
  IN [flags |-> (IF w.value < 0 THEN flags \cup {"-"} ELSE flags)
                  \ (IF p.value >= 0 THEN {"0"} ELSE {}),
      width |-> IF w.value < 0 THEN -w.value ELSE w.value,
      precision |-> IF p.value < 0 THEN -1 ELSE p.value,
      type |-> t[1], rest |-> t[2], args |-> p.args]

parse_conversion(f, args) ==
  LET n == Prefix(f, LAMBDA ch : ch \in {"-", "+", " ", "#", "0", "'"})
      w == Field(Drop(f, n), args)
  IN Conversion(ToSet(SubSeq(f, 1, n)), w, Precision(w))

(* The conversion of one argument. *)
Convert(c, letter, arg) ==
  CASE letter \in {"d", "i"} ->
         LET v == AsSigned(arg, c.type)
         IN format_integer(IF v < 0 THEN -v ELSE v, TRUE, v < 0, base_d, c)
    [] letter = "u" -> format_integer(AsUnsigned(arg, c.type), FALSE, FALSE, base_d, c)
    [] letter = "o" -> format_integer(AsUnsigned(arg, c.type), FALSE, FALSE, base_o, c)
    [] letter = "x" -> format_integer(AsUnsigned(arg, c.type), FALSE, FALSE, base_x, c)
    [] letter = "p" ->
         format_integer(AsUnsigned(arg, "INT"), FALSE, FALSE, base_x, [c EXCEPT !.flags = {"#"}])
    [] letter = "c" -> format_string(<<arg>>, c)
    [] letter = "s" ->
         LET limit == IF c.precision < 0 \/ c.precision > Len(arg) THEN Len(arg) ELSE c.precision
         IN format_string(SubSeq(arg, 1, limit), c)

(* __vprintf: the text for a format and its arguments. *)
RECURSIVE vprintf(_, _)
vprintf(format, args) ==
  IF format = <<>> THEN <<>>
  ELSE IF format[1] # "%" THEN <<format[1]>> \o vprintf(Tail(format), args)
  ELSE IF format[2] = "%" THEN <<"%">> \o vprintf(Drop(format, 2), args)
  ELSE LET from(c) == Convert(c, c.rest[1], c.args[1]) \o vprintf(Tail(c.rest), Tail(c.args))
       IN from(parse_conversion(Tail(format), args))

(* vsnprintf into a buffer of n characters: what is stored before the      *)
(* terminator, and the length that is returned.                            *)
vsnprintf(n, format, args) ==
  LET text == vprintf(format, args)
      max_length == IF n > 0 THEN n - 1 ELSE 0
  IN <<SubSeq(text, 1, IF Len(text) < max_length THEN Len(text) ELSE max_length), Len(text)>>

(* vhprintf of lib/user/console.c: the write calls it makes, with a buffer *)
(* of so many characters (64 in the code), and the length it returns.      *)
vhprintf(size, format, args) ==
  LET flush(x) == IF x.buf = <<>> THEN x ELSE [x EXCEPT !.out = Append(@, x.buf), !.buf = <<>>]
      add_char(x, c) ==
        LET y == [x EXCEPT !.buf = Append(@, c), !.char_cnt = @ + 1]
        IN IF Len(y.buf) >= size THEN flush(y) ELSE y
      x == flush(FoldLeft(add_char, [out |-> <<>>, buf |-> <<>>, char_cnt |-> 0],
                          vprintf(format, args)))
  IN <<x.out, x.char_cnt>>

(* atoi.  The value is accumulated as a negative number. *)
atoi(s) ==
  LET t == Drop(s, Prefix(s, LAMBDA ch : ch = " "))
      signed == t # <<>> /\ t[1] \in {"+", "-"}
      u == IF signed THEN Tail(t) ELSE t
      value == FoldLeft(LAMBDA v, ch : v * 10 - DigitValue(ch), 0,
                        SubSeq(u, 1, Prefix(u, IsDigit)))
  IN IF signed /\ t[1] = "-" THEN value ELSE -value

-----------------------------------------------------------------------------
(* print_human_readable_size, as the number and the index of the unit.     *)
Factors == <<"bytes", "kB", "MB", "GB", "TB">>
RECURSIVE Scaled(_, _, _)
Scaled(size, unit, k) ==
  IF size >= k /\ unit < Len(Factors) THEN Scaled(size \div k, unit + 1, k) ELSE <<size, unit>>
print_human_readable_size(size, k) == IF size = 1 THEN <<1, 1>> ELSE Scaled(size, 1, k)

(* hex_dump, of per_line bytes to a line (16 in the code): the lines, each *)
(* with its offset, its columns of bytes and its columns of characters.    *)
isprint(c) == c \in 32 .. 126
Gap == -1
Dot == 46
RECURSIVE hex_dump(_, _, _, _)
hex_dump(ofs, buf, ascii, per_line) ==
  LET start == ofs % per_line
      end == IF per_line - start > Len(buf) THEN start + Len(buf) ELSE per_line
      n == end - start
      byte(i) == IF i \in start .. end - 1 THEN buf[i - start + 1] ELSE Gap
      char(i) == IF byte(i) = Gap \/ isprint(byte(i)) THEN byte(i) ELSE Dot
  IN IF buf = <<>> THEN <<>>
     ELSE <<[ofs |-> ofs - start, hex |-> [i \in 1 .. (IF ascii THEN per_line ELSE end) |-> byte(i - 1)],
             text |-> IF ascii THEN [i \in 1 .. per_line |-> char(i - 1)] ELSE <<>>]>>
          \o hex_dump(ofs + n, SubSeq(buf, n + 1, Len(buf)), ascii, per_line)

(* fsutil_cat dumps a file in pieces of a page.                            *)
RECURSIVE fsutil_cat(_, _, _, _)
fsutil_cat(file, pos, pgsize, per_line) ==
  LET n == IF Len(file) - pos < pgsize THEN Len(file) - pos ELSE pgsize
  IN IF n = 0 THEN <<>>
     ELSE hex_dump(pos, SubSeq(file, pos + 1, pos + n), TRUE, per_line)
          \o fsutil_cat(file, pos + n, pgsize, per_line)
=============================================================================
