------------------------------- MODULE Ustar --------------------------------
(***************************************************************************)
(* lib/ustar.c: the headers of tar archives.  A header is a record of its  *)
(* fields, each a sequence of bytes.  The fields that are always the same  *)
(* (permissions, owner, time, links) are left out, of both checksums too.  *)
(***************************************************************************)
EXTENDS Integers, Sequences, SequencesExt, Strings

CONSTANTS NAME_SIZE,    \* bytes of the name field, 100 in the code
          SIZE_SIZE,    \* bytes of the size field, 12 in the code
          CHKSUM_SIZE,  \* bytes of the checksum field, 8 in the code
          ULONG_MAX,    \* the largest value parse_octal_field() may return
          INT_MAX       \* the largest file size

Slash == 47
Dot == 46
Zero == 48
Blank == 32
REGULAR == 48
DIRECTORY == 53
Magic == <<117, 115, 116, 97, 114, 0>>  \* "ustar"

Bytes(h) == h.name \o h.size \o <<h.typeflag>> \o h.magic \o h.version \o h.prefix

calculate_chksum(h) ==
  FoldLeft(LAMBDA x, y : x + y, CHKSUM_SIZE * Blank, Bytes(h))

(* A file name, as a sequence of bytes, without its dangerous prefixes.    *)
Begins(s, prefix) == IsPrefix(prefix, s)
RECURSIVE strip_antisocial_prefixes(_)
strip_antisocial_prefixes(s) ==
  LET after == SelectInSeq(s, LAMBDA c : c = Slash) + 1
  IN IF (s # <<>> /\ s[1] = Slash) \/ Begins(s, <<Dot, Slash>>) \/ Begins(s, <<Dot, Dot, Slash>>)
     THEN strip_antisocial_prefixes(SubSeq(s, after, Len(s)))
     ELSE IF s = <<>> \/ s = <<Dot, Dot>> THEN <<Dot>> ELSE s

Padded(s, size) == s \o [i \in 1 .. size - Len(s) |-> NUL]

(* snprintf (field, size, "%0*o", size - 1, n): the digits, the leading    *)
(* ones cut off by none of the values that fit, and a NUL.                 *)
Octal(n, size) ==
  Padded([i \in 1 .. size - 1 |-> Zero + ((n \div (8 ^ (size - 1 - i))) % 8)], size)

MakeNoChecksum(name, type, size) ==
  LET s == strip_antisocial_prefixes(name)
      h == [name |-> Padded(s, NAME_SIZE), size |-> Octal(size, SIZE_SIZE),
            typeflag |-> type, magic |-> Magic, version |-> <<Zero, Zero>>, prefix |-> <<NUL>>,
            chksum |-> [i \in 1 .. CHKSUM_SIZE |-> NUL]]
  IN IF Len(s) > NAME_SIZE - 1 THEN [ok |-> FALSE]
     ELSE [ok |-> TRUE, header |->
             [h EXCEPT !.chksum = Octal(calculate_chksum([h EXCEPT !.typeflag = 0]), CHKSUM_SIZE)]]
ustar_make_header(name, type, size) ==
  LET s == strip_antisocial_prefixes(name)
      h == [name |-> Padded(s, NAME_SIZE), size |-> Octal(size, SIZE_SIZE),
            typeflag |-> type, magic |-> Magic, version |-> <<Zero, Zero>>, prefix |-> <<NUL>>,
            chksum |-> [i \in 1 .. CHKSUM_SIZE |-> NUL]]
  IN IF Len(s) > NAME_SIZE - 1 THEN [ok |-> FALSE]
     ELSE [ok |-> TRUE, header |-> [h EXCEPT !.chksum = Octal(calculate_chksum(h), CHKSUM_SIZE)]]

(* The value of an octal field, or -1.                                     *)
RECURSIVE OctalFrom(_, _, _)
OctalFrom(s, ofs, value) ==
  IF ofs > Len(s) THEN -1
  ELSE IF s[ofs] \in Zero .. Zero + 7
  THEN IF value > ULONG_MAX \div 8 THEN -1
       ELSE OctalFrom(s, ofs + 1, (s[ofs] - Zero) + (value * 8))
  ELSE IF s[ofs] \in {Blank, NUL} /\ ofs > 1 THEN value ELSE -1

parse_octal_field(s) == OctalFrom(s, 1, 0)

is_all_zeros(h) == \A i \in DOMAIN Bytes(h) : Bytes(h)[i] = NUL

CString(field) == SubSeq(field, 1, SelectInSeq(field, LAMBDA c : c = NUL) - 1)

Failure == [type |-> "error"]

ValidHeader(h) ==
  /\ h.magic = Magic
  /\ h.version = <<Zero, Zero>>
  /\ parse_octal_field(h.chksum) # -1
  /\ parse_octal_field(h.chksum) = calculate_chksum(h)
  /\ Last(h.name) = NUL /\ h.prefix[1] = NUL
  /\ h.typeflag \in {REGULAR, DIRECTORY}
  /\ h.typeflag = REGULAR => parse_octal_field(h.size) \in 0 .. INT_MAX

ustar_parse_header(h) ==
  IF is_all_zeros(h) THEN [type |-> "eof"]
  ELSE IF ~ValidHeader(h) THEN Failure
  ELSE [type |-> h.typeflag, name |-> strip_antisocial_prefixes(CString(h.name)),
        size |-> IF h.typeflag = REGULAR THEN parse_octal_field(h.size) ELSE 0]
=============================================================================
