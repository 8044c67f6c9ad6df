------------------------------- MODULE Printf -------------------------------
(***************************************************************************)
(* Formatting (include/nanoprintf.h, as lib/log.c configures it): the      *)
(* loop of npf_vpprintf over a format, the parsing of a conversion         *)
(* specification, the conversions, padding, and the bounded buffer of      *)
(* npf_vsnprintf.                                                          *)
(*                                                                         *)
(* Characters are strings of length one. The widths of the C types are     *)
(* parameters, smaller than those of the machine.                          *)
(***************************************************************************)
EXTENDS Integers, Sequences, SequencesExt, FiniteSets

CONSTANTS
  CharBits, ShortBits, IntBits, LongBits,
  ConvBufSize,             \* NANOPRINTF_CONVERSION_BUFFER_SIZE
  Flags, Widths, Precs, Mods, Convs,   \* the parts formats are built from
  StarArgs,                \* arguments for *
  IntArgs, CharArgs, StrArgs,
  BufSizes,                \* sizes of the caller's buffer
  NoFormat                 \* marks the end of a call

ASSUME PrintfAssumption ==
  /\ CharBits <= ShortBits /\ ShortBits <= IntBits /\ IntBits <= LongBits
  /\ CharBits \in Nat \ {0}
  /\ BufSizes \subseteq Nat \ {0}

VARIABLES
  fmt,    \* what is left of the format, NoFormat after the return
  args,   \* the arguments that are left
  dst,    \* npf_bufputc_ctx_t: the buffer and the number of characters in it
  text,   \* everything handed to npf_putc_cnt
  call    \* the call: its specification, argument and buffer (history)

printfVars == <<fmt, args, dst, text, call>>

Garbage == "?"
Nul == "nul"

-----------------------------------------------------------------------------
(* npf_parse_format_spec.                                                  *)

CharAt(f, i) == IF i <= Len(f) THEN f[i] ELSE Nul

Upper == <<"0", "1", "2", "3", "4", "5", "6", "7", "8", "9",
           "A", "B", "C", "D", "E", "F">>
Lower == <<"0", "1", "2", "3", "4", "5", "6", "7", "8", "9",
           "a", "b", "c", "d", "e", "f">>

DigitOf(c) == CHOOSE d \in 0..15 : c \in {Lower[d + 1], Upper[d + 1]}
IsDigit(c) == \E d \in 0..9 : c = Lower[d + 1]

RECURSIVE ParseFlags(_, _, _)
ParseFlags(f, i, fs) ==
  CASE CharAt(f, i) = "-" ->
         ParseFlags(f, i + 1, [fs EXCEPT !.left = TRUE, !.zero = FALSE])
    [] CharAt(f, i) = "0" -> ParseFlags(f, i + 1, [fs EXCEPT !.zero = ~fs.left])
    [] CharAt(f, i) = "+" -> ParseFlags(f, i + 1, [fs EXCEPT !.prepend = "+"])
    [] CharAt(f, i) = " " ->
         ParseFlags(f, i + 1,
                    [fs EXCEPT !.prepend = IF @ = Nul THEN " " ELSE @])
    [] CharAt(f, i) = "#" -> ParseFlags(f, i + 1, [fs EXCEPT !.alt = TRUE])
    [] OTHER -> [fs EXCEPT !.len = i]

RECURSIVE ParseNumber(_, _, _)
ParseNumber(f, i, v) ==
  IF IsDigit(CharAt(f, i))
  THEN ParseNumber(f, i + 1, v * 10 + DigitOf(CharAt(f, i)))
  ELSE [len |-> i, val |-> v]

ParseWidth(f, fs) ==
  LET i == fs.len
      w == ParseNumber(f, i, 0)
  IN IF CharAt(f, i) = "*"
     THEN [fs EXCEPT !.width_opt = "star", !.len = i + 1]
     ELSE [fs EXCEPT !.width_opt = IF w.len > i THEN "literal" ELSE "none",
                     !.width = w.val, !.len = w.len]

\* A literal precision with a minus sign counts as none, but its digits are
\* kept.
ParsePrec(f, fs) ==
  LET i == fs.len + 1
      neg == CharAt(f, i) = "-"
      p == ParseNumber(f, IF neg THEN i + 1 ELSE i, 0)
  IN IF CharAt(f, fs.len) # "." THEN fs
     ELSE IF CharAt(f, i) = "*" THEN [fs EXCEPT !.prec_opt = "star", !.len = i + 1]
     ELSE [fs EXCEPT !.prec_opt = IF neg THEN "none" ELSE "literal",
                     !.prec = p.val, !.len = p.len]

ParseLength(f, fs) ==
  LET i == fs.len
      double == CharAt(f, i + 1) = CharAt(f, i)
  IN CASE CharAt(f, i) = "h" ->
            [fs EXCEPT !.bits = IF double THEN CharBits ELSE ShortBits,
                       !.len = IF double THEN i + 2 ELSE i + 1]
       [] CharAt(f, i) = "l" ->
            [fs EXCEPT !.bits = LongBits, !.len = IF double THEN i + 2 ELSE i + 1]
       [] CharAt(f, i) \in {"j", "z", "t"} ->
            [fs EXCEPT !.bits = LongBits, !.len = i + 1]
       [] OTHER -> fs

ParseConv(f, fs) ==
  LET c == CharAt(f, fs.len)
      new == [fs EXCEPT !.conv = IF c = "i" THEN "d" ELSE c]
  IN CASE c \in {"%", "c", "p"} -> [new EXCEPT !.prec_opt = "none"]
       [] c = "s" -> [new EXCEPT !.zero = FALSE]
       [] c \in {"i", "d", "o", "u", "x", "X"} ->
            [new EXCEPT !.zero = @ /\ fs.prec_opt = "none"]
       [] c \in {"b", "B"} -> new
       [] OTHER -> [fs EXCEPT !.len = 0]

\* len is the number of characters of the specification, 0 if it is none.
npf_parse_format_spec(f) ==
  LET none == [left |-> FALSE, zero |-> FALSE, prepend |-> Nul, alt |-> FALSE,
               width_opt |-> "none", width |-> 0, prec_opt |-> "none",
               prec |-> 0, bits |-> IntBits, conv |-> Nul, len |-> 0]
  IN ParseConv(f, ParseLength(f, ParsePrec(f, ParseWidth(f, ParseFlags(f, 2, none)))))

-----------------------------------------------------------------------------
(* The conversion of one argument.                                         *)

\* npf_utoa_rev and its reading backwards, and npf_bin_len with the loop over
\* the bits for base 2.
RECURSIVE npf_utoa_rev(_, _, _)
npf_utoa_rev(val, base, digits) ==
  IF val < base THEN <<digits[val + 1]>>
  ELSE Append(npf_utoa_rev(val \div base, base, digits), digits[(val % base) + 1])

\* A plausible slip: the argument is not cut to the width of its type.
Uncut(v, bits) == IF v < 0 THEN v + 2 ^ LongBits ELSE v

Unsigned(v, bits) == v % 2 ^ bits
Signed(v, bits) == ((v + 2 ^ (bits - 1)) % 2 ^ bits) - 2 ^ (bits - 1)

\* The star arguments, taken before the value.
StarArguments(fs, as) ==
  LET w == fs.width_opt = "star"
      p == fs.prec_opt = "star"
      width == IF w THEN as[1] ELSE fs.width
      prec == IF p THEN as[IF w THEN 2 ELSE 1] ELSE fs.prec
  IN [fs EXCEPT !.width = IF width < 0 THEN -width ELSE width,
                !.left = @ \/ width < 0,
                !.prec = prec,
                !.prec_opt = IF p /\ prec < 0 THEN "none" ELSE @]

StarCount(fs) == (IF fs.width_opt = "star" THEN 1 ELSE 0)
                 + (IF fs.prec_opt = "star" THEN 1 ELSE 0)

\* Explicitly no digits for a zero.
PrintsNothing(fs, val) == val = 0 /\ fs.prec_opt # "none" /\ fs.prec = 0

\* cbuf, sign_c, need_0x and the precision, which octal may change.
ConvertSigned(fs, arg) ==
  LET val == Signed(arg, fs.bits)
      uval == Unsigned(IF val < 0 THEN 0 - Unsigned(val, LongBits) ELSE val, LongBits)
  IN [cbuf |-> IF PrintsNothing(fs, val) THEN <<>> ELSE npf_utoa_rev(uval, 10, Lower),
      sign |-> IF val < 0 THEN "-" ELSE fs.prepend,
      need_0x |-> Nul, prec |-> fs.prec, val |-> val]

ConvertUnsigned(fs, arg) ==
  LET val == Unsigned(arg, fs.bits)
      base == CASE fs.conv \in {"b", "B"} -> 2
                [] fs.conv = "o" -> 8
                [] fs.conv \in {"x", "X"} -> 16
                [] OTHER -> 10
      digits == IF PrintsNothing(fs, val) THEN <<>>
                ELSE npf_utoa_rev(val, base, IF fs.conv = "X" THEN Upper ELSE Lower)
      octal == fs.conv = "o" /\ fs.alt
  IN [cbuf |-> IF octal /\ val # 0 THEN <<"0">> \o digits ELSE digits,
      sign |-> Nul,
      need_0x |-> IF val # 0 /\ fs.alt /\ fs.conv \in {"x", "X", "b", "B"}
                  THEN fs.conv ELSE Nul,
      prec |-> IF octal /\ PrintsNothing(fs, val) THEN 1 ELSE fs.prec,
      val |-> val]

Plain(s, fs) == [cbuf |-> s, sign |-> Nul, need_0x |-> Nul, prec |-> fs.prec, val |-> 1]

Convert(fs, arg) ==
  CASE fs.conv = "%" -> Plain(<<"%">>, fs)
    [] fs.conv = "c" -> Plain(<<arg>>, fs)
    [] fs.conv = "s" ->
         Plain(IF fs.prec_opt = "none" \/ Len(arg) <= fs.prec THEN arg
               ELSE SubSeq(arg, 1, fs.prec), fs)
    [] fs.conv = "d" -> ConvertSigned(fs, arg)
    [] fs.conv = "p" ->
         [Plain(npf_utoa_rev(Unsigned(arg, LongBits), 16, Lower), fs)
            EXCEPT !.need_0x = "x"]
    [] OTHER -> ConvertUnsigned(fs, arg)

-----------------------------------------------------------------------------
(* Padding and output.                                                     *)

Times(c, n) == [i \in 1..(IF n > 0 THEN n ELSE 0) |-> c]
One(c) == IF c = Nul THEN <<>> ELSE <<c>>
Prefix(v) == IF v.need_0x = Nul THEN <<>> ELSE <<"0", v.need_0x>>

\* pad_c: no padding at all without a width, or for '0' with c and %.
PadChar(fs, v) ==
  IF fs.width_opt = "none" THEN Nul
  ELSE IF ~fs.zero THEN " "
  ELSE IF fs.conv \in {"s", "c", "%"} THEN Nul
  ELSE IF fs.prec_opt # "none" /\ v.prec = 0 /\ v.val = 0 THEN " "
  ELSE "0"

PrecPad(fs, v) ==
  IF fs.conv = "s" \/ v.prec < Len(v.cbuf) THEN 0 ELSE v.prec - Len(v.cbuf)

FieldPad(fs, v) ==
  fs.width - Len(v.cbuf) - Len(One(v.sign)) - Len(Prefix(v)) - PrecPad(fs, v)

\* With leading zeros sign and prefix come first, otherwise after the padding.
\* A prefix comes before the sign, which no conversion with a prefix has.
Field(fs, v) ==
  LET pad_c == PadChar(fs, v)
      pad == IF pad_c = Nul THEN <<>> ELSE Times(pad_c, FieldPad(fs, v))
      zeros == Times("0", PrecPad(fs, v))
  IN IF ~fs.left /\ pad_c = "0"
     THEN One(v.sign) \o Prefix(v) \o pad \o zeros \o v.cbuf
     ELSE (IF fs.left THEN <<>> ELSE pad) \o Prefix(v) \o One(v.sign) \o zeros
            \o v.cbuf \o (IF fs.left THEN pad ELSE <<>>)

\* npf_bufputc: a character past the end of the buffer is dropped.
npf_bufputc(ctx, c) ==
  IF ctx.cur < Len(ctx.buf)
  THEN [buf |-> [ctx.buf EXCEPT ![ctx.cur + 1] = c], cur |-> ctx.cur + 1]
  ELSE ctx

Put(s) ==
  /\ text' = text \o s
  /\ dst' = FoldLeft(npf_bufputc, dst, s)
  /\ UNCHANGED call

-----------------------------------------------------------------------------
(* The loop of npf_vpprintf, and the end of npf_vsnprintf.                 *)

FsLen == IF Head(fmt) # "%" THEN 0 ELSE npf_parse_format_spec(fmt).len

\* A character that starts no specification, or one that is not understood.
Literal ==
  /\ fmt \notin {NoFormat, <<>>} /\ FsLen = 0
  /\ Put(<<Head(fmt)>>)
  /\ fmt' = Tail(fmt)
  /\ UNCHANGED args

Conversion ==
  /\ fmt \notin {NoFormat, <<>>} /\ FsLen > 0
  /\ LET spec == npf_parse_format_spec(fmt)
         fs == StarArguments(spec, args)
         rest == SubSeq(args, StarCount(spec) + 1, Len(args))
         v == Convert(fs, IF rest = <<>> THEN Nul ELSE Head(rest))
     IN /\ Put(Field(fs, v))
        /\ args' = IF fs.conv = "%" THEN rest ELSE Tail(rest)
  /\ fmt' = SubSeq(fmt, FsLen + 1, Len(fmt))

\* A plausible slip: the last byte of the buffer is left as it is.
TerminateOnce == dst' = npf_bufputc(dst, Nul)

\* The terminator through putc, and once more in the last byte of the buffer.
Terminate ==
  dst' = LET ctx == npf_bufputc(dst, Nul)
         IN [ctx EXCEPT !.buf = [@ EXCEPT ![Len(@)] = Nul]]

Finish ==
  /\ fmt = <<>>
  /\ Terminate
  /\ fmt' = NoFormat
  /\ UNCHANGED <<args, text, call>>

\* A format is one specification between brackets, with the arguments it asks
\* for. A precision has no meaning for c, p and %; with a star the argument
\* would not be taken, and such formats are left out.
ArgsFor(conv) ==
  CASE conv = "c" -> CharArgs
    [] conv = "s" -> StrArgs
    [] OTHER -> IntArgs

Stars(w, p) == Len(SelectSeq(w \o p, LAMBDA c : c = "*"))

PrintfInit ==
  /\ \E fl \in Flags, w \in Widths, p \in Precs, m \in Mods, c \in Convs :
       /\ c \in {"%", "c", "p"} => ~Contains(p, "*")
       /\ fmt = <<"[", "%">> \o fl \o w \o p \o m \o <<c, "]">>
       /\ \E arg \in ArgsFor(c), stars \in [1..Stars(w, p) -> StarArgs],
             n \in BufSizes :
            /\ args = stars \o (IF c = "%" THEN <<>> ELSE <<arg>>)
            /\ dst = [buf |-> [i \in 1..n |-> Garbage], cur |-> 0]
            /\ call = [fmt |-> Tail(fmt), args |-> args]
  /\ text = <<>>

PrintfNext == Literal \/ Conversion \/ Finish

-----------------------------------------------------------------------------
(* Properties.                                                             *)

\* npf_vsnprintf never writes past the buffer it is given: when it returns, the
\* buffer holds as much of the full text as fits, terminated inside the buffer,
\* whatever the size. What it returns is the length of the full text, which is
\* what printk adds up and compares with the size of a message.
Truncates ==
  fmt = NoFormat =>
    LET n == Len(dst.buf)
        k == IF Len(text) < n THEN Len(text) ELSE n - 1
    IN /\ SubSeq(dst.buf, 1, k) = SubSeq(text, 1, k)
       /\ dst.buf[k + 1] = Nul
       /\ \A i \in (k + 2)..(n - 1) : dst.buf[i] = Garbage

Spec0 == npf_parse_format_spec(call.fmt)
Fs0 == StarArguments(Spec0, call.args)
IntConvs == {"d", "o", "u", "x", "X", "b", "B", "p"}
BaseOf == [c \in IntConvs |-> CASE c \in {"d", "u"} -> 10 [] c = "o" -> 8
                                [] c \in {"b", "B"} -> 2 [] OTHER -> 16]

\* The text between the brackets without padding, sign and prefix.
Body == LET s == SelectSeq(SubSeq(text, 2, Len(text) - 1),
                           LAMBDA c : c \notin {" ", "+", "-", "x", "X"})
        IN IF BaseOf[Fs0.conv] = 2
           THEN IF Len(s) > 1 /\ s[2] \in {"b", "B"} THEN SubSeq(s, 3, Len(s))
                ELSE SelectSeq(s, LAMBDA c : c \in {"0", "1"})
           ELSE s

ValueOf(s, base) == FoldLeft(LAMBDA a, c : a * base + DigitOf(c), 0, s)

\* What is printed for an integer reads back, in the base of the conversion, as
\* the argument cut to the width of its length modifier, with a minus sign
\* exactly when it is negative, in a field at least as wide as asked for. This
\* holds for every combination of flags, width, precision and length, but for
\* a zero flag with a negative star width, where zeros are appended.
ReadsBack ==
  (fmt = NoFormat /\ Spec0.len > 0 /\ Fs0.conv \in IntConvs /\ ~(Fs0.zero /\ Fs0.left)) =>
    LET arg == Last(call.args)
        want == IF Fs0.conv = "d" THEN Signed(arg, Fs0.bits)
                ELSE arg % 2 ^ (IF Fs0.conv = "p" THEN LongBits ELSE Fs0.bits)
        read == ValueOf(Body, BaseOf[Fs0.conv])
    IN /\ want = IF "-" \in ToSet(text) THEN -read ELSE read
       /\ Len(text) - 2 >= Fs0.width
       /\ Len(Convert(Fs0, arg).cbuf) <= ConvBufSize \/ BaseOf[Fs0.conv] = 2
=============================================================================
