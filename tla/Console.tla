------------------------------ MODULE Console ------------------------------
(***************************************************************************)
(* How the two kernels talk to their user: lib.c, and the keyboard of      *)
(* MemOS, in parts that share nothing:                                     *)
(*  - what one conversion of a format prints: printer_vprintf of           *)
(*    MemOS/lib.c and console_vprintf of MiniprocOS/lib.c.  The state is   *)
(*    one conversion with its argument; a number keeps its digits and the  *)
(*    text of a %s its length; %c and a letter that is no conversion,      *)
(*    which prints itself, are a %s of length 1; digits are numbers, so    *)
(*    that %X differs from %x in its prefix only;                          *)
(*  - the console, a ring of cells with a cursor;                          *)
(*  - the buffer of vsnprintf;                                             *)
(*  - the functions on memory and strings: memory is a function from       *)
(*    addresses to bytes, and a string ends before the first 0;            *)
(*  - the keyboard: keys are pressed and released, their scan codes wait in*)
(*    the controller, and keyboard_readc() of k-hardware.c makes characters*)
(*    of them, with modifiers and an escape it keeps between calls.        *)
(* For the console and the buffer, what a format prints is a sequence of   *)
(* characters.                                                             *)
(***************************************************************************)
EXTENDS Integers, Sequences, FiniteSets, SequencesExt

CONSTANTS IntBits,      \* the width of an int, 32 in the code
          LongBits,     \* the width of an unsigned long, 64 in the code
          Widths,       \* the widths, -1 when there is none
          Precisions,   \* the precisions, -1 when there is none
          TextLengths,
          Rows, Columns,        \* CONSOLE_ROWS, CONSOLE_COLUMNS
          Chars, Blank, Newline,
          MaxText,              \* bound: the characters of one call
          BufferSize,           \* the array vsnprintf is given a part of
          MaxCodes,     \* bound: no key moves while so many codes wait
          MaxHeld       \* bound: the keys that are down at a time

VARIABLES item,         \* [conv, flags, width, precision, arg]
          console,      \* the cells
          cursorpos,    \* what the last call returned
          lately,       \* history: the characters on the cells up to the cursor
          buffer,       \* the array of vsnprintf: characters, Nul or Untouched
          returned      \* what vsnprintf returned

VARIABLES held,         \* the keys that are down
          capslock,     \* history: CapsLock has been pressed an odd number of times
          half,         \* history: the kinds of which one of two keys that were
                        \* down has been released since the last press
          codes,        \* what waits: an escape, or a code with what it is to give
          modifiers, last_escape,
          ch, meant     \* the last character read, and what it was to be

screenVars == <<console, cursorpos, lately>>
bufferVars == <<buffer, returned>>
keysVars == <<held, capslock, half, codes, modifiers, last_escape, ch, meant>>

-----------------------------------------------------------------------------
(* A conversion *)

IntMin == -(2 ^ (IntBits - 1))
Ints == IntMin .. -(IntMin + 1)
Unsigned == 0 .. 2 ^ IntBits - 1

FLAG_ALT == "#"
FLAG_ZERO == "0"
FLAG_LEFTJUSTIFY == "-"
FLAG_SPACEPOSITIVE == " "
FLAG_PLUSPOSITIVE == "+"
Flags == {FLAG_ALT, FLAG_ZERO, FLAG_LEFTJUSTIFY, FLAG_SPACEPOSITIVE, FLAG_PLUSPOSITIVE}

Items ==
  UNION {[conv : c[1], flags : SUBSET Flags, width : Widths, precision : Precisions, arg : c[2]] :
         c \in {<<{"d"}, Ints>>, <<{"u", "x", "X", "p"}, Unsigned>>, <<{"s"}, TextLengths>>}}

FieldInit == item \in Items

isNumeric(i) == i.conv # "s"
base(i) == IF i.conv \in {"x", "X", "p"} THEN 16 ELSE 10
Positive(n) == IF n > 0 THEN n ELSE 0
AtMost(n, m) == IF n < m THEN n ELSE m

-----------------------------------------------------------------------------
\* The digits of a number: one at least.
RECURSIVE fill_numbuf(_, _)
fill_numbuf(val, b) ==
  IF val < b THEN <<val>> ELSE Append(fill_numbuf(val \div b, b), val % b)

\* A printed field: blanks, a prefix, zeros, digits or text, blanks.
Field(i, prefix, zeros, body, len) ==
  LET rest == Positive(i.width - (len + zeros + Len(prefix)))
      left == FLAG_LEFTJUSTIFY \in i.flags
  IN [left |-> IF left THEN 0 ELSE rest, prefix |-> prefix, zeros |-> zeros,
      body |-> body, len |-> len, right |-> IF left THEN rest ELSE 0]

-----------------------------------------------------------------------------
(* MemOS *)

\* The number printed: -x is an int, so that of the least int it is the same
\* int again, made a long with its sign.
num(i) == IF i.conv = "d" /\ i.arg = IntMin THEN 2 ^ LongBits + IntMin
          ELSE IF i.arg < 0 THEN -i.arg ELSE i.arg

prefix(i) ==
  CASE i.conv = "d" /\ i.arg < 0 -> <<"-">>
    [] i.conv = "d" /\ i.arg >= 0 /\ FLAG_PLUSPOSITIVE \in i.flags -> <<"+">>
    [] i.conv = "d" /\ i.arg >= 0 /\ FLAG_PLUSPOSITIVE \notin i.flags
         /\ FLAG_SPACEPOSITIVE \in i.flags -> <<" ">>
    [] i.conv = "x" /\ FLAG_ALT \in i.flags /\ num(i) # 0 -> <<"0", "x">>
    [] i.conv = "X" /\ FLAG_ALT \in i.flags /\ num(i) # 0 -> <<"0", "X">>
    [] i.conv = "p" -> <<"0", "x">>
    [] OTHER -> <<>>

zeros(i, len, pre) ==
  IF isNumeric(i) /\ i.precision >= 0 THEN Positive(i.precision - len)
  ELSE IF isNumeric(i) /\ FLAG_ZERO \in i.flags /\ FLAG_LEFTJUSTIFY \notin i.flags
  THEN Positive(i.width - len - pre)
  ELSE 0

printer_vprintf(i) ==
  LET data == IF isNumeric(i) THEN fill_numbuf(num(i), base(i)) ELSE <<>>
      len == IF isNumeric(i) THEN Len(data)
             ELSE IF i.precision >= 0 THEN AtMost(i.arg, i.precision) ELSE i.arg
  IN Field(i, prefix(i), zeros(i, len, Len(prefix(i))), data, len)

-----------------------------------------------------------------------------
(* MiniprocOS: a precision also cuts a number, the flags for positive *)
(* numbers hold for every conversion, and FLAG_ALT has no effect.     *)

\* There is no %p: the letter is printed, and its argument is not taken.
known(i) == isNumeric(i) /\ i.conv # "p"
textLength(i) == IF i.conv = "p" THEN 1 ELSE i.arg

magnitude(i) == IF i.arg < 0 THEN -i.arg ELSE i.arg

negative(i) ==
  CASE i.conv = "d" /\ i.arg < 0 -> <<"-">>
    [] ~(i.conv = "d" /\ i.arg < 0) /\ FLAG_PLUSPOSITIVE \in i.flags -> <<"+">>
    [] ~(i.conv = "d" /\ i.arg < 0) /\ FLAG_PLUSPOSITIVE \notin i.flags
         /\ FLAG_SPACEPOSITIVE \in i.flags -> <<" ">>
    [] OTHER -> <<>>

miniproc_vprintf(i) ==
  LET data == IF ~known(i) \/ (i.precision = 0 /\ i.arg = 0) THEN <<>>
              ELSE fill_numbuf(magnitude(i), base(i))
      whole == IF known(i) THEN Len(data) ELSE textLength(i)
      len == IF i.precision >= 0 THEN AtMost(whole, i.precision) ELSE whole
      pre == negative(i)
      fill == IF known(i) /\ i.precision > len THEN i.precision - len
              ELSE IF known(i) /\ FLAG_ZERO \in i.flags /\ FLAG_LEFTJUSTIFY \notin i.flags
                      /\ i.precision < 0
              THEN Positive(i.width - len - Len(pre))
              ELSE 0
  IN Field(i, pre, fill, SubSeq(data, 1, AtMost(len, Len(data))), len)

-----------------------------------------------------------------------------
(* Properties *)

Places(f) == f.left + Len(f.prefix) + f.zeros + f.len + f.right

RECURSIVE ValueOf(_, _)
ValueOf(digits, b) ==
  IF digits = <<>> THEN 0
  ELSE b * ValueOf(SubSeq(digits, 1, Len(digits) - 1), b) + digits[Len(digits)]

ReadBack(i, f) == (IF f.prefix = <<"-">> THEN -1 ELSE 1) * ValueOf(f.body, base(i))

\* Both printers use the whole width and no more than they must: what is wider
\* than the width has neither blanks nor zeros of the width.
FieldIsFilled ==
  \A f \in {printer_vprintf(item), miniproc_vprintf(item)} :
     LET least == Len(f.prefix) + f.len IN
     /\ Places(f) >= item.width
     /\ Places(f) > item.width =>
          f.left + f.right = 0 /\ (f.zeros > 0 => f.zeros + f.len = item.precision)
     /\ least >= item.width /\ item.precision < 0 => Places(f) = least

\* A number reads back as the argument, whatever the flags, except for the least
\* int in MemOS and a number longer than its precision in MiniprocOS, which
\* loses its last digits.  (Of a %p MiniprocOS prints no number but the letter.)
NumbersReadBack ==
  isNumeric(item) =>
     /\ ReadBack(item, printer_vprintf(item)) = item.arg
          <=> ~(item.conv = "d" /\ item.arg = IntMin)
     /\ item.conv # "p" =>
        ReadBack(item, miniproc_vprintf(item)) = item.arg
          <=> \/ item.precision < 0 \/ item.arg = 0
              \/ item.precision >= Len(fill_numbuf(magnitude(item), base(item)))

\* The two kernels print the same for what both know: no sign asked of what has
\* none, no FLAG_ALT, no precision that is shorter than the number.
PrintersAgree ==
  LET plain == item.flags \cap {FLAG_ALT, FLAG_PLUSPOSITIVE, FLAG_SPACEPOSITIVE} = {} IN
  /\ item.conv # "p" /\ (plain \/ (item.conv = "d" /\ FLAG_ALT \notin item.flags))
  /\ ~(item.conv = "d" /\ item.arg = IntMin)
  /\ \/ item.precision < 0 \/ ~isNumeric(item)
     \/ item.precision >= Len(fill_numbuf(magnitude(item), base(item)))
  => printer_vprintf(item) = miniproc_vprintf(item)

-----------------------------------------------------------------------------
(* The console and the buffer *)

Cells == Rows * Columns
Texts == UNION {[1..n -> Chars \cup {Newline}] : n \in 0..MaxText}
Nul == "nul"
Untouched == "untouched"

Cleared == [i \in 0..Cells - 1 |-> Blank]

ScreenInit == /\ console = Cleared /\ cursorpos = 0 /\ lately = <<>>

BufferInit == buffer = [i \in 1..BufferSize |-> Untouched] /\ returned = 0

Wrapped(at) == IF at >= Cells THEN 0 ELSE at

\* One character: a newline fills the line with blanks, which is a whole line
\* when the cursor is at the start of one.
console_putc(screen, c) ==
  LET at == Wrapped(screen.at)
      to == at + Columns - (at % Columns)
  IN IF c = Newline
     THEN [at |-> to, on |-> [i \in DOMAIN screen.on |->
                                IF i \in at..to - 1 THEN Blank ELSE screen.on[i]]]
     ELSE [at |-> at + 1, on |-> [screen.on EXCEPT ![at] = c]]

\* The characters a call puts on the cells, one by one.
Spread(text, at) ==
  FoldLeft(LAMBDA s, c : IF c # Newline THEN Append(s, c)
                         ELSE s \o [i \in 1..Columns - ((at + Len(s)) % Columns) |-> Blank],
           <<>>, text)

\* A call at any position: one that is not on the console is its start.
console_vprintf(cpos, text) ==
  LET start == IF cpos \in 0..Cells - 1 THEN cpos ELSE 0
      end == FoldLeft(console_putc, [at |-> start, on |-> console], text)
      put == IF start = cursorpos % Cells THEN lately \o Spread(text, start)
             ELSE Spread(text, start)
  IN /\ console' = end.on /\ cursorpos' = end.at
     /\ lately' = SubSeq(put, IF Len(put) > Cells THEN Len(put) - Cells + 1 ELSE 1, Len(put))

console_clear == console' = Cleared /\ cursorpos' = 0 /\ lately' = <<>>

\* The characters that fit before the Nul.
Stored(text, size) == SubSeq(text, 1, IF Len(text) < size THEN Len(text) ELSE size - 1)

\* With a size of 0 nothing is printed; otherwise the rest of the text is lost.
vsnprintf(size, text) ==
  IF size = 0
  THEN UNCHANGED buffer /\ returned' = 0
  ELSE LET kept == Stored(text, size) IN
       /\ buffer' = [i \in DOMAIN buffer |->
                        IF i <= Len(kept) THEN kept[i]
                        ELSE IF i = Len(kept) + 1 THEN Nul ELSE buffer[i]]
       /\ returned' = Len(kept)

(* The console and a buffer have nothing to do with each other. *)
ScreenNext == \/ \E text \in Texts, cpos \in {-1, 1, cursorpos, Cells} : console_vprintf(cpos, text)
              \/ console_clear
BufferNext == \E size \in 0..BufferSize, text \in Texts : vsnprintf(size, text)

-----------------------------------------------------------------------------
(* Properties *)

\* Reading back from the cursor, around the end of the console, are the
\* characters printed last, the blanks of each newline among them; and a cursor
\* that is returned can be given to the next call.
LatelyIsBehindCursor ==
  /\ cursorpos \in 0..Cells
  /\ \A i \in 1..Len(lately) :
        console[(cursorpos - i + Cells) % Cells] = lately[Len(lately) - i + 1]

\* vsnprintf writes within the size it is given, ends what it writes and returns
\* the length of that, not of the text as the standard function does.
BufferIsEnded ==
  [][\A size \in 0..BufferSize, text \in Texts :
        vsnprintf(size, text) =>
          /\ \A i \in size + 1..BufferSize : buffer'[i] = buffer[i]
          /\ size > 0 => /\ returned' < size /\ buffer'[returned' + 1] = Nul
                         /\ SubSeq(buffer', 1, returned') = SubSeq(text, 1, returned')
                         /\ Len(text) < size => returned' = Len(text)]_bufferVars

-----------------------------------------------------------------------------
(* Memory and strings *)

\* The bytes from src are stored at dst, one after the other, in this order.
Copied(mem, dst, src, order) ==
  FoldLeft(LAMBDA m, i : [m EXCEPT ![dst + i] = m[src + i]], mem, order)
Upwards(n) == [i \in 1..n |-> i - 1]
Downwards(n) == [i \in 1..n |-> n - i]

memcpy(mem, dst, src, n) == Copied(mem, dst, src, Upwards(n))
memmove(mem, dst, src, n) ==
  Copied(mem, dst, src, IF src < dst /\ src + n > dst THEN Downwards(n) ELSE Upwards(n))
memset(mem, v, c, n) == [a \in DOMAIN mem |-> IF a \in v..v + n - 1 THEN c % 256 ELSE mem[a]]

strnlen(mem, s, maxlen) ==
  CHOOSE n \in 0..maxlen : /\ n = maxlen \/ mem[s + n] = 0
                           /\ \A i \in 0..n - 1 : mem[s + i] # 0
strlen(mem, s) == strnlen(mem, s, CHOOSE n \in 0..Cardinality(DOMAIN mem) : mem[s + n] = 0)
strcpy(mem, dst, src) == memcpy(mem, dst, src, strlen(mem, src) + 1)

\* At the first place where a string ends or the two differ.
strcmp(mem, a, b) ==
  LET n == CHOOSE n \in 0..strlen(mem, a) :
             /\ mem[a + n] = 0 \/ mem[a + n] # mem[b + n]
             /\ \A i \in 0..n - 1 : mem[a + i] # 0 /\ mem[a + i] = mem[b + i]
  IN IF mem[a + n] > mem[b + n] THEN 1 ELSE IF mem[a + n] < mem[b + n] THEN -1 ELSE 0

\* An address, or Null; looking for 0 finds the end.
Null == -1
strchr(mem, s, c) ==
  LET found == {i \in 0..strlen(mem, s) : mem[s + i] = c % 256}
  IN IF found = {} THEN Null ELSE s + (CHOOSE i \in found : \A j \in found : i <= j)

-----------------------------------------------------------------------------
(* Properties *)

\* memmove gives the bytes that were there before, memcpy only if it does not run
\* into what it still has to read; neither writes anything else.
Few == 0..4
CopiesAreExact ==
  LET mem == [a \in Few |-> 10 + a]
      Moved(dst, src, n) == [a \in Few |-> IF a \in dst..dst + n - 1 THEN mem[src + a - dst] ELSE mem[a]]
  IN \A dst, src \in Few : \A n \in 0..(5 - (IF dst < src THEN src ELSE dst)) :
       /\ memmove(mem, dst, src, n) = Moved(dst, src, n)
       /\ memcpy(mem, dst, src, n) = Moved(dst, src, n) <=> ~(src < dst /\ dst < src + n)

\* strcmp orders strings as dictionaries do, bytes of 128 and more last; strchr
\* finds the first; a string that is copied is the same, and so is the one it was
\* copied from unless it was written over.
StringAt(mem, s) == [i \in 1..strlen(mem, s) |-> mem[s + i - 1]]
Earlier(s, t) ==
  \/ Len(s) < Len(t) /\ s = SubSeq(t, 1, Len(s))
  \/ \E i \in DOMAIN s \cap DOMAIN t : s[i] < t[i] /\ SubSeq(s, 1, i - 1) = SubSeq(t, 1, i - 1)
StringsAreOrdered ==
  \A bytes \in [Few -> {0, 1, 200}] :
    LET mem == [a \in 0..5 |-> IF a = 5 THEN 0 ELSE bytes[a]] IN
    /\ \A a, b \in 0..5 :
         LET s == StringAt(mem, a)
             t == StringAt(mem, b)
         IN /\ strcmp(mem, a, b) = (IF Earlier(s, t) THEN -1 ELSE IF s = t THEN 0 ELSE 1)
            /\ b + Len(s) <= 5 /\ b \notin a + 1..a + Len(s) =>
                 /\ StringAt(strcpy(mem, b, a), b) = s
                 /\ a \notin b + 1..b + Len(s) => StringAt(strcpy(mem, b, a), a) = s
    /\ \A a \in 0..5, c \in {1, 200, 256} :
         strchr(mem, a, c) =
           IF c = 256 THEN a + strlen(mem, a)
           ELSE IF Contains(StringAt(mem, a), c) THEN a + SelectInSeq(StringAt(mem, a), LAMBDA x : x = c) - 1
           ELSE Null

-----------------------------------------------------------------------------
(* A key is its code and whether an escape goes before it. *)
Key(code, escaped) == [code |-> code, escaped |-> escaped]
Keys == {Key(c, FALSE) : c \in {"shiftL", "shiftR", "ctrl", "caps", "letter", "digit", "num8"}}
        \cup {Key("ctrl", TRUE), Key("num8", TRUE)}

keymap(k) ==
  CASE k.code \in {"shiftL", "shiftR"} /\ ~k.escaped -> "SHIFT"
    [] k.code = "ctrl" -> "CONTROL"
    [] k.code = "caps" /\ ~k.escaped -> "CAPSLOCK"
    [] k.code = "num8" /\ k.escaped -> "UP"
    [] k.code \in {"letter", "digit", "num8"} /\ ~k.escaped -> k.code
    [] OTHER -> "none"

\* The character of a key under modifiers: the column of complex_keymap for the
\* digit is picked by Shift and Control.
Shown(what, mods) ==
  LET shift == "SHIFT" \in mods
      ctrl == "CONTROL" \in mods
  IN CASE what = "letter" /\ ctrl -> "^a"
       [] what = "letter" /\ ~ctrl -> IF shift # ("CAPSLOCK" \in mods) THEN "A" ELSE "a"
       [] what = "digit" -> IF ctrl THEN "none" ELSE IF shift THEN "!" ELSE "1"
       [] what = "num8" -> IF ctrl THEN "none" ELSE "8"
       [] what = "UP" -> "UP"
       [] OTHER -> "none"

KeysInit ==
  /\ held = {} /\ capslock = FALSE /\ half = {} /\ codes = <<>>
  /\ modifiers = {} /\ last_escape = FALSE /\ ch = "none" /\ meant = "none"

-----------------------------------------------------------------------------
(* The keyboard: the user *)

Kinds(keys) == {keymap(k) : k \in keys} \cap {"SHIFT", "CONTROL"}
Wire(k, up, wish) ==
  (IF k.escaped THEN <<[code |-> "E0", up |-> FALSE, wish |-> "none"]>> ELSE <<>>)
    \o <<[code |-> k.code, up |-> up, wish |-> wish]>>

\* What a key is to give depends on the keys that are down with it.
Press(k) ==
  /\ k \notin held /\ Cardinality(held) < MaxHeld /\ Len(codes) < MaxCodes
  /\ held' = held \cup {k} /\ half' = half \ {keymap(k)}
  /\ capslock' = (capslock # (keymap(k) = "CAPSLOCK"))
  /\ codes' = codes \o Wire(k, FALSE,
       IF half # {} THEN "any"
       ELSE Shown(keymap(k), Kinds(held) \cup (IF capslock THEN {"CAPSLOCK"} ELSE {})))
  /\ UNCHANGED <<modifiers, last_escape, ch, meant>>

Release(k) ==
  /\ k \in held /\ Len(codes) < MaxCodes
  /\ held' = held \ {k} /\ codes' = codes \o Wire(k, TRUE, "none")
  /\ half' = IF keymap(k) \in Kinds(held') THEN half \cup {keymap(k)} ELSE half \ {keymap(k)}
  /\ UNCHANGED <<capslock, modifiers, last_escape, ch, meant>>

-----------------------------------------------------------------------------
(* The keyboard: the kernel *)

AfterRelease(escape) == FALSE

\* With nothing ready the call returns at once and changes nothing.
keyboard_readc ==
  /\ codes # <<>> /\ codes' = Tail(codes)
  /\ LET data == Head(codes)
         what == keymap(Key(data.code, last_escape))
     IN \/ /\ data.code = "E0" /\ last_escape' = TRUE
           /\ ch' = "none" /\ UNCHANGED modifiers
        \/ /\ data.code # "E0" /\ data.up /\ last_escape' = AfterRelease(last_escape)
           /\ modifiers' = IF what \in {"SHIFT", "CONTROL"} THEN modifiers \ {what} ELSE modifiers
           /\ ch' = "none"
        \/ /\ data.code # "E0" /\ ~data.up /\ last_escape' = FALSE
           /\ modifiers' = CASE what = "CAPSLOCK" -> (modifiers \cup {what}) \ (modifiers \cap {what})
                             [] what \in {"SHIFT", "CONTROL"} -> modifiers \cup {what}
                             [] OTHER -> modifiers
           /\ ch' = Shown(what, modifiers)
  /\ meant' = Head(codes).wish
  /\ UNCHANGED <<held, capslock, half>>

KeysNext == keyboard_readc \/ \E k \in Keys : Press(k) \/ Release(k)

-----------------------------------------------------------------------------
(* The keyboard: properties *)

\* However late the kernel reads, a character is what the keys that were down
\* when its own was pressed make of it, and an escape never reaches another key
\* than its own.  Only after one of two Shift or Control keys that were down
\* together has been released may it be another: the kernel takes the kind for
\* released.
CharactersAreMeant == meant # "any" => ch = meant

\* When no code waits the modifiers are those of the keys that are down.
ModifiersFollow ==
  codes = <<>> /\ half = {} =>
    modifiers = Kinds(held) \cup (IF capslock THEN {"CAPSLOCK"} ELSE {})
=============================================================================
