------------------------------ MODULE CommandLine ------------------------------
(***************************************************************************)
(* How C/CSAPPLab/shell/tsh.c gets from the text that is typed to what its *)
(* main loop, see Tsh, does: main() cuts the text into lines, parseline()  *)
(* a line into words, eval() and builtin_cmd() decide what a line asks     *)
(* for, and do_bgfg() which job is meant.  A text is a sequence of         *)
(* characters.                                                             *)
(*                                                                         *)
(* parseline() puts a blank in the place of the last character of a line,  *)
(* which is a newline only if the line fits into the buffer.  A quote ends *)
(* a word only if the word began with one, and the last word is lost if    *)
(* its quote is not closed.                                                *)
(***************************************************************************)
EXTENDS Integers, Sequences, SequencesExt, TLC

CONSTANT MAXLINE        \* 1024 in the program

Newline == "nl"
Blank == " "
Quote == "'"
Digits == "0" :> 0 @@ "1" :> 1 @@ "2" :> 2
Builtins == [quit |-> <<"q">>, jobs |-> <<"j">>, fg |-> <<"f">>, bg |-> <<"b">>]

\* The place of the first c, or 0: strchr().
Place(c, s) == IF Contains(s, c) THEN SelectInSeq(s, LAMBDA x : x = c) ELSE 0
Up(s, n) == SubSeq(s, 1, n)
Behind(s, n) == SubSeq(s, n + 1, Len(s))

-------------------------------------------------------------------------------
(* Lines *)

fgets(text) ==
  LET end == IF Contains(text, Newline) THEN Place(Newline, text) ELSE Len(text)
  IN Up(text, IF end < MAXLINE THEN end ELSE MAXLINE - 1)

\* fgets() has met the end of the input: the line is not evaluated.
feof(line) == Len(line) < MAXLINE - 1 /\ ~Contains(line, Newline)

\* The lines that main() hands to eval().
RECURSIVE Lines(_)
Lines(text) ==
  LET line == fgets(text)
  IN IF feof(line) THEN <<>> ELSE <<line>> \o Lines(Behind(text, Len(line)))

-------------------------------------------------------------------------------
(* Words *)

RECURSIVE SkipBlanks(_)
SkipBlanks(s) == IF s # <<>> /\ s[1] = Blank THEN SkipBlanks(Tail(s)) ELSE s

RECURSIVE Words(_)
Words(s) ==
  LET rest == SkipBlanks(s)
      quoted == rest # <<>> /\ rest[1] = Quote
      buf == IF quoted THEN Tail(rest) ELSE rest
      delim == Place(IF quoted THEN Quote ELSE Blank, buf)
  IN IF delim = 0 THEN <<>> ELSE <<Up(buf, delim - 1)>> \o Words(Behind(buf, delim))

InBackground(argv) == argv = <<>> \/ (Last(argv) # <<>> /\ Last(argv)[1] = "&")

parseline(line) ==
  LET argv == Words(Append(Front(line), Blank))
  IN [bg |-> InBackground(argv), argv |-> IF InBackground(argv) /\ argv # <<>> THEN Front(argv) ELSE argv]

-------------------------------------------------------------------------------
(* Commands *)

RECURSIVE ValueOf(_)
ValueOf(s) ==
  IF s = <<>> THEN 0 ELSE 10 * ValueOf(Front(s)) + Digits[Last(s)]

RECURSIVE LeadingDigits(_)
LeadingDigits(s) ==
  IF s = <<>> \/ s[1] \notin DOMAIN Digits THEN <<>> ELSE <<s[1]>> \o LeadingDigits(Tail(s))

\* Of the library: blanks, a sign, digits; 0 if there is no digit.
atoi(word) ==
  LET s == SkipBlanks(word)
      signed == s # <<>> /\ s[1] \in {"-", "+"}
      n == ValueOf(LeadingDigits(IF signed THEN Tail(s) ELSE s))
  IN IF signed /\ s[1] = "-" THEN -n ELSE n

\* The jobs that do_bgfg() finds, of a set of [pid, jid]: getjobjid() and
\* getjobpid() find none below 1.
do_bgfg(argv, jobs) ==
  IF Len(argv) < 2 THEN {}
  ELSE IF argv[2] # <<>> /\ argv[2][1] = "%"
  THEN {j \in jobs : j.jid = atoi(Tail(argv[2])) /\ j.jid >= 1}
  ELSE {j \in jobs : j.pid = atoi(argv[2]) /\ j.pid >= 1}

\* What eval() does for a line: what it runs or which job it continues.
eval(line, jobs) ==
  LET cmd == parseline(line)
      name == Head(cmd.argv)
  IN CASE cmd.argv = <<>> -> [does |-> "nothing"]
       [] cmd.argv # <<>> /\ name \in {Builtins.quit, Builtins.jobs} -> [does |-> name]
       [] cmd.argv # <<>> /\ name \in {Builtins.fg, Builtins.bg} ->
            [does |-> name, jobs |-> do_bgfg(cmd.argv, jobs)]
       [] OTHER -> [does |-> "run", argv |-> cmd.argv, bg |-> cmd.bg]

-------------------------------------------------------------------------------
(* Properties *)

\* The lines are the text in order; only a last line without a newline is not
\* evaluated, and only a line of MAXLINE - 1 characters or more is cut.
LinesAreTheText(text) ==
  LET lines == Lines(text)
      all == FlattenSeq(lines)
  IN /\ IsPrefix(all, text)
     /\ ~Contains(Behind(text, Len(all)), Newline)
     /\ \A i \in DOMAIN lines : Last(lines[i]) # Newline => Len(lines[i]) = MAXLINE - 1

\* The words of a line are its characters in order; none is lost when there is
\* no quote, but the last of a line that was cut.
Others(s) == SelectSeq(s, LAMBDA c : c \notin {Blank, Quote})
WordsAreTheLine(line) ==
  LET found == Others(FlattenSeq(Words(Append(Front(line), Blank))))
  IN /\ IsPrefix(found, Others(Front(line)))
     /\ ~Contains(line, Quote) => found = Others(Front(line))

\* A list of words, each quoted if it must be, is read as it was written; the
\* last one is taken for the wish for a job in the background if it starts with
\* "&", quoted or not.
Quoted(word) == <<Quote>> \o word \o <<Quote>>
Written(word, always) ==
  IF always \/ word = <<>> \/ Contains(word, Blank) THEN Quoted(word) ELSE word
Spelled(words, always, gap) ==
  FlattenSeq([i \in DOMAIN words |-> gap \o Written(words[i], always)]) \o gap \o <<Newline>>
ReadAsWritten(words) ==
  \A always \in BOOLEAN, gap \in {<<Blank>>, <<Blank, Blank>>} :
    LET cmd == parseline(Spelled(words, always, gap))
        wish == Last(words) # <<>> /\ Last(words)[1] = "&"
    IN /\ cmd.bg <=> wish
       /\ cmd.argv = IF wish THEN Front(words) ELSE words

\* "%" and a number name the job with this id, a number alone the one with this
\* process id; what is no number names no job, and an empty slot is none.
JobIsNamed(jobs) ==
  \A name \in {Builtins.fg, Builtins.bg}, d \in DOMAIN Digits :
    LET Asks(word) == eval(Spelled(<<name, word>>, FALSE, <<Blank>>), jobs).jobs
    IN /\ Asks(<<"%", d>>) = {j \in jobs : j.jid = Digits[d] /\ j.pid # 0}
       /\ Asks(<<d>>) = {j \in jobs : j.pid = Digits[d] /\ j.pid # 0}
       /\ Asks(<<"-", d>>) = {} /\ Asks(<<"%", "-", d>>) = {}
       /\ Asks(<<"a", d>>) = {} /\ Asks(<<"%", "a">>) = {} /\ Asks(<<>>) = {}
       /\ eval(<<name[1], Newline>>, jobs).jobs = {}
===============================================================================
