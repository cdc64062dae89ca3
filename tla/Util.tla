-------------------------------- MODULE Util --------------------------------
(***************************************************************************)
(* The string helpers of src/util.cc, and those of src/control.cc that are *)
(* built from them.  A string is a sequence of characters, and a character *)
(* a string of length one.  Positions count from 1.                        *)
(***************************************************************************)
EXTENDS Integers, Sequences, SequencesExt

CONSTANT Character   \* what a text is made of, and what the code itself writes

Digit == {"0", "1", "2", "3", "4", "5", "6", "7", "8", "9"}

ASSUME CharacterAssumption ==
    Digit \cup {".", "/", ":", "$", "_", " ", "+", "-", "t", "i", "m", "e"} \subseteq Character

String == Seq(Character)

DigitValue ==
    [c \in Digit |->
        CHOOSE n \in 0..9 : c = <<"0", "1", "2", "3", "4", "5", "6", "7", "8", "9">>[n + 1]]

\* The positions of t in s.
Occurrences(s, t) ==
    {i \in 1..(Len(s) - Len(t) + 1) : SubSeq(s, i, i + Len(t) - 1) = t}

\* std::string::find, with 0 for npos.
find(s, t) ==
    IF Occurrences(s, t) = {} THEN 0
    ELSE CHOOSE i \in Occurrences(s, t) : \A j \in Occurrences(s, t) : i <= j

\* The rest of s from position i on.
From(s, i) == SubSeq(s, i, Len(s))

-----------------------------------------------------------------------------

\* The loop over the delimiters, character by character: the tokens so far, and
\* where the current one begins.
Add(tokens, t) == IF t = <<>> THEN tokens ELSE Append(tokens, t)

Cut(line, delimiter, acc, i) ==
    IF line[i] \in delimiter
    THEN [tokens |-> Add(acc.tokens, SubSeq(line, acc.prev, i - 1)), prev |-> i + 1]
    ELSE acc

Scan(line, delimiter) ==
    LET scan[i \in 0..Len(line)] ==
            IF i = 0 THEN [tokens |-> <<>>, prev |-> 1]
            ELSE Cut(line, delimiter, scan[i - 1], i)
    IN scan

get_tokens(line, delimiter) ==
    LET all == Scan(line, delimiter)[Len(line)]
    IN Add(all.tokens, From(line, all.prev))

\* The first n tokens, with sep between them.
Joined(tokens, sep) ==
    LET joined[n \in 0..Len(tokens)] ==
            IF n = 0 THEN <<>>
            ELSE IF n = 1 THEN tokens[1] ELSE joined[n - 1] \o sep \o tokens[n]
    IN joined

join(tokens, sep) == Joined(tokens, sep)[Len(tokens)]

is_digits(str) == \A i \in DOMAIN str : str[i] \in Digit

\* The number that digits spell.
Number(str) == FoldLeft(LAMBDA n, c : 10 * n + DigitValue[c], 0, str)

\* std::stoul of digits throws: an unsigned long is twice as wide as a uint32_t,
\* whose values are 0 to modulus - 1.
stoul_throws(str, modulus) == Number(str) >= modulus * modulus

\* Otherwise it is put into a uint32_t.
stoul(str, modulus) == Number(str) % modulus

\* The characters among chars that a text begins with.
Leading(str, chars) ==
    LET n == CHOOSE k \in 0..Len(str) :
                /\ \A i \in 1..k : str[i] \in chars
                /\ k < Len(str) => str[k + 1] \notin chars
    IN SubSeq(str, 1, n)

\* std::stoi passes over blanks, then reads a sign, if any, and digits.
Unblanked(str) == From(str, Len(Leading(str, {" "})) + 1)

HasSign(str) == str # <<>> /\ str[1] \in {"+", "-"}

Unsigned(str) ==
    Leading(IF HasSign(Unblanked(str)) THEN Tail(Unblanked(str)) ELSE Unblanked(str), Digit)

stoi(str) ==
    IF HasSign(Unblanked(str)) /\ Unblanked(str)[1] = "-"
    THEN -Number(Unsigned(str)) ELSE Number(Unsigned(str))

\* It throws when there is no number, or none that an int holds.
stoi_throws(str, modulus) ==
    \/ Unsigned(str) = <<>>
    \/ stoi(str) < -(modulus \div 2)
    \/ stoi(str) >= modulus \div 2

-----------------------------------------------------------------------------
(* get_fn_ln: "file:line" or "file:line:column".                           *)

NoLocation == [filename |-> <<>>, line_num |-> -1]

\* An exception instead of an answer.
Thrown == [filename |-> <<>>, line_num |-> -2]

\* A line that is 0xFFFFFFFF, or no file, is no location.
Location(filename, line_num, modulus) ==
    IF filename = <<>> \/ line_num = modulus - 1 THEN NoLocation
    ELSE [filename |-> filename, line_num |-> line_num]

\* The same for a line in digits.
AtLine(filename, line_num_str, modulus) ==
    IF stoul_throws(line_num_str, modulus) THEN Thrown
    ELSE Location(filename, stoul(line_num_str, modulus), modulus)

\* Mutant: the column is taken for the line.
GetFnLnLast(path, modulus) ==
    LET tokens == get_tokens(path, {":"})
        n == Len(tokens)
    IN IF n >= 2 /\ is_digits(tokens[n])
       THEN AtLine(tokens[1], tokens[n], modulus)
       ELSE NoLocation

get_fn_ln(path, modulus) ==
    LET tokens == get_tokens(path, {":"})
        n == Len(tokens)
    IN CASE n = 2 /\ is_digits(tokens[2]) -> AtLine(tokens[1], tokens[2], modulus)
         [] n > 2 /\ is_digits(tokens[n - 1]) /\ is_digits(tokens[n]) ->
              AtLine(join(SubSeq(tokens, 1, n - 2), <<":">>), tokens[n - 1], modulus)
         [] OTHER -> NoLocation

\* A name that its parts between colons make up again.
WellParted(filename) ==
    /\ filename # <<>>
    /\ \A i \in DOMAIN filename :
          filename[i] = ":" => i > 1 /\ i < Len(filename) /\ filename[i - 1] # ":"

-----------------------------------------------------------------------------
(* Names of signals.                                                       *)

\* The top name is put in front unless it occurs somewhere.
get_handle_name(top, handle_name) ==
    IF top # <<>> /\ find(handle_name, top) = 0
    THEN top \o (IF Last(top) = "." THEN <<>> ELSE <<".">>) \o handle_name
    ELSE handle_name

\* a[0][1] becomes a.0.1.
process_var_front_name(name) ==
    LET kept == SelectSeq(name, LAMBDA c : c # "]")
    IN [i \in DOMAIN kept |-> IF kept[i] = "[" THEN "." ELSE kept[i]]

\* The character tested in front is the symbol's first, a word character, so
\* only a symbol at the very beginning passes.
is_expr_symbol(expr, symbol, word) ==
    LET pos == find(expr, symbol)
        after == pos + Len(symbol)
    IN /\ pos # 0
       /\ pos > 1 => expr[pos] \notin word
       /\ after <= Len(expr) => expr[after] \notin word

-----------------------------------------------------------------------------
(* Path translation.                                                       *)

\* Mutant: no care for the slash.
ReplacePlain(str, from, to) ==
    LET pos == find(str, from)
    IN IF pos = 0 THEN str
       ELSE SubSeq(str, 1, pos - 1) \o to \o From(str, pos + Len(from))

\* The first occurrence of from becomes to, with one slash where to ends.
replace(str, from, to) ==
    LET pos == find(str, from)
        rest == From(str, pos + Len(from))
        to_path ==
            CASE Last(to) = "/" /\ rest # <<>> /\ rest[1] = "/" -> Front(to)
              [] Last(to) # "/" /\ Last(from) = "/" -> Append(to, "/")
              [] OTHER -> to
    IN IF pos = 0 THEN str ELSE SubSeq(str, 1, pos - 1) \o to_path \o rest

\* A folder's name with one slash at its end.
Slashed(path) == IF Last(path) = "/" THEN path ELSE Append(path, "/")
=============================================================================
