-------------------------------- MODULE Json ---------------------------------
(***************************************************************************)
(* json::dump and json::parse: the text of journal payloads and snapshots. *)
(* A text is a sequence of bytes.  A value is tagged; an object keeps its  *)
(* members in insertion order.  Every parse_X gives the set of its         *)
(* outcomes: empty for std::nullopt, else the value with the text after    *)
(* it.  The operators are RECURSIVE, as the parser is: only TLC uses them. *)
(***************************************************************************)
EXTENDS Integers, Sequences, FiniteSets, SequencesExt

CONSTANT MaxInt   \* stands for std::numeric_limits<int64_t>::max()

Null == [tag |-> "null"]
Integer(i) == [tag |-> "int", int |-> i]
String(s) == [tag |-> "str", str |-> s]
Array(items) == [tag |-> "arr", items |-> items]
Object(members) == [tag |-> "obj", members |-> members]

\* Value::set: a key keeps its place and has the last value given to it.
set(members, k, v) ==
    IF \E i \in DOMAIN members : members[i].key = k
    THEN [i \in DOMAIN members |->
            IF members[i].key = k THEN [key |-> k, value |-> v] ELSE members[i]]
    ELSE Append(members, [key |-> k, value |-> v])

-----------------------------------------------------------------------------
(* Bytes.  B gives the delimiters their codes.                             *)

B == [quote |-> 34, comma |-> 44, minus |-> 45, zero |-> 48, colon |-> 58,
      lbracket |-> 91, backslash |-> 92, rbracket |-> 93, n |-> 110, u |-> 117,
      lbrace |-> 123, rbrace |-> 125]

NullText == <<110, 117, 108, 108>>

Space == {9, 10, 13, 32}

Digit == 48..57

\* The letter after the backslash, and the byte it stands for.  The parser
\* takes a slash (47) too.
Escapes ==
    {<<34, 34>>, <<92, 92>>, <<98, 8>>, <<102, 12>>, <<110, 10>>, <<114, 13>>,
     <<116, 9>>}

HexDigit == Digit \cup (97..102) \cup (65..70)

hex_value(c) == IF c \in Digit THEN c - 48 ELSE IF c > 96 THEN c - 87 ELSE c - 55

\* append_utf8, of what four hexadecimal digits can say.
utf8(cp) ==
    IF cp <= 127 THEN <<cp>>
    ELSE IF cp <= 2047 THEN <<192 + (cp \div 64), 128 + (cp % 64)>>
    ELSE <<224 + (cp \div 4096), 128 + ((cp \div 64) % 64), 128 + (cp % 64)>>

-----------------------------------------------------------------------------
(* dump.                                                                   *)

\* "\u00XY" of a control character.
HexEscape(c) ==
    LET hex(d) == IF d < 10 THEN 48 + d ELSE 87 + d
    IN  <<B.backslash, B.u, 48, 48, hex(c \div 16), hex(c % 16)>>

EscapedByte(c) ==
    IF \E e \in Escapes : e[2] = c
    THEN <<B.backslash, (CHOOSE e \in Escapes : e[2] = c)[1]>>
    ELSE IF c < 32 THEN HexEscape(c) ELSE <<c>>

\* Mutant of append_escaped: only quotes are escaped.
append_escaped_quotes_only(s) ==
    <<B.quote>>
    \o FlattenSeq([i \in DOMAIN s |-> IF s[i] = B.quote THEN EscapedByte(s[i])
                                      ELSE <<s[i]>>])
    \o <<B.quote>>

append_escaped(s) ==
    <<B.quote>> \o FlattenSeq([i \in DOMAIN s |-> EscapedByte(s[i])]) \o <<B.quote>>

Joined(parts) ==
    FlattenSeq([i \in DOMAIN parts |->
                  IF i = 1 THEN parts[i] ELSE <<B.comma>> \o parts[i]])

RECURSIVE Decimal(_)
Decimal(n) ==
    IF n < 10 THEN <<48 + n>> ELSE Append(Decimal(n \div 10), 48 + (n % 10))

RECURSIVE dump(_)
dump(v) ==
    CASE v.tag = "null" -> NullText
      [] v.tag = "int"  -> IF v.int < 0 THEN <<B.minus>> \o Decimal(-v.int)
                           ELSE Decimal(v.int)
      [] v.tag = "str"  -> append_escaped(v.str)
      [] v.tag = "arr"  ->
           <<B.lbracket>> \o Joined([i \in DOMAIN v.items |-> dump(v.items[i])])
           \o <<B.rbracket>>
      [] v.tag = "obj"  ->
           <<B.lbrace>>
           \o Joined([i \in DOMAIN v.members |->
                        append_escaped(v.members[i].key) \o <<B.colon>>
                        \o dump(v.members[i].value)])
           \o <<B.rbrace>>

-----------------------------------------------------------------------------
(* parse.                                                                  *)

Starts(t, c) == t # <<>> /\ Head(t) = c

After(t, n) == SubSeq(t, n + 1, Len(t))

RECURSIVE skip_whitespace(_)
skip_whitespace(t) ==
    IF t # <<>> /\ Head(t) \in Space THEN skip_whitespace(Tail(t)) ELSE t

Parsed(v, rest) == {[value |-> v, rest |-> rest]}

parse_keyword(t) == IF IsPrefix(NullText, t) THEN Parsed(Null, After(t, 4)) ELSE {}

Overflows(n, digit) == n > (MaxInt - digit) \div 10

\* The digits of parse_integer, after n.
RECURSIVE parse_digits(_, _)
parse_digits(t, n) ==
    IF t = <<>> \/ Head(t) \notin Digit THEN Parsed(n, t)
    ELSE IF Overflows(n, Head(t) - 48) THEN {}
    ELSE parse_digits(Tail(t), 10 * n + Head(t) - 48)

parse_integer(t) ==
    LET digits == IF Starts(t, B.minus) THEN Tail(t) ELSE t
    IN  IF digits = <<>> \/ Head(digits) \notin Digit THEN {}
        ELSE {[value |-> Integer(IF Starts(t, B.minus) THEN -r.value ELSE r.value),
               rest |-> r.rest] : r \in parse_digits(digits, 0)}

CodePoint(h) ==
    ((hex_value(h[1]) * 16 + hex_value(h[2])) * 16 + hex_value(h[3])) * 16
    + hex_value(h[4])

\* The text begins with backslash, u and four hexadecimal digits; surrogates
\* are refused.
IsUnicode(t) ==
    /\ Len(t) >= 6 /\ t[2] = B.u
    /\ \A i \in 3..6 : t[i] \in HexDigit
    /\ CodePoint(SubSeq(t, 3, 6)) \notin 55296..57343

\* What the escape a text begins with stands for, and its length.
Escape(t) ==
    IF IsUnicode(t) THEN {[out |-> utf8(CodePoint(SubSeq(t, 3, 6))), length |-> 6]}
    ELSE {[out |-> <<e[2]>>, length |-> 2] :
            e \in {e \in Escapes \cup {<<47, 47>>} : Len(t) >= 2 /\ t[2] = e[1]}}

\* parse_string past the opening quote.
RECURSIVE parse_string(_, _)
parse_string(t, out) ==
    IF t = <<>> THEN {}
    ELSE IF Head(t) = B.quote THEN Parsed(String(out), Tail(t))
    ELSE IF Head(t) # B.backslash THEN parse_string(Tail(t), Append(out, Head(t)))
    ELSE UNION {parse_string(After(t, e.length), out \o e.out) : e \in Escape(t)}

RECURSIVE parse_value(_)
RECURSIVE parse_items(_, _)
RECURSIVE parse_members(_, _)

\* The loop of parse_array.
parse_items(t, items) ==
    UNION {LET more == Append(items, r.value)
               next == skip_whitespace(r.rest)
           IN  IF Starts(next, B.comma) THEN parse_items(Tail(next), more)
               ELSE IF Starts(next, B.rbracket) THEN Parsed(Array(more), Tail(next))
               ELSE {}
           : r \in parse_value(skip_whitespace(t))}

\* A key and its colon.
parse_key(t) ==
    {[value |-> k.value.str, rest |-> Tail(skip_whitespace(k.rest))] :
        k \in {k \in (IF Starts(t, B.quote) THEN parse_string(Tail(t), <<>>) ELSE {}) :
                 Starts(skip_whitespace(k.rest), B.colon)}}

\* The loop of parse_object.
parse_members(t, members) ==
    UNION {UNION {LET more == set(members, k.value, r.value)
                      next == skip_whitespace(r.rest)
                  IN  IF Starts(next, B.comma) THEN parse_members(Tail(next), more)
                      ELSE IF Starts(next, B.rbrace)
                      THEN Parsed(Object(more), Tail(next))
                      ELSE {}
                  : r \in parse_value(skip_whitespace(k.rest))}
           : k \in parse_key(skip_whitespace(t))}

parse_value(t) ==
    LET inside == IF t = <<>> THEN t ELSE skip_whitespace(Tail(t))
    IN  CASE t = <<>> -> {}
          [] Starts(t, B.lbrace) ->
               IF Starts(inside, B.rbrace) THEN Parsed(Object(<<>>), Tail(inside))
               ELSE parse_members(inside, <<>>)
          [] Starts(t, B.lbracket) ->
               IF Starts(inside, B.rbracket) THEN Parsed(Array(<<>>), Tail(inside))
               ELSE parse_items(inside, <<>>)
          [] Starts(t, B.quote) -> parse_string(Tail(t), <<>>)
          [] Starts(t, B.n) -> parse_keyword(t)
          [] OTHER -> parse_integer(t)

\* Mutant of parse: what follows the value is ignored.
parse_leading(t) == {r.value : r \in parse_value(skip_whitespace(t))}

\* Nothing but whitespace may follow the value.
parse(t) ==
    {r.value : r \in {r \in parse_value(skip_whitespace(t)) :
                        skip_whitespace(r.rest) = <<>>}}
=============================================================================
