----------------------------- MODULE JsonGrammar -----------------------------
(***************************************************************************)
(* The grammar of JSON texts, as far as the bank writes any (integers that *)
(* fit, strings, null, arrays, objects), stated by splitting a text        *)
(* instead of reading it: what the parser is checked against.              *)
(***************************************************************************)
EXTENDS Json

CONSTANTS
    Unspelled,     \* the bytes a string must escape, besides \ and quotes
    LeadingZeros   \* may a number begin with needless zeros?

RECURSIVE Trim(_)
Trim(t) ==
    IF t # <<>> /\ Head(t) \in Space THEN Trim(Tail(t))
    ELSE IF t # <<>> /\ Last(t) \in Space THEN Trim(Front(t)) ELSE t

\* What the bytes between two quotes spell, last unit first.
RECURSIVE Spelled(_)
Spelled(s) ==
    LET unit(n) == SubSeq(s, Len(s) - n + 1, Len(s))
        before(n) == Spelled(SubSeq(s, 1, Len(s) - n))
    IN  IF s = <<>> THEN {<<>>}
        ELSE (IF Last(s) \in {B.quote, B.backslash} \cup Unspelled THEN {}
              ELSE {Append(p, Last(s)) : p \in before(1)})
             \cup UNION {{p \o e.out : p \in before(n),
                            e \in {e \in Escape(unit(n)) : e.length = n}} :
                         n \in {m \in {2, 6} : m <= Len(s)
                                               /\ unit(m)[1] = B.backslash}}

Enclosed(t, open, close) ==
    Len(t) >= 2 /\ Head(t) = open /\ Last(t) = close

Inner(t) == SubSeq(t, 2, Len(t) - 1)

Strings(t) ==
    IF Enclosed(t, B.quote, B.quote) THEN Spelled(Inner(t)) ELSE {}

RECURSIVE Amount(_)
Amount(ds) == IF ds = <<>> THEN 0 ELSE 10 * Amount(Front(ds)) + Last(ds) - 48

Numerals(t) ==
    LET ds == IF Starts(t, B.minus) THEN Tail(t) ELSE t
    IN  IF /\ ds # <<>> /\ ToSet(ds) \subseteq Digit /\ Amount(ds) <= MaxInt
           /\ LeadingZeros \/ Len(ds) = 1 \/ Head(ds) # B.zero
        THEN {IF Starts(t, B.minus) THEN -Amount(ds) ELSE Amount(ds)}
        ELSE {}

RECURSIVE Meanings(_)
RECURSIVE Lists(_)
RECURSIVE Maps(_, _)

\* One or more values between commas.
Lists(t) ==
    {<<v>> : v \in Meanings(t)}
    \cup UNION {{Append(l, v) : l \in Lists(SubSeq(t, 1, i - 1)),
                                v \in Meanings(After(t, i))} :
                i \in {j \in DOMAIN t : t[j] = B.comma}}

\* One or more members between commas, added to those before them.
Maps(t, members) ==
    UNION {{set(members, k, v) : k \in Strings(Trim(SubSeq(t, 1, i - 1))),
                                 v \in Meanings(After(t, i))} :
           i \in {j \in DOMAIN t : t[j] = B.colon}}
    \cup UNION {UNION {Maps(After(t, i), m) : m \in Maps(SubSeq(t, 1, i - 1), members)} :
                i \in {j \in DOMAIN t : t[j] = B.comma}}

Meanings(text) ==
    LET t == Trim(text)
    IN  IF t = NullText THEN {Null}
        ELSE {Integer(i) : i \in Numerals(t)}
             \cup {String(s) : s \in Strings(t)}
             \cup (IF Enclosed(t, B.lbracket, B.rbracket)
                   THEN IF Trim(Inner(t)) = <<>> THEN {Array(<<>>)}
                        ELSE {Array(l) : l \in Lists(Inner(t))}
                   ELSE {})
             \cup (IF Enclosed(t, B.lbrace, B.rbrace)
                   THEN IF Trim(Inner(t)) = <<>> THEN {Object(<<>>)}
                        ELSE {Object(m) : m \in Maps(Inner(t), <<>>)}
                   ELSE {})
=============================================================================
