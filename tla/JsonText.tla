------------------------------- MODULE JsonText -------------------------------
(***************************************************************************)
(* Next to the stores of Storage, the text of a journal payload or of a    *)
(* snapshot, byte by byte: what dump of Json.cpp wrote, perhaps edited,    *)
(* for parse to read.  A behaviour looks at a text when store = "text".    *)
(***************************************************************************)
EXTENDS Storage

CONSTANTS
    MaxInt,     \* stands for std::numeric_limits<int64_t>::max()
    Values,     \* the JSON values a file may be given
    Bytes,      \* the bytes an edit may put into a text
    MaxEdits    \* bound: edits of a text, of short ones beyond the first

J == INSTANCE Json

\* The grammar, and what it would be if strings held any byte unescaped and
\* numbers began with zeros.
Grammar == INSTANCE JsonGrammar WITH Unspelled <- 0..31, LeadingZeros <- FALSE
Widened == INSTANCE JsonGrammar WITH Unspelled <- {}, LeadingZeros <- TRUE

ASSUME TextBounds ==
    MaxEdits \in Nat /\ MaxInt \in Nat /\ MaxInt >= 9

VARIABLES
    value,     \* the value written
    text,      \* the stored text
    edits      \* how often it was edited

textVars == <<value, text, edits>>

InitText ==
    /\ Init
    /\ edits = 0
    /\ \/ store = "text" /\ value \in Values /\ text = J!dump(value)
       \/ store # "text" /\ value = Nothing /\ text = <<>>

\* A byte lost, added or changed, or the rest of the file lost.
Edit ==
    /\ store = "text"
    /\ edits = 0 \/ (edits < MaxEdits /\ Len(text) <= 3)
    /\ edits' = edits + 1
    /\ \E i \in 1..(Len(text) + 1) :
          LET before == SubSeq(text, 1, i - 1)
              after  == SubSeq(text, i + 1, Len(text))
          IN  \/ text' = before
              \/ text' = before \o after
              \/ \E c \in Bytes :
                    \/ text' = before \o <<c>> \o after
                    \/ text' = before \o <<c>> \o SubSeq(text, i, Len(text))
    /\ UNCHANGED <<value, vars>>

NextText == Edit \/ (Next /\ UNCHANGED textVars)

SpecText == InitText /\ [][NextText]_<<vars, textVars>>

-----------------------------------------------------------------------------
(* Properties.                                                             *)

\* What json::dump wrote is read back as it was, and of a document cut short,
\* as a dying process leaves it, nothing is read: an interrupted line or
\* snapshot never passes for a shorter one.  One integer is the exception:
\* the least int64_t is written and refused when read.
DocumentReadsWhole ==
    store = "text" /\ edits = 0 =>
        /\ J!parse(text) = IF value = J!Integer(-MaxInt - 1) THEN {} ELSE {value}
        /\ value.tag \in {"arr", "obj", "str"} =>
              \A n \in 0..(Len(text) - 1) : J!parse(SubSeq(text, 1, n)) = {}

HoldsControl(t) == \E i \in DOMAIN t : t[i] < 32

HoldsLeadingZero(t) ==
    \E i \in 2..Len(t) : t[i - 1] = J!B.zero /\ t[i] \in J!Digit

\* After any edit the parser reads every text of the grammar as what it says and
\* refuses every other ("Returns nullopt on any malformed input"), but for two
\* it lets through: a control byte within a string, which "must appear as \u
\* escapes", stands for itself, and needless zeros before a number do not count.
ParsesTheGrammar ==
    store = "text" =>
        /\ Grammar!Meanings(text) \subseteq J!parse(text)
        /\ J!parse(text) = Widened!Meanings(text)
        /\ \/ J!parse(text) = Grammar!Meanings(text)
           \/ HoldsControl(text) \/ HoldsLeadingZero(text)
=============================================================================
