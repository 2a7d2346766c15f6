-------------------------------- MODULE Codec --------------------------------
(***************************************************************************)
(* What the codec keeps of a record: Serializer.cpp over the text forms of *)
(* domain/Types.h and the millisecond timestamps of core/TimeUtil.h.       *)
(*                                                                         *)
(* A document is the function json::parse gives back: from the keys        *)
(* present to their values, an integer (int64_t), a string or null; or     *)
(* NoDocument, for text that does not parse as an object.  Ids are         *)
(* uint64_t, so casts wrap at HalfRange.                                   *)
(***************************************************************************)
EXTENDS BankDomain

CONSTANTS
    HalfRange,   \* stands for 2^63
    PerMs,       \* clock ticks in a millisecond
    NoDocument,
    Nothing      \* std::nullopt, for a decoded record

ASSUME CodecAssumption ==
    /\ HalfRange \in Nat \ {0} /\ PerMs \in Nat \ {0}
    /\ MaxAccountId = 2 * HalfRange - 1
    /\ MaxCents = HalfRange - 1

\* static_cast<int64_t> of a uint64_t, and back.
to_i64(n) == IF n < HalfRange THEN n ELSE n - 2 * HalfRange
to_u64(i) == IF i >= 0 THEN i ELSE i + 2 * HalfRange

to_unix_ms(t) == t \div PerMs
from_unix_ms(ms) == ms * PerMs

-----------------------------------------------------------------------------
(* The text forms; `Unknown' texts are those no from_string accepts.       *)

StatusText == [Active |-> "active", Frozen |-> "frozen", Closed |-> "closed"]

TypeText == [Deposit |-> "deposit", Withdraw |-> "withdraw",
             Transfer |-> "transfer"]

StateText ==
    [Pending |-> "pending", Validated |-> "validated",
     WalWritten |-> "wal_written", Applied |-> "applied",
     Committed |-> "committed", Failed |-> "failed",
     RolledBack |-> "rolled_back"]

Known(text, s) == \E v \in DOMAIN text : text[v] = s
FromText(text, s) == CHOOSE v \in DOMAIN text : text[v] = s

-----------------------------------------------------------------------------
(* JSON values.                                                            *)

Number(i) == [tag |-> "int", int |-> i]
Str(s) == [tag |-> "str", str |-> s]
Null == [tag |-> "null"]

\* The document json::parse gives back of the text json::dump wrote: none when
\* it holds the least int64_t, which only dump knows (module Json).
Stored(doc) == IF \E k \in DOMAIN doc : doc[k] = Number(-HalfRange)
               THEN NoDocument ELSE doc

IsInt(doc, k) == k \in DOMAIN doc /\ doc[k].tag = "int"
IsStr(doc, k) == k \in DOMAIN doc /\ doc[k].tag = "str"
IsCount(doc, k) == IsInt(doc, k) /\ doc[k].int >= 0

\* opt_id_of: null is "no account", a missing key is an error.
IsLeg(doc, k) ==
    k \in DOMAIN doc /\ (doc[k].tag = "null" \/ IsCount(doc, k))
Leg(v) == IF v.tag = "null" THEN NoAccount ELSE v.int

-----------------------------------------------------------------------------
(* Transactions, timestamped here.                                         *)

\* Mutant of leg_to_json: "no account" is written as account 0.
leg_to_json_zero(a) == IF a = NoAccount THEN Number(0) ELSE Number(to_i64(a))

leg_to_json(a) == IF a = NoAccount THEN Null ELSE Number(to_i64(a))

transaction_to_json(r) ==
    [id |-> Number(to_i64(r.id)), ts |-> Number(to_unix_ms(r.timestamp)),
     type |-> Str(TypeText[r.type]), state |-> Str(StateText[r.state]),
     from |-> leg_to_json(r.from), to |-> leg_to_json(r.to),
     amount |-> Number(r.amount)]

\* Mutant of TransactionReadable: a negative amount is let through.
TransactionReadable_negative(doc) ==
    /\ doc # NoDocument
    /\ IsInt(doc, "id") /\ IsInt(doc, "ts") /\ IsInt(doc, "amount")
    /\ IsLeg(doc, "from") /\ IsLeg(doc, "to")
    /\ IsStr(doc, "type") /\ Known(TypeText, doc.type.str)
    /\ IsStr(doc, "state") /\ Known(StateText, doc.state.str)

\* The id and the timestamp may be negative.
TransactionReadable(doc) ==
    /\ doc # NoDocument
    /\ IsInt(doc, "id") /\ IsInt(doc, "ts") /\ IsCount(doc, "amount")
    /\ IsLeg(doc, "from") /\ IsLeg(doc, "to")
    /\ IsStr(doc, "type") /\ Known(TypeText, doc.type.str)
    /\ IsStr(doc, "state") /\ Known(StateText, doc.state.str)

transaction_from_json(doc) ==
    IF ~TransactionReadable(doc) THEN Nothing
    ELSE [id |-> to_u64(doc.id.int), timestamp |-> from_unix_ms(doc.ts.int),
          type |-> FromText(TypeText, doc.type.str),
          state |-> FromText(StateText, doc.state.str),
          from |-> Leg(doc.from), to |-> Leg(doc.to), amount |-> doc.amount.int]

-----------------------------------------------------------------------------
(* Accounts, with id and owner here.                                       *)

account_to_json(acct) ==
    [id |-> Number(to_i64(acct.id)), owner |-> Number(to_i64(acct.owner)),
     balance |-> Number(acct.balance), status |-> Str(StatusText[acct.status]),
     version |-> Number(to_i64(acct.version))]

\* Mutant of AccountReadable: negative integers are let through.
AccountReadable_negative(doc) ==
    /\ doc # NoDocument
    /\ \A k \in {"id", "owner", "balance", "version"} : IsInt(doc, k)
    /\ IsStr(doc, "status") /\ Known(StatusText, doc.status.str)

AccountReadable(doc) ==
    /\ doc # NoDocument
    /\ \A k \in {"id", "owner", "balance", "version"} : IsCount(doc, k)
    /\ IsStr(doc, "status") /\ Known(StatusText, doc.status.str)

account_from_json(doc) ==
    IF ~AccountReadable(doc) THEN Nothing
    ELSE [id |-> doc.id.int, owner |-> doc.owner.int,
          balance |-> doc.balance.int,
          status |-> FromText(StatusText, doc.status.str),
          version |-> doc.version.int]
=============================================================================
