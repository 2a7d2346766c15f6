---------------------------- MODULE StorageProofs ----------------------------
(***************************************************************************)
(* Theorems about Storage, for every domain of ids, accounts, customers,   *)
(* transactions and documents and every width of the integers: the codec   *)
(* gives back what it was given or nothing, and the two repository engines *)
(* answer alike.                                                           *)
(***************************************************************************)
EXTENDS Storage, FiniteSetTheorems, WellFoundedInduction, TLAPS

-----------------------------------------------------------------------------
(* Casts, milliseconds and text forms.                                     *)

LEMMA Casts ==
    ASSUME NEW n \in Id
    PROVE  /\ to_i64(n) \in (-HalfRange)..(HalfRange - 1)
           /\ to_i64(n) = -HalfRange <=> n = HalfRange
           /\ to_i64(n) >= 0 <=> n < HalfRange
           /\ n < HalfRange => to_i64(n) = n
           /\ to_u64(to_i64(n)) = n
BY CodecAssumption DEF Id, to_i64, to_u64

LEMMA CastsApart ==
    ASSUME NEW m \in Id, NEW n \in Id, to_i64(m) = to_i64(n)
    PROVE  m = n
BY Casts

LEMMA Milliseconds ==
    ASSUME NEW t \in Nat
    PROVE  to_unix_ms(t) \in Nat
BY CodecAssumption DEF to_unix_ms

\* Cutting a time to its millisecond.
LEMMA MillisecondsCut ==
    ASSUME NEW t \in Nat, NEW u \in Nat
    PROVE  /\ from_unix_ms(to_unix_ms(u)) \in Nat
           /\ t >= from_unix_ms(to_unix_ms(u)) <=> to_unix_ms(t) >= to_unix_ms(u)
<1> DEFINE m == to_unix_ms(t)
           n == to_unix_ms(u)
<1>1. /\ PerMs \in Nat /\ PerMs > 0 /\ m \in Nat /\ n \in Nat
      /\ m * PerMs <= t /\ t < m * PerMs + PerMs
  BY CodecAssumption DEF to_unix_ms
<1>2. n * PerMs \in Nat
  <2> HIDE DEF n
  <2> QED
    BY <1>1
<1>3. m >= n => m * PerMs >= n * PerMs
  <2> HIDE DEF m, n
  <2> QED
    BY <1>1
<1>4. m < n => m * PerMs + PerMs <= n * PerMs
  <2> HIDE DEF m, n
  <2> QED
    BY <1>1
<1> QED
  <2>1. n * PerMs = from_unix_ms(to_unix_ms(u))
    BY DEF from_unix_ms
  <2>2. m * PerMs \in Nat
    BY <1>1
  <2> HIDE DEF m, n
  <2>3. t >= n * PerMs <=> m >= n
    BY <1>1, <1>2, <1>3, <1>4, <2>2
  <2> QED
    BY <1>2, <2>1, <2>3 DEF m, n

LEMMA TextForms ==
    /\ \A v \in TransactionType :
          Known(TypeText, TypeText[v]) /\ FromText(TypeText, TypeText[v]) = v
    /\ \A v \in TransactionState :
          Known(StateText, StateText[v]) /\ FromText(StateText, StateText[v]) = v
    /\ \A v \in AccountStatus :
          Known(StatusText, StatusText[v]) /\ FromText(StatusText, StatusText[v]) = v
    /\ \A w : Known(TypeText, w) => TypeText[FromText(TypeText, w)] = w
    /\ \A w : Known(StateText, w) => StateText[FromText(StateText, w)] = w
    /\ \A w : Known(StatusText, w) => StatusText[FromText(StatusText, w)] = w
<1>1. \A v \in TransactionType :
          Known(TypeText, TypeText[v]) /\ FromText(TypeText, TypeText[v]) = v
  BY DEF TransactionType, TypeText, Known, FromText
<1>2. \A v \in TransactionState :
          Known(StateText, StateText[v]) /\ FromText(StateText, StateText[v]) = v
  BY DEF TransactionState, StateText, Known, FromText
<1>3. \A v \in AccountStatus :
          Known(StatusText, StatusText[v]) /\ FromText(StatusText, StatusText[v]) = v
  BY DEF AccountStatus, StatusText, Known, FromText
<1>4. \A text, w : Known(text, w) => text[FromText(text, w)] = w
  BY DEF Known, FromText
<1> QED
  BY <1>1, <1>2, <1>3, <1>4

-----------------------------------------------------------------------------
(* Documents.                                                              *)

LineKeys == {"id", "ts", "type", "state", "from", "to", "amount"}

EntryKeys == {"id", "owner", "balance", "status", "version"}

\* What Damage makes of a document.
Damaged(d, e) ==
    \/ e = NoDocument
    \/ /\ d # NoDocument
       /\ \E k \in DOMAIN d :
             \/ e = [j \in DOMAIN d \ {k} |-> d[j]]
             \/ \E v \in FieldValue : e = Stored([d EXCEPT ![k] = v])

\* A damaged document that lost no field says something else in one.
LEMMA DamagedField ==
    ASSUME NEW d, NEW e, Damaged(d, e), e # NoDocument, DOMAIN d \subseteq DOMAIN e
    PROVE  /\ d # NoDocument
           /\ \E k \in DOMAIN d, v \in FieldValue : e = [d EXCEPT ![k] = v]
<1>1. PICK k \in DOMAIN d :
          \/ e = [j \in DOMAIN d \ {k} |-> d[j]]
          \/ \E v \in FieldValue : e = Stored([d EXCEPT ![k] = v])
  BY DEF Damaged
<1>2. CASE e = [j \in DOMAIN d \ {k} |-> d[j]]
  BY <1>2
<1>3. CASE \E v \in FieldValue : e = Stored([d EXCEPT ![k] = v])
  BY <1>3 DEF Damaged, Stored
<1> QED
  BY <1>1, <1>2, <1>3 DEF Damaged

LEMMA LineFields ==
    ASSUME NEW r \in Records
    PROVE  LET d == transaction_to_json(r)
           IN  /\ DOMAIN d = LineKeys /\ d = [k \in DOMAIN d |-> d[k]]
               /\ d # NoDocument
               /\ d["id"] = Number(to_i64(r.id))
               /\ d["ts"] = Number(to_unix_ms(r.timestamp))
               /\ d["type"] = Str(TypeText[r.type])
               /\ d["state"] = Str(StateText[r.state])
               /\ d["from"] = leg_to_json(r.from) /\ d["to"] = leg_to_json(r.to)
               /\ d["amount"] = Number(r.amount)
BY RecordsAssumption DEF transaction_to_json, LineKeys

LEMMA ValueTags ==
    /\ \A i : Number(i).tag = "int" /\ Number(i).int = i
    /\ \A t : Str(t).tag = "str" /\ Str(t).str = t
    /\ Null.tag = "null"
BY DEF Number, Str, Null

\* A leg is read back when it fits an int64_t, and refused otherwise.
LEMMA Legs64 ==
    ASSUME NEW a \in AccountId \cup {NoAccount}
    PROVE  LET v == leg_to_json(a)
           IN  /\ v.tag = "null" <=> a = NoAccount
               /\ v = Number(-HalfRange) <=> a = HalfRange /\ a # NoAccount
               /\ (v.tag = "null" \/ (v.tag = "int" /\ v.int >= 0))
                     <=> (a # NoAccount => a < HalfRange)
               /\ (a # NoAccount => a < HalfRange) => Leg(v) = a
<1>1. CASE a = NoAccount
  <2>1. leg_to_json(a) = Null /\ Null.tag = "null"
    BY <1>1, ValueTags DEF leg_to_json
  <2>2. Null # Number(-HalfRange)
    BY <2>1, ValueTags
  <2> QED
    BY <1>1, <2>1, <2>2 DEF Leg
<1>2. CASE a # NoAccount
  <2>1. a \in Id
    BY <1>2, AccountIdAssumption DEF Id
  <2> QED
    BY <1>2, <2>1, Casts, CodecAssumption, ValueTags DEF leg_to_json, Leg
<1> QED
  BY <1>1, <1>2

\* The text of a line holds the least int64_t exactly when an id is 2^63.
LEMMA LineStored ==
    ASSUME NEW r \in Records
    PROVE  LET d == transaction_to_json(r)
           IN  Stored(d) = IF HalfRange \in {r.id} \cup Legs(r) THEN NoDocument ELSE d
<1> DEFINE d == transaction_to_json(r)
<1>1. /\ r.id \in Id /\ r.timestamp \in Nat /\ r.amount \in Money
      /\ r.from \in AccountId \cup {NoAccount} /\ r.to \in AccountId \cup {NoAccount}
  BY RecordsAssumption
<1>2. (\E k \in DOMAIN d : d[k] = Number(-HalfRange)) <=> HalfRange \in {r.id} \cup Legs(r)
  <2>1. d["id"] = Number(-HalfRange) <=> r.id = HalfRange
    BY <1>1, LineFields, Casts, ValueTags
  <2>2. d["from"] = Number(-HalfRange) <=> r.from = HalfRange /\ r.from # NoAccount
    BY <1>1, LineFields, Legs64
  <2>3. d["to"] = Number(-HalfRange) <=> r.to = HalfRange /\ r.to # NoAccount
    BY <1>1, LineFields, Legs64
  <2>4. d["ts"] # Number(-HalfRange) /\ d["amount"] # Number(-HalfRange)
    <3>1. to_unix_ms(r.timestamp) # -HalfRange /\ r.amount # -HalfRange
      BY <1>1, Milliseconds, CodecAssumption DEF Money
    <3> QED
      BY <3>1, LineFields, ValueTags
  <2>5. d["type"] # Number(-HalfRange) /\ d["state"] # Number(-HalfRange)
    BY LineFields, ValueTags
  <2> HIDE DEF d
  <2> QED
    BY <2>1, <2>2, <2>3, <2>4, <2>5, LineFields DEF LineKeys, Legs, d
<1> QED
  BY <1>2 DEF Stored

\* A value a line or an entry may hold: what its tag says it is.
Proper(v) ==
    /\ v.tag = "int" => v.int \in Int /\ v = Number(v.int)
    /\ v.tag = "str" => v = Str(v.str)
    /\ v.tag = "null" => v = Null

Int64 == (-HalfRange)..(HalfRange - 1)

LEMMA FieldValues ==
    ASSUME NEW v \in FieldValue
    PROVE  Proper(v) /\ (v.tag = "int" => v.int \in Int64)
<1>1. CASE v \in {Number(i) : i \in Int64}
  <2>1. PICK i \in Int64 : v = Number(i)
    BY <1>1
  <2>2. v.tag = "int" /\ v.int = i /\ i \in Int
    BY <2>1, ValueTags, CodecAssumption DEF Int64
  <2> QED
    BY <2>1, <2>2 DEF Proper
<1>2. CASE v \in {Str(w) : w \in Word \cup {"unknown"}}
  BY <1>2, ValueTags DEF Proper
<1>3. CASE v = Null
  BY <1>3, ValueTags DEF Proper
<1> QED
  BY <1>1, <1>2, <1>3 DEF FieldValue, Int64

LEMMA LegValues ==
    ASSUME NEW a \in AccountId \cup {NoAccount}
    PROVE  LET v == leg_to_json(a)
           IN  Proper(v) /\ (v.tag = "int" => v.int \in Int64)
<1>1. CASE a = NoAccount
  BY <1>1, ValueTags DEF leg_to_json, Proper
<1>2. CASE a # NoAccount
  <2>1. a \in Id
    BY <1>2, AccountIdAssumption DEF Id
  <2>2. to_i64(a) \in Int64 /\ to_i64(a) \in Int
    BY <2>1, Casts, CodecAssumption DEF Int64
  <2> QED
    BY <1>2, <2>2, ValueTags DEF leg_to_json, Proper
<1> QED
  BY <1>1, <1>2

\* A damaged line that still has a field for every key.
LineLike(e) ==
    /\ e = [k \in LineKeys |-> e[k]] /\ \A k \in LineKeys : Proper(e[k])
    /\ \A k \in LineKeys \ {"ts"} : e[k].tag = "int" => e[k].int \in Int64

LEMMA DamagedLine ==
    ASSUME NEW r \in Records, NEW e, TransactionReadable(e),
           Damaged(Stored(transaction_to_json(r)), e)
    PROVE  /\ LineLike(e)
           /\ \E k \in LineKeys :
                 \A j \in LineKeys \ {k} : e[j] = transaction_to_json(r)[j]
<1> DEFINE d == transaction_to_json(r)
<1>1. e # NoDocument /\ LineKeys \subseteq DOMAIN e
  BY DEF TransactionReadable, LineKeys, IsInt, IsCount, IsLeg, IsStr
<1>2. Stored(d) = d /\ DOMAIN d = LineKeys
  BY <1>1, LineFields DEF Stored, Damaged
<1>3. PICK k \in LineKeys, v \in FieldValue : e = [d EXCEPT ![k] = v]
  BY <1>1, <1>2, DamagedField
<1>4. /\ e = [j \in LineKeys |-> e[j]] /\ e[k] = v
      /\ \A j \in LineKeys \ {k} : e[j] = d[j]
  BY <1>2, <1>3
<1>5. \A j \in LineKeys :
         Proper(d[j]) /\ (j # "ts" /\ d[j].tag = "int" => d[j].int \in Int64)
  <2>1. /\ r.id \in Id /\ r.timestamp \in Nat /\ r.amount \in Money
        /\ r.from \in AccountId \cup {NoAccount} /\ r.to \in AccountId \cup {NoAccount}
    BY RecordsAssumption
  <2>2. /\ to_i64(r.id) \in Int64 /\ to_i64(r.id) \in Int
        /\ r.amount \in Int64 /\ r.amount \in Int /\ to_unix_ms(r.timestamp) \in Int
    BY <2>1, Casts, Milliseconds, CodecAssumption DEF Int64, Money
  <2>3. Proper(d["id"]) /\ (d["id"].tag = "int" => d["id"].int \in Int64)
    BY <2>2, LineFields, ValueTags DEF Proper
  <2>4. Proper(d["amount"]) /\ (d["amount"].tag = "int" => d["amount"].int \in Int64)
    BY <2>2, LineFields, ValueTags DEF Proper
  <2>5. Proper(d["ts"])
    BY <2>2, LineFields, ValueTags DEF Proper
  <2>6. /\ Proper(d["type"]) /\ d["type"].tag = "str"
        /\ Proper(d["state"]) /\ d["state"].tag = "str"
    BY LineFields, ValueTags DEF Proper
  <2>7. /\ Proper(d["from"]) /\ (d["from"].tag = "int" => d["from"].int \in Int64)
        /\ Proper(d["to"]) /\ (d["to"].tag = "int" => d["to"].int \in Int64)
    BY <2>1, LineFields, LegValues
  <2> HIDE DEF d
  <2> QED
    BY <2>3, <2>4, <2>5, <2>6, <2>7 DEF LineKeys
<1>6. Proper(v) /\ (v.tag = "int" => v.int \in Int64)
  BY FieldValues
<1> HIDE DEF d
<1>7. LineLike(e)
  BY <1>4, <1>5, <1>6 DEF LineLike
<1> QED
  BY <1>4, <1>7 DEF d

\* What is read of a line is what it says, and could have been written.
LEMMA LineSays ==
    ASSUME NEW e, LineLike(e), TransactionReadable(e)
    PROVE  LET x == transaction_from_json(e)
           IN  /\ transaction_to_json(x) = e
               /\ x.amount \in Money /\ Legs(x) \subseteq 0..(HalfRange - 1)
<1> DEFINE x == transaction_from_json(e)
<1>1. /\ x.id = to_u64(e["id"].int) /\ x.timestamp = from_unix_ms(e["ts"].int)
      /\ x.type = FromText(TypeText, e["type"].str)
      /\ x.state = FromText(StateText, e["state"].str)
      /\ x.from = Leg(e["from"]) /\ x.to = Leg(e["to"])
      /\ x.amount = e["amount"].int
  BY DEF transaction_from_json
<1>2. /\ e["id"].tag = "int" /\ e["ts"].tag = "int"
      /\ e["amount"].tag = "int" /\ e["amount"].int >= 0
      /\ e["type"].tag = "str" /\ Known(TypeText, e["type"].str)
      /\ e["state"].tag = "str" /\ Known(StateText, e["state"].str)
      /\ e["from"].tag = "null" \/ (e["from"].tag = "int" /\ e["from"].int >= 0)
      /\ e["to"].tag = "null" \/ (e["to"].tag = "int" /\ e["to"].int >= 0)
  BY DEF TransactionReadable, IsInt, IsCount, IsStr, IsLeg
<1>3. \A k \in LineKeys : Proper(e[k])
  BY DEF LineLike
<1>4. Number(to_i64(x.id)) = e["id"]
  <2>1. e["id"].int \in Int64 /\ e["id"] = Number(e["id"].int)
    BY <1>2, <1>3 DEF LineLike, LineKeys, Proper
  <2>2. to_i64(to_u64(e["id"].int)) = e["id"].int
    BY <2>1, CodecAssumption DEF Int64, to_i64, to_u64
  <2> QED
    BY <1>1, <2>1, <2>2
<1>5. Number(to_unix_ms(x.timestamp)) = e["ts"]
  <2>1. e["ts"].int \in Int /\ e["ts"] = Number(e["ts"].int)
    BY <1>2, <1>3 DEF LineKeys, Proper
  <2>2. to_unix_ms(from_unix_ms(e["ts"].int)) = e["ts"].int
    BY <2>1, CodecAssumption DEF to_unix_ms, from_unix_ms
  <2> QED
    BY <1>1, <2>1, <2>2
<1>6. Str(TypeText[x.type]) = e["type"] /\ Str(StateText[x.state]) = e["state"]
  BY <1>1, <1>2, <1>3, TextForms DEF LineKeys, Proper
<1>7. x.amount \in Money /\ Number(x.amount) = e["amount"]
  <2>1. e["amount"].int \in Int64 /\ e["amount"] = Number(e["amount"].int)
    BY <1>2, <1>3 DEF LineLike, LineKeys, Proper
  <2> QED
    BY <1>1, <1>2, <2>1, CodecAssumption DEF Int64, Money
<1>8. ASSUME NEW k \in {"from", "to"}
      PROVE  /\ leg_to_json(Leg(e[k])) = e[k]
             /\ Leg(e[k]) # NoAccount => Leg(e[k]) \in 0..(HalfRange - 1)
  <2>1. CASE e[k].tag = "null"
    BY <1>3, <2>1 DEF Leg, leg_to_json, LineKeys, Proper
  <2>2. CASE e[k].tag = "int"
    <3>1. e[k].int \in 0..(HalfRange - 1) /\ e[k] = Number(e[k].int)
      BY <1>2, <1>3, <2>2, CodecAssumption DEF LineLike, LineKeys, Proper, Int64
    <3>2. Leg(e[k]) = e[k].int /\ e[k].int # NoAccount
      BY <2>2, <3>1, NothingAssumption, CodecAssumption DEF Leg
    <3>3. to_i64(e[k].int) = e[k].int
      BY <3>1, CodecAssumption DEF to_i64
    <3> QED
      BY <3>1, <3>2, <3>3 DEF leg_to_json
  <2> QED
    BY <1>2, <2>1, <2>2
<1>9. Legs(x) \subseteq 0..(HalfRange - 1)
  BY <1>1, <1>8 DEF Legs
<1>10. transaction_to_json(x)
         = [id |-> e["id"], ts |-> e["ts"], type |-> e["type"], state |-> e["state"],
            from |-> e["from"], to |-> e["to"], amount |-> e["amount"]]
  BY <1>1, <1>4, <1>5, <1>6, <1>7, <1>8 DEF transaction_to_json
<1>11. e = [k \in LineKeys |-> e[k]]
  BY DEF LineLike
<1> HIDE DEF x
<1>12. transaction_to_json(x) = e
  BY <1>10, <1>11 DEF LineKeys
<1> QED
  BY <1>7, <1>9, <1>12 DEF x

\* A field that was left alone is read as it was written.
LEMMA FieldsKept ==
    ASSUME NEW r \in Records, NEW e, TransactionReadable(e)
    PROVE  LET d == transaction_to_json(r)
               x == transaction_from_json(e)
               y == Truncated(r)
           IN  /\ e["id"] = d["id"] => x.id = y.id
               /\ e["ts"] = d["ts"] => x.timestamp = y.timestamp
               /\ e["type"] = d["type"] => x.type = y.type
               /\ e["state"] = d["state"] => x.state = y.state
               /\ e["from"] = d["from"] => x.from = y.from
               /\ e["to"] = d["to"] => x.to = y.to
               /\ e["amount"] = d["amount"] => x.amount = y.amount
<1> DEFINE d == transaction_to_json(r)
           x == transaction_from_json(e)
           y == Truncated(r)
<1>1. /\ r.id \in Id /\ r.timestamp \in Nat /\ r.amount \in Money
      /\ r.type \in TransactionType /\ r.state \in TransactionState
      /\ r.from \in AccountId \cup {NoAccount} /\ r.to \in AccountId \cup {NoAccount}
      /\ y.id = r.id /\ y.timestamp = from_unix_ms(to_unix_ms(r.timestamp))
      /\ y.type = r.type /\ y.state = r.state /\ y.from = r.from
      /\ y.to = r.to /\ y.amount = r.amount
  BY RecordsAssumption DEF Truncated
<1>2. /\ x.id = to_u64(e["id"].int) /\ x.timestamp = from_unix_ms(e["ts"].int)
      /\ x.type = FromText(TypeText, e["type"].str)
      /\ x.state = FromText(StateText, e["state"].str)
      /\ x.from = Leg(e["from"]) /\ x.to = Leg(e["to"])
      /\ x.amount = e["amount"].int
  BY DEF transaction_from_json
<1>3. /\ d["id"].int = to_i64(r.id) /\ d["ts"].int = to_unix_ms(r.timestamp)
      /\ d["type"].str = TypeText[r.type] /\ d["state"].str = StateText[r.state]
      /\ d["from"] = leg_to_json(r.from) /\ d["to"] = leg_to_json(r.to)
      /\ d["amount"].int = r.amount
  BY LineFields, ValueTags
<1>4. /\ e["from"].tag = "null" \/ (e["from"].tag = "int" /\ e["from"].int >= 0)
      /\ e["to"].tag = "null" \/ (e["to"].tag = "int" /\ e["to"].int >= 0)
  BY DEF TransactionReadable, IsCount, IsInt, IsLeg
<1>5. ASSUME NEW k \in {"from", "to"}, NEW a \in AccountId \cup {NoAccount},
             e[k] = leg_to_json(a)
      PROVE  Leg(e[k]) = a
  BY <1>4, <1>5, Legs64
<1> HIDE DEF d, x, y
<1>6. e["id"] = d["id"] => x.id = y.id
  BY <1>1, <1>2, <1>3, Casts
<1>7. (e["from"] = d["from"] => x.from = y.from) /\ (e["to"] = d["to"] => x.to = y.to)
  BY <1>1, <1>2, <1>3, <1>5
<1>8. (e["type"] = d["type"] => x.type = y.type) /\ (e["state"] = d["state"] => x.state = y.state)
  BY <1>1, <1>2, <1>3, TextForms
<1>9. /\ e["ts"] = d["ts"] => x.timestamp = y.timestamp
      /\ e["amount"] = d["amount"] => x.amount = y.amount
  BY <1>1, <1>2, <1>3
<1> QED
  BY <1>6, <1>7, <1>8, <1>9 DEF d, x, y

\* A damaged line that is read differs in one field from what was written.
LEMMA DamagedLineReads ==
    ASSUME NEW r \in Records, NEW e, TransactionReadable(e),
           Damaged(Stored(transaction_to_json(r)), e)
    PROVE  LET x == transaction_from_json(e)
           IN  \E k \in DOMAIN x : \A f \in DOMAIN x \ {k} : x[f] = Truncated(r)[f]
<1> DEFINE d == transaction_to_json(r)
           x == transaction_from_json(e)
           y == Truncated(r)
<1>1. PICK k \in LineKeys : \A j \in LineKeys \ {k} : e[j] = d[j]
  BY DamagedLine
<1>2. DOMAIN x = {"id", "timestamp", "type", "state", "from", "to", "amount"}
  BY DEF transaction_from_json
<1>3. /\ e["id"] = d["id"] => x.id = y.id
      /\ e["ts"] = d["ts"] => x.timestamp = y.timestamp
      /\ e["type"] = d["type"] => x.type = y.type
      /\ e["state"] = d["state"] => x.state = y.state
      /\ e["from"] = d["from"] => x.from = y.from
      /\ e["to"] = d["to"] => x.to = y.to
      /\ e["amount"] = d["amount"] => x.amount = y.amount
  BY FieldsKept
<1> DEFINE field == IF k = "ts" THEN "timestamp" ELSE k
<1> HIDE DEF x, y, d
<1>4. field \in DOMAIN x /\ \A f \in DOMAIN x \ {field} : x[f] = y[f]
  BY <1>1, <1>2, <1>3 DEF LineKeys
<1> QED
  BY <1>4 DEF x, y

\* An undamaged line.
LEMMA LineReads ==
    ASSUME NEW r \in Records
    PROVE  transaction_from_json(Stored(transaction_to_json(r))) =
               IF r.id # HalfRange /\ \A a \in Legs(r) : a < HalfRange
               THEN Truncated(r) ELSE Nothing
<1> DEFINE d == transaction_to_json(r)
<1>1. /\ r.id \in Id /\ r.timestamp \in Nat /\ r.amount \in Money
      /\ r.type \in TransactionType /\ r.state \in TransactionState
      /\ r.from \in AccountId \cup {NoAccount} /\ r.to \in AccountId \cup {NoAccount}
      /\ Truncated(r) = [id |-> r.id,
                         timestamp |-> from_unix_ms(to_unix_ms(r.timestamp)),
                         type |-> r.type, state |-> r.state, from |-> r.from,
                         to |-> r.to, amount |-> r.amount]
  BY RecordsAssumption DEF Truncated
<1>2. CASE HalfRange \in {r.id} \cup Legs(r)
  <2>1. Stored(d) = NoDocument
    BY <1>2, LineStored
  <2>2. transaction_from_json(Stored(d)) = Nothing
    BY <2>1 DEF transaction_from_json, TransactionReadable
  <2>3. r.id = HalfRange \/ (HalfRange \in Legs(r) /\ ~(HalfRange < HalfRange))
    BY <1>2, CodecAssumption
  <2> QED
    BY <2>2, <2>3
<1>3. CASE HalfRange \notin {r.id} \cup Legs(r)
  <2>1. Stored(d) = d
    BY <1>3, LineStored
  <2>2. TransactionReadable(d) <=> \A a \in Legs(r) : a < HalfRange
    <3>1. /\ d # NoDocument
          /\ IsInt(d, "id") /\ IsInt(d, "ts") /\ IsCount(d, "amount")
      BY <1>1, LineFields, ValueTags DEF IsInt, IsCount, LineKeys, Money
    <3>2. /\ IsStr(d, "type") /\ Known(TypeText, d["type"].str)
          /\ IsStr(d, "state") /\ Known(StateText, d["state"].str)
      BY <1>1, LineFields, ValueTags, TextForms DEF IsStr, LineKeys
    <3>3. IsLeg(d, "from") <=> (r.from # NoAccount => r.from < HalfRange)
      BY <1>1, LineFields, Legs64 DEF IsLeg, IsCount, IsInt, LineKeys
    <3>4. IsLeg(d, "to") <=> (r.to # NoAccount => r.to < HalfRange)
      BY <1>1, LineFields, Legs64 DEF IsLeg, IsCount, IsInt, LineKeys
    <3> HIDE DEF d
    <3> QED
      BY <3>1, <3>2, <3>3, <3>4 DEF TransactionReadable, Legs
  <2>3. CASE ~ \A a \in Legs(r) : a < HalfRange
    BY <2>1, <2>2, <2>3 DEF transaction_from_json
  <2>4. CASE \A a \in Legs(r) : a < HalfRange
    <3>1. /\ to_u64(d["id"].int) = r.id
          /\ from_unix_ms(d["ts"].int) = from_unix_ms(to_unix_ms(r.timestamp))
          /\ FromText(TypeText, d["type"].str) = r.type
          /\ FromText(StateText, d["state"].str) = r.state
          /\ d["amount"].int = r.amount
      BY <1>1, LineFields, ValueTags, TextForms, Casts
    <3>2. Leg(d["from"]) = r.from /\ Leg(d["to"]) = r.to
      BY <1>1, <2>4, LineFields, Legs64 DEF Legs
    <3>3. r.id # HalfRange
      BY <1>3
    <3> HIDE DEF d
    <3>4. transaction_from_json(d) = Truncated(r)
      BY <1>1, <2>2, <2>4, <3>1, <3>2 DEF transaction_from_json
    <3> QED
      BY <2>1, <2>4, <3>3, <3>4 DEF d
  <2> QED
    BY <2>3, <2>4
<1> QED
  BY <1>2, <1>3

LEMMA EntryFields ==
    ASSUME NEW s \in Snapshots
    PROVE  LET d == account_to_json(s)
           IN  /\ DOMAIN d = EntryKeys /\ d = [k \in DOMAIN d |-> d[k]]
               /\ d # NoDocument
               /\ d["id"] = Number(to_i64(s.id))
               /\ d["owner"] = Number(to_i64(s.owner))
               /\ d["balance"] = Number(s.balance)
               /\ d["status"] = Str(StatusText[s.status])
               /\ d["version"] = Number(to_i64(s.version))
BY SnapshotsAssumption DEF account_to_json, EntryKeys

\* An undamaged entry.
LEMMA EntryReads ==
    ASSUME NEW s \in Snapshots
    PROVE  account_from_json(Stored(account_to_json(s))) =
               IF {s.id, s.owner, s.version} \subseteq 0..(HalfRange - 1)
               THEN s ELSE Nothing
<1> DEFINE d == account_to_json(s)
           Fits == {s.id, s.owner, s.version} \subseteq 0..(HalfRange - 1)
<1>1. /\ s.id \in Id /\ s.owner \in Id /\ s.version \in Id
      /\ s.balance \in Money /\ s.status \in AccountStatus
      /\ s = [id |-> s.id, owner |-> s.owner, balance |-> s.balance,
              status |-> s.status, version |-> s.version]
  BY SnapshotsAssumption
<1>2. AccountReadable(d) <=> Fits
  <2>1. \A n \in Id : to_i64(n) >= 0 <=> n \in 0..(HalfRange - 1)
    BY Casts, CodecAssumption DEF Id
  <2>2. /\ IsCount(d, "id") <=> to_i64(s.id) >= 0
        /\ IsCount(d, "owner") <=> to_i64(s.owner) >= 0
        /\ IsCount(d, "version") <=> to_i64(s.version) >= 0
        /\ IsCount(d, "balance")
    BY <1>1, EntryFields, ValueTags DEF IsCount, IsInt, EntryKeys, Money
  <2>3. d # NoDocument /\ IsStr(d, "status") /\ Known(StatusText, d["status"].str)
    BY <1>1, EntryFields, ValueTags, TextForms DEF IsStr, EntryKeys
  <2> HIDE DEF d
  <2> QED
    BY <1>1, <2>1, <2>2, <2>3 DEF AccountReadable
<1>3. Fits => account_from_json(d) = s
  <2> SUFFICES ASSUME Fits PROVE account_from_json(d) = s
    OBVIOUS
  <2>1. /\ d["id"].int = s.id /\ d["owner"].int = s.owner
        /\ d["version"].int = s.version /\ d["balance"].int = s.balance
        /\ FromText(StatusText, d["status"].str) = s.status
    BY <1>1, EntryFields, ValueTags, TextForms, Casts, CodecAssumption
  <2> HIDE DEF d
  <2> QED
    BY <1>1, <1>2, <2>1 DEF account_from_json
<1>4. CASE Stored(d) = d
  BY <1>2, <1>3, <1>4 DEF account_from_json
<1>5. CASE \E k \in DOMAIN d : d[k] = Number(-HalfRange)
  <2>1. s.balance # -HalfRange
    BY <1>1, CodecAssumption DEF Money
  <2>2. to_i64(s.id) = -HalfRange \/ to_i64(s.owner) = -HalfRange
          \/ to_i64(s.version) = -HalfRange
    BY <1>5, <2>1, EntryFields, ValueTags DEF EntryKeys
  <2>3. HalfRange \in {s.id, s.owner, s.version}
    BY <1>1, <2>2, Casts
  <2>4. ~Fits
    BY <2>3, CodecAssumption
  <2>5. Stored(d) = NoDocument
    BY <1>5 DEF Stored
  <2> QED
    BY <2>4, <2>5 DEF account_from_json, AccountReadable
<1> QED
  BY <1>4, <1>5 DEF Stored

\* A damaged entry that is read says one thing else, which could have been
\* written.
LEMMA DamagedEntryReads ==
    ASSUME NEW s \in Snapshots, NEW e, AccountReadable(e),
           Damaged(Stored(account_to_json(s)), e)
    PROVE  LET x == account_from_json(e)
           IN  /\ account_to_json(x) = e /\ x.balance \in Money
               /\ \E k \in DOMAIN x : \A f \in DOMAIN x \ {k} : x[f] = s[f]
<1> DEFINE d == account_to_json(s)
           x == account_from_json(e)
           Numbers == {"id", "owner", "balance", "version"}
<1>1. e # NoDocument /\ EntryKeys \subseteq DOMAIN e
  BY DEF AccountReadable, EntryKeys, IsCount, IsInt, IsStr
<1>2. Stored(d) = d /\ DOMAIN d = EntryKeys
  BY <1>1, EntryFields DEF Stored, Damaged
<1>3. PICK k \in EntryKeys, v \in FieldValue : e = [d EXCEPT ![k] = v]
  BY <1>1, <1>2, DamagedField
<1>4. /\ e = [j \in EntryKeys |-> e[j]] /\ e[k] = v
      /\ \A j \in EntryKeys \ {k} : e[j] = d[j]
  BY <1>2, <1>3
<1>5. /\ x.id = e["id"].int /\ x.owner = e["owner"].int
      /\ x.balance = e["balance"].int /\ x.version = e["version"].int
      /\ x.status = FromText(StatusText, e["status"].str)
      /\ DOMAIN x = EntryKeys
  BY DEF account_from_json, EntryKeys
<1>6. /\ \A j \in Numbers : e[j].tag = "int" /\ e[j].int >= 0
      /\ e["status"].tag = "str" /\ Known(StatusText, e["status"].str)
  BY DEF AccountReadable, IsCount, IsInt, IsStr
<1>7. /\ s.id \in Id /\ s.owner \in Id /\ s.version \in Id
      /\ s.balance \in Money /\ s.status \in AccountStatus
  BY SnapshotsAssumption
<1>8. \A j \in EntryKeys : Proper(d[j]) /\ (d[j].tag = "int" => d[j].int \in Int64)
  <2>1. /\ to_i64(s.id) \in Int64 /\ to_i64(s.owner) \in Int64
        /\ to_i64(s.version) \in Int64 /\ s.balance \in Int64
        /\ \A i \in Int64 : i \in Int
    BY <1>7, Casts, CodecAssumption DEF Int64, Money
  <2>2. \A i \in Int64 : Proper(Number(i)) /\ Number(i).int \in Int64
    BY <2>1, ValueTags DEF Proper
  <2>3. d["status"].tag = "str" /\ Proper(d["status"])
    BY EntryFields, ValueTags DEF Proper
  <2> HIDE DEF d
  <2> QED
    BY <2>1, <2>2, <2>3, EntryFields DEF EntryKeys, d
<1>9. \A j \in EntryKeys : Proper(e[j]) /\ (e[j].tag = "int" => e[j].int \in Int64)
  <2> HIDE DEF d
  <2> QED
    BY <1>4, <1>8, FieldValues
<1>10. /\ \A j \in Numbers : e[j].int \in 0..(HalfRange - 1) /\ Number(to_i64(e[j].int)) = e[j]
       /\ \A j \in Numbers : Number(e[j].int) = e[j]
  <2> SUFFICES ASSUME NEW j \in Numbers
               PROVE  /\ e[j].int \in 0..(HalfRange - 1)
                      /\ Number(to_i64(e[j].int)) = e[j] /\ Number(e[j].int) = e[j]
    OBVIOUS
  <2>1. e[j].int \in Int64 /\ e[j].int >= 0 /\ e[j] = Number(e[j].int)
    BY <1>6, <1>9 DEF EntryKeys, Proper
  <2>2. e[j].int \in 0..(HalfRange - 1) /\ to_i64(e[j].int) = e[j].int
    BY <2>1, CodecAssumption DEF Int64, to_i64
  <2> QED
    BY <2>1, <2>2
<1>11. Str(StatusText[x.status]) = e["status"]
  BY <1>5, <1>6, <1>9, TextForms DEF EntryKeys, Proper
<1>12. account_to_json(x)
         = [id |-> e["id"], owner |-> e["owner"], balance |-> e["balance"],
            status |-> e["status"], version |-> e["version"]]
  BY <1>5, <1>10, <1>11 DEF account_to_json
<1> HIDE DEF x, d
<1>13. account_to_json(x) = e
  BY <1>4, <1>12 DEF EntryKeys
<1>14. x.balance \in Money
  BY <1>5, <1>10, CodecAssumption DEF Money
<1>15. ASSUME NEW f \in EntryKeys \ {k} PROVE x[f] = s[f]
  <2>1. e[f] = d[f]
    BY <1>4
  <2>2. /\ d["id"].int = to_i64(s.id) /\ d["owner"].int = to_i64(s.owner)
        /\ d["version"].int = to_i64(s.version) /\ d["balance"].int = s.balance
        /\ d["status"].str = StatusText[s.status]
    BY EntryFields, ValueTags DEF d
  <2>3. \A n \in Id : to_i64(n) >= 0 => to_i64(n) = n
    BY Casts
  <2> QED
    BY <1>5, <1>6, <1>7, <2>1, <2>2, <2>3, TextForms DEF EntryKeys
<1> QED
  BY <1>5, <1>13, <1>14, <1>15 DEF x

-----------------------------------------------------------------------------
(* The stored document of a line or an entry.                              *)

IsDocumentOf(d) == IF damaged THEN Damaged(d, doc) ELSE doc = d

LineInv ==
    store = "line" =>
        original \in Records /\ IsDocumentOf(Stored(transaction_to_json(original)))

EntryInv ==
    store = "entry" =>
        original \in Snapshots /\ IsDocumentOf(Stored(account_to_json(original)))

\* Which variables a step may change.
LEMMA StepKinds ==
    ASSUME [Next]_vars
    PROVE  /\ store' = store
           /\ \/ Damage
              \/ UNCHANGED documentVars
           /\ \/ \E c \in CustomerId, who \in People : save_customer(c, who)
              \/ \E a \in SavedId, row \in Rows, c \in CustomerId : save(a, row, c)
              \/ \E a \in SavedId : remove(a)
              \/ UNCHANGED accountVars
           /\ \/ \E x \in Payments, t \in 0..MaxTime : TakeId(x, t)
              \/ \E r \in running : append_transaction(r) \/ CallFails(r)
              \/ UNCHANGED transactionVars
           /\ \/ \E who \in Actor : Stamp(who)
              \/ \E e \in stamped : append_entry(e)
              \/ Tick
              \/ UNCHANGED auditVars
<1> USE DEF accountVars, transactionVars, auditVars, documentVars
<1>1. CASE UNCHANGED vars
  BY <1>1 DEF vars
<1>2. ASSUME NEW c \in CustomerId, NEW who \in People, save_customer(c, who)
      PROVE  UNCHANGED <<store, transactionVars, auditVars, documentVars>>
  BY <1>2 DEF save_customer
<1>3. ASSUME NEW a \in SavedId, NEW row \in Rows, NEW c \in CustomerId, save(a, row, c)
      PROVE  UNCHANGED <<store, transactionVars, auditVars, documentVars>>
  BY <1>3 DEF save
<1>4. ASSUME NEW a \in SavedId, remove(a)
      PROVE  UNCHANGED <<store, transactionVars, auditVars, documentVars>>
  BY <1>4 DEF remove
<1>5. ASSUME NEW x \in Payments, NEW t \in 0..MaxTime, TakeId(x, t)
      PROVE  UNCHANGED <<store, accountVars, auditVars, documentVars>>
  BY <1>5 DEF TakeId
<1>6. ASSUME NEW r \in running, append_transaction(r) \/ CallFails(r)
      PROVE  UNCHANGED <<store, accountVars, auditVars, documentVars>>
  BY <1>6 DEF append_transaction, CallFails
<1>7. ASSUME NEW who \in Actor, Stamp(who)
      PROVE  UNCHANGED <<store, accountVars, transactionVars, documentVars>>
  BY <1>7 DEF Stamp
<1>8. ASSUME NEW e \in stamped, append_entry(e)
      PROVE  UNCHANGED <<store, accountVars, transactionVars, documentVars>>
  BY <1>8 DEF append_entry
<1>9. CASE Tick
  BY <1>9 DEF Tick
<1>10. CASE Damage
  BY <1>10 DEF Damage
<1> QED
  BY <1>1, <1>2, <1>3, <1>4, <1>5, <1>6, <1>7, <1>8, <1>9, <1>10 DEF Next

LEMMA DocumentInit == Init => LineInv /\ EntryInv
BY DEF Init, LineInv, EntryInv, IsDocumentOf

LEMMA DocumentStep ==
    ASSUME LineInv, EntryInv, [Next]_vars
    PROVE  LineInv' /\ EntryInv'
<1>1. CASE Damage
  <2>1. store' = store /\ original' = original
    BY <1>1 DEF Damage
  <2>2. ASSUME store = "line" PROVE LineInv'
    <3>1. /\ original \in Records
          /\ IsDocumentOf(Stored(transaction_to_json(original)))
      BY <2>2 DEF LineInv
    <3>2. damaged' /\ Damaged(Stored(transaction_to_json(original)), doc')
      BY <1>1, <3>1 DEF Damage, IsDocumentOf, Damaged
    <3> QED
      BY <2>1, <3>1, <3>2 DEF LineInv, IsDocumentOf
  <2>3. ASSUME store = "entry" PROVE EntryInv'
    <3>1. /\ original \in Snapshots
          /\ IsDocumentOf(Stored(account_to_json(original)))
      BY <2>3 DEF EntryInv
    <3>2. damaged' /\ Damaged(Stored(account_to_json(original)), doc')
      BY <1>1, <3>1 DEF Damage, IsDocumentOf, Damaged
    <3> QED
      BY <2>1, <3>1, <3>2 DEF EntryInv, IsDocumentOf
  <2> QED
    BY <2>1, <2>2, <2>3 DEF LineInv, EntryInv
<1>2. CASE UNCHANGED documentVars
  BY <1>2, StepKinds DEF LineInv, EntryInv, IsDocumentOf, documentVars
<1> QED
  BY <1>1, <1>2, StepKinds

\* The inductive invariant of a stored document: it is what the encoder wrote,
\* or that with one field missing or saying something else.
THEOREM DocumentInvariant == Spec => [](LineInv /\ EntryInv)
BY DocumentInit, DocumentStep, PTL DEF Spec

\* Serializer.cpp: a journaled transaction reads back as it was written, to the
\* millisecond, or not at all, for every width of the integers.
THEOREM TransactionsRoundTrip == Spec => []TransactionRoundTrip
<1>1. LineInv /\ EntryInv => TransactionRoundTrip
  BY LineReads DEF LineInv, IsDocumentOf, TransactionRoundTrip
<1> QED
  BY <1>1, DocumentInvariant, PTL

\* transaction_from_json has no checksum to go by: a line damaged in one field is
\* refused, or read as the valid record it now says, which differs in that field.
THEOREM DamageIsContained == Spec => []DamageStaysInItsField
<1>1. LineInv /\ EntryInv => DamageStaysInItsField
  <2> SUFFICES ASSUME LineInv, store = "line", damaged,
                      transaction_from_json(doc) # Nothing
               PROVE  LET r == transaction_from_json(doc)
                      IN  /\ transaction_to_json(r) = doc
                          /\ r.amount \in Money /\ Legs(r) \subseteq 0..(HalfRange - 1)
                          /\ \E k \in DOMAIN r :
                                \A f \in DOMAIN r \ {k} : r[f] = Truncated(original)[f]
    BY DEF DamageStaysInItsField
  <2>1. /\ original \in Records /\ TransactionReadable(doc)
        /\ Damaged(Stored(transaction_to_json(original)), doc)
    BY DEF LineInv, IsDocumentOf, transaction_from_json
  <2> QED
    BY <2>1, DamagedLine, LineSays, DamagedLineReads
<1> QED
  BY <1>1, DocumentInvariant, PTL

\* account_from_json: an intact entry of a snapshot is decoded as it was or,
\* beyond the int64_t, not at all; a damaged one is refused, or read as the valid
\* account it now says, which differs in that field.
THEOREM SnapshotEntriesAreExact == Spec => []EntriesSayWhatTheyHold
<1>1. LineInv /\ EntryInv => EntriesSayWhatTheyHold
  <2> SUFFICES ASSUME EntryInv, store = "entry" PROVE EntriesSayWhatTheyHold
    BY DEF EntriesSayWhatTheyHold
  <2>1. original \in Snapshots
    BY DEF EntryInv
  <2>2. CASE ~damaged
    BY <2>1, <2>2, EntryReads DEF EntryInv, IsDocumentOf, EntriesSayWhatTheyHold
  <2>3. CASE damaged
    <3>1. Damaged(Stored(account_to_json(original)), doc)
      BY <2>3 DEF EntryInv, IsDocumentOf
    <3>2. CASE AccountReadable(doc)
      BY <2>1, <2>3, <3>1, <3>2, DamagedEntryReads DEF EntriesSayWhatTheyHold
    <3>3. CASE ~AccountReadable(doc)
      BY <2>3, <3>3 DEF EntriesSayWhatTheyHold, account_from_json
    <3> QED
      BY <3>2, <3>3
  <2> QED
    BY <2>2, <2>3
<1> QED
  BY <1>1, DocumentInvariant, PTL

-----------------------------------------------------------------------------
(* Induction over the naturals, and finite sets of rows in order.          *)

Below == OpToRel(<, Nat)

LEMMA SetInduction ==
    ASSUME NEW K, 0 \in K, \A n \in Nat : n \in K => n + 1 \in K
    PROVE  \A n \in Nat : n \in K
<1> DEFINE Missing == Nat \ K
<1> SUFFICES ASSUME Missing # {} PROVE FALSE
  OBVIOUS
<1>1. \A x, y \in Nat : <<x, y>> \in Below <=> x < y
  BY DEF Below, OpToRel
<1>2. PICK least \in Missing : \A y \in Missing : ~(<<y, least>> \in Below)
  BY NatLessThanWellFounded, WFMin DEF Below
<1>3. least # 0 /\ least - 1 \in Nat /\ least - 1 < least /\ least = (least - 1) + 1
  OBVIOUS
<1> QED
  BY <1>1, <1>2, <1>3

\* Rows of a table: a primary key, and integers as keys.
Keyed(S) ==
    /\ IsFiniteSet(S)
    /\ \A r \in S : r.id \in Int
    /\ \A r, q \in S : r.id = q.id => r = q

LEMMA LastRow ==
    ASSUME NEW S, Keyed(S), S # {}
    PROVE  \E last \in S : \A r \in S : r.id <= last.id
<1> DEFINE HasLast(T) == \E last \in T : \A r \in T : r.id <= last.id
           K == {n \in Nat : \A T \in SUBSET S : Cardinality(T) = n + 1 => HasLast(T)}
<1>1. \A T \in SUBSET S : IsFiniteSet(T) /\ Cardinality(T) \in Nat
  BY FS_Subset, FS_CardinalityType DEF Keyed
<1>2. 0 \in K
  <2> SUFFICES ASSUME NEW T \in SUBSET S, Cardinality(T) = 1 PROVE HasLast(T)
    OBVIOUS
  <2>1. PICK x : T = {x}
    BY <1>1, FS_Singleton
  <2> QED
    BY <2>1 DEF Keyed
<1>3. ASSUME NEW n \in Nat, n \in K PROVE n + 1 \in K
  <2> SUFFICES ASSUME NEW T \in SUBSET S, Cardinality(T) = n + 2 PROVE HasLast(T)
    OBVIOUS
  <2>1. PICK x \in T : TRUE
    BY <1>1, FS_EmptySet
  <2>2. Cardinality(T \ {x}) = n + 1
    BY <1>1, <2>1, FS_RemoveElement
  <2>3. PICK last \in T \ {x} : \A r \in T \ {x} : r.id <= last.id
    BY <1>3, <2>2
  <2>4. x.id \in Int /\ last.id \in Int /\ \A r \in T : r.id \in Int
    BY <2>1, <2>3 DEF Keyed
  <2>5. CASE x.id <= last.id
    BY <2>3, <2>4, <2>5
  <2>6. CASE last.id <= x.id
    BY <2>1, <2>3, <2>4, <2>6
  <2> QED
    BY <2>4, <2>5, <2>6
<1>4. \A n \in Nat : n \in K
  <2> HIDE DEF K
  <2> QED
    BY <1>2, <1>3, SetInduction
<1>5. Cardinality(S) - 1 \in Nat /\ (Cardinality(S) - 1) + 1 = Cardinality(S)
  BY <1>1, FS_EmptySet
<1>6. \A T \in SUBSET S : Cardinality(T) = (Cardinality(S) - 1) + 1 => HasLast(T)
  BY <1>4, <1>5
<1> QED
  BY <1>5, <1>6

\* rows is S in the order of the ids.
InOrder(rows, S) ==
    /\ rows \in [1..Cardinality(S) -> S]
    /\ \A r \in S : \E i \in DOMAIN rows : rows[i] = r
    /\ \A i, j \in DOMAIN rows : i < j => rows[i].id < rows[j].id

LEMMA Orderable ==
    ASSUME NEW S, Keyed(S)
    PROVE  \E rows : InOrder(rows, S)
<1> DEFINE K == {n \in Nat : \A T \in SUBSET S :
                     Cardinality(T) = n => \E rows : InOrder(rows, T)}
<1>1. \A T \in SUBSET S : IsFiniteSet(T) /\ Cardinality(T) \in Nat /\ Keyed(T)
  BY FS_Subset, FS_CardinalityType DEF Keyed
<1>2. 0 \in K
  <2> SUFFICES ASSUME NEW T \in SUBSET S, Cardinality(T) = 0
               PROVE  \E rows : InOrder(rows, T)
    OBVIOUS
  <2>1. T = {}
    BY <1>1, FS_EmptySet
  <2>2. InOrder([i \in 1..0 |-> i], T)
    BY <2>1 DEF InOrder
  <2> QED
    BY <2>2
<1>3. ASSUME NEW n \in Nat, n \in K PROVE n + 1 \in K
  <2> SUFFICES ASSUME NEW T \in SUBSET S, Cardinality(T) = n + 1
               PROVE  \E rows : InOrder(rows, T)
    OBVIOUS
  <2>1. PICK last \in T : \A r \in T : r.id <= last.id
    BY <1>1, FS_EmptySet, LastRow
  <2>2. Cardinality(T \ {last}) = n
    <3>1. IsFiniteSet(T) /\ Cardinality(T \ {last}) = Cardinality(T) - 1
      BY <1>1, <2>1, FS_RemoveElement
    <3> QED
      BY <3>1
  <2>3. PICK rows : InOrder(rows, T \ {last})
    BY <1>3, <2>2
  <2> DEFINE more == [i \in 1..(n + 1) |-> IF i = n + 1 THEN last ELSE rows[i]]
  <2>4. \A r \in T \ {last} : r.id < last.id
    BY <1>1, <2>1 DEF Keyed
  <2>5. rows \in [1..n -> T \ {last}]
    BY <2>2, <2>3 DEF InOrder
  <2>6. \A r \in T : \E i \in 1..(n + 1) : more[i] = r
    <3>1. more[n + 1] = last
      OBVIOUS
    <3>2. ASSUME NEW r \in T \ {last} PROVE \E i \in 1..n : more[i] = r
      <4>1. PICK i \in 1..n : rows[i] = r
        BY <2>3, <2>5 DEF InOrder
      <4> QED
        BY <4>1
    <3> QED
      BY <3>1, <3>2
  <2>7. ASSUME NEW i \in 1..(n + 1), NEW j \in 1..(n + 1), i < j
        PROVE  more[i].id < more[j].id
    <3>1. CASE j = n + 1
      <4>1. i \in 1..n /\ more[i] = rows[i] /\ more[j] = last
        BY <2>7, <3>1
      <4> QED
        BY <2>4, <2>5, <4>1
    <3>2. CASE j # n + 1
      <4>1. i \in 1..n /\ j \in 1..n /\ more[i] = rows[i] /\ more[j] = rows[j]
        BY <2>7, <3>2
      <4> QED
        BY <2>3, <2>5, <2>7, <4>1 DEF InOrder
    <3> QED
      BY <3>1, <3>2
  <2>8. more \in [1..Cardinality(T) -> T] /\ DOMAIN more = 1..(n + 1)
    BY <2>1, <2>5
  <2> QED
    BY <2>6, <2>7, <2>8 DEF InOrder
<1>4. \A n \in Nat : n \in K
  <2> HIDE DEF K
  <2> QED
    BY <1>2, <1>3, SetInduction
<1> QED
  BY <1>1, <1>4

LEMMA OrderByIdMeaning ==
    ASSUME NEW S, Keyed(S)
    PROVE  InOrder(OrderById(S), S)
<1>1. PICK rows : InOrder(rows, S)
  BY Orderable
<1> QED
  BY <1>1 DEF OrderById, InOrder

-----------------------------------------------------------------------------
(* The history of an account in memory.                                    *)

AnyLeg == AccountId \cup {NoAccount}

StoredTxn ==
    [id : 0..(HalfRange - 1), timestamp : Nat, type : TransactionType,
     state : TransactionState, from : AnyLeg, to : AnyLeg, amount : Money]

Names(r, a) == a \in {r.from, r.to}

\* f gives what for_account(a) has copied of s.
IsHistory(f, s, a) ==
    f = [n \in 0..Len(s) |->
            IF n = 0 THEN <<>>
            ELSE IF Names(s[n], a) THEN Append(f[n - 1], s[n]) ELSE f[n - 1]]

LEMMA HistoryExists ==
    ASSUME NEW s \in Seq(StoredTxn), NEW a
    PROVE  \E f : IsHistory(f, s, a)
<1> DEFINE Next1(f, n) == IF Names(s[n], a) THEN Append(f[n - 1], s[n]) ELSE f[n - 1]
           Along(f, k) == f[0] = <<>> /\ \A n \in 1..k : f[n] = Next1(f, n)
           Good(k) == \E f : f = [n \in 0..k |-> f[n]] /\ Along(f, k)
           K == {k \in Nat : Good(k)}
<1>1. 0 \in K
  <2>1. Along([n \in 0..0 |-> <<>>], 0)
    OBVIOUS
  <2> QED
    BY <2>1
<1>2. ASSUME NEW k \in Nat, k \in K PROVE k + 1 \in K
  <2>1. PICK f : f = [n \in 0..k |-> f[n]] /\ Along(f, k)
    BY <1>2
  <2> DEFINE last == IF Names(s[k + 1], a) THEN Append(f[k], s[k + 1]) ELSE f[k]
             g == [n \in 0..(k + 1) |-> IF n = k + 1 THEN last ELSE f[n]]
  <2>2. g[0] = <<>> /\ g[k + 1] = last /\ g[k] = f[k] /\ (k + 1) - 1 = k
    <3>1. f[0] = <<>>
      BY <2>1
    <3>2. 0 \in 0..(k + 1) /\ k \in 0..(k + 1) /\ k + 1 \in 0..(k + 1)
          /\ 0 # k + 1 /\ k # k + 1 /\ (k + 1) - 1 = k
      OBVIOUS
    <3> HIDE DEF last
    <3> QED
      BY <3>1, <3>2
  <2>3. \A n \in 1..k : g[n] = f[n] /\ g[n - 1] = f[n - 1]
    OBVIOUS
  <2>4. g[k + 1] = Next1(g, k + 1)
    BY <2>2
  <2>5. \A n \in 1..(k + 1) : n \in 1..k \/ n = k + 1
    OBVIOUS
  <2>6. g = [n \in 0..(k + 1) |-> g[n]]
    OBVIOUS
  <2> HIDE DEF g, last
  <2>7. \A n \in 1..k : g[n] = Next1(g, n)
    BY <2>1, <2>3
  <2> HIDE DEF Next1
  <2>8. Along(g, k + 1)
    BY <2>2, <2>4, <2>5, <2>7
  <2> HIDE DEF Along
  <2>9. k + 1 \in Nat /\ Good(k + 1)
    BY <2>6, <2>8
  <2> QED
    BY <2>9
<1>3. \A k \in Nat : k \in K
  <2> HIDE DEF K
  <2> QED
    BY <1>1, <1>2, SetInduction
<1>4. PICK f : f = [n \in 0..Len(s) |-> f[n]] /\ Along(f, Len(s))
  <2>1. Len(s) \in K
    <3> HIDE DEF K
    <3> QED
      BY <1>3
  <2> HIDE DEF Along
  <2> QED
    BY <2>1
<1>5. \A n \in 0..Len(s) : f[n] = IF n = 0 THEN <<>> ELSE Next1(f, n)
  <2>1. f[0] = <<>> /\ \A n \in 1..Len(s) : f[n] = Next1(f, n)
    BY <1>4
  <2>2. Len(s) \in Nat
    OBVIOUS
  <2> HIDE DEF Next1
  <2> QED
    BY <2>1, <2>2
<1> QED
  BY <1>4, <1>5 DEF IsHistory

\* The first k records that name a.
Picked(s, a, k) == {s[i] : i \in {j \in 1..k : Names(s[j], a)}}

DistinctIds(s) == \A i, j \in DOMAIN s : s[i].id = s[j].id => i = j

LEMMA ListedGrows ==
    ASSUME NEW S, NEW s \in Seq(S), NEW e \in S
    PROVE  /\ Append(s, e) \in Seq(S) /\ Len(Append(s, e)) = Len(s) + 1
           /\ Listed(Append(s, e)) = Listed(s) \cup {e}
<1>1. /\ Append(s, e) \in Seq(S) /\ Len(Append(s, e)) = Len(s) + 1
      /\ DOMAIN Append(s, e) = 1..(Len(s) + 1) /\ DOMAIN s = 1..Len(s)
      /\ Append(s, e)[Len(s) + 1] = e
      /\ \A i \in 1..Len(s) : Append(s, e)[i] = s[i]
      /\ Len(s) \in Nat
  OBVIOUS
<1>2. 1..(Len(s) + 1) = 1..Len(s) \cup {Len(s) + 1}
  BY <1>1
<1> QED
  BY <1>1, <1>2 DEF Listed

\* The copy holds those and nothing else, each once.
LEMMA HistoryMeaning ==
    ASSUME NEW s \in Seq(StoredTxn), DistinctIds(s), NEW a,
           NEW f, IsHistory(f, s, a)
    PROVE  LET h == f[Len(s)]
               P == Picked(s, a, Len(s))
           IN  /\ h \in Seq(StoredTxn) /\ Listed(h) = P
               /\ IsFiniteSet(P) /\ Len(h) = Cardinality(P)
<1> DEFINE Copies(k) ==
               /\ f[k] \in Seq(StoredTxn) /\ Listed(f[k]) = Picked(s, a, k)
               /\ IsFiniteSet(Picked(s, a, k))
               /\ Len(f[k]) = Cardinality(Picked(s, a, k))
           K == {k \in Nat : k <= Len(s) => Copies(k)}
<1>1. /\ f[0] = <<>>
      /\ \A n \in 1..Len(s) :
            f[n] = IF Names(s[n], a) THEN Append(f[n - 1], s[n]) ELSE f[n - 1]
  <2>1. \A n \in 0..Len(s) :
           f[n] = IF n = 0 THEN <<>>
                  ELSE IF Names(s[n], a) THEN Append(f[n - 1], s[n]) ELSE f[n - 1]
    BY DEF IsHistory
  <2> QED
    BY <2>1
<1>2. 0 \in K
  <2>1. Picked(s, a, 0) = {}
    BY DEF Picked
  <2>2. Cardinality({}) = 0 /\ IsFiniteSet({})
    BY FS_EmptySet
  <2>3. Listed(<<>>) = {} /\ Len(<<>>) = 0 /\ <<>> \in Seq(StoredTxn)
    BY DEF Listed
  <2> QED
    BY <1>1, <2>1, <2>2, <2>3
<1>3. ASSUME NEW k \in Nat, k \in K PROVE k + 1 \in K
  <2> SUFFICES ASSUME k + 1 <= Len(s) PROVE Copies(k + 1)
    OBVIOUS
  <2>1. Copies(k)
    BY <1>3
  <2>2. /\ k + 1 \in 1..Len(s) /\ (k + 1) - 1 = k
        /\ f[k + 1] = IF Names(s[k + 1], a) THEN Append(f[k], s[k + 1]) ELSE f[k]
        /\ s[k + 1] \in StoredTxn
    BY <1>1
  <2>3. CASE ~Names(s[k + 1], a)
    <3>1. Picked(s, a, k + 1) = Picked(s, a, k)
      BY <2>3 DEF Picked
    <3> QED
      BY <2>1, <2>2, <2>3, <3>1
  <2>4. CASE Names(s[k + 1], a)
    <3>1. Picked(s, a, k + 1) = Picked(s, a, k) \cup {s[k + 1]}
      BY <2>4 DEF Picked
    <3>2. s[k + 1] \notin Picked(s, a, k)
      BY <2>2 DEF Picked, DistinctIds
    <3>3. /\ IsFiniteSet(Picked(s, a, k + 1))
          /\ Cardinality(Picked(s, a, k + 1)) = Cardinality(Picked(s, a, k)) + 1
      BY <2>1, <3>1, <3>2, FS_AddElement
    <3>4. f[k + 1] = Append(f[k], s[k + 1])
      BY <2>2, <2>4
    <3>5. /\ f[k + 1] \in Seq(StoredTxn) /\ Len(f[k + 1]) = Len(f[k]) + 1
          /\ Listed(f[k + 1]) = Listed(f[k]) \cup {s[k + 1]}
      BY <2>1, <2>2, <3>4, ListedGrows
    <3> QED
      BY <2>1, <3>1, <3>3, <3>5
  <2> QED
    BY <2>3, <2>4
<1>4. Len(s) \in K
  <2> HIDE DEF K
  <2> QED
    BY <1>2, <1>3, SetInduction
<1> QED
  BY <1>4

-----------------------------------------------------------------------------
(* The two transaction repositories.                                       *)

TransactionInv ==
    /\ next_id \in 1..(MaxId + 1)
    /\ running \subseteq StoredTxn
    /\ records \in Seq(StoredTxn)
    /\ transactions_table = {transaction_row(r) : r \in Listed(records)}
    /\ DistinctIds(records)

LEMMA TransactionInit == Init => TransactionInv
BY StorageBounds DEF Init, TransactionInv, DistinctIds, Listed

LEMMA PaymentsAreRecorded ==
    ASSUME NEW x \in Payments, NEW id \in 0..(HalfRange - 1), NEW t \in Nat
    PROVE  Record(id, t, x, "Committed") \in StoredTxn
<1>1. x \in Transaction
  BY PaymentsAssumption
<1>2. /\ x.type \in TransactionType /\ x.amount \in Money
      /\ debit_account(x) \in AnyLeg /\ credit_account(x) \in AnyLeg
  <2>1. CASE x \in Deposit
    BY <2>1 DEF Deposit, TransactionType, debit_account, credit_account, AnyLeg
  <2>2. CASE x \in Withdraw
    BY <2>2 DEF Withdraw, TransactionType, debit_account, credit_account, AnyLeg
  <2>3. CASE x \in Transfer
    BY <2>3 DEF Transfer, TransactionType, debit_account, credit_account, AnyLeg
  <2> QED
    BY <1>1, <2>1, <2>2, <2>3 DEF Transaction
<1>3. "Committed" \in TransactionState
  BY DEF TransactionState
<1> QED
  BY <1>2, <1>3 DEF Record, StoredTxn

LEMMA TransactionStep ==
    ASSUME TransactionInv, [Next]_vars
    PROVE  TransactionInv'
<1>1. ASSUME NEW x \in Payments, NEW t \in 0..MaxTime, TakeId(x, t)
      PROVE  TransactionInv'
  <2>1. next_id \in 0..(HalfRange - 1) /\ next_id' \in 1..(MaxId + 1)
    BY <1>1, StorageBounds, CodecAssumption DEF TakeId, TransactionInv
  <2>2. Record(next_id, t, x, "Committed") \in StoredTxn
    <3>1. t \in Nat
      BY StorageBounds
    <3> QED
      BY <2>1, <3>1, PaymentsAreRecorded
  <2> QED
    BY <1>1, <2>1, <2>2 DEF TakeId, TransactionInv
<1>2. ASSUME NEW r \in running, append_transaction(r) PROVE TransactionInv'
  <2>1. r \in StoredTxn /\ records \in Seq(StoredTxn) /\ records' = Append(records, r)
    BY <1>2 DEF TransactionInv, append_transaction
  <2>2. records' \in Seq(StoredTxn) /\ Listed(records') = Listed(records) \cup {r}
    BY <2>1, ListedGrows
  <2>3. transactions_table' = {transaction_row(q) : q \in Listed(records')}
    BY <1>2, <2>2 DEF TransactionInv, append_transaction
  <2>4. \A i \in DOMAIN records : records[i].id # r.id
    <3>1. ASSUME NEW i \in DOMAIN records PROVE records[i].id # r.id
      <4>1. records[i] \in Listed(records)
        BY DEF Listed
      <4>2. transaction_row(records[i]) \in transactions_table
        BY <4>1 DEF TransactionInv
      <4>3. transaction_row(records[i]).id = to_i64(records[i].id)
        BY DEF transaction_row
      <4> QED
        BY <1>2, <4>2, <4>3 DEF append_transaction
    <3> QED
      BY <3>1
  <2>5. DistinctIds(records')
    <3>1. /\ Len(records) \in Nat /\ DOMAIN records = 1..Len(records)
          /\ DOMAIN records' = 1..(Len(records) + 1)
          /\ records'[Len(records) + 1] = r
          /\ \A i \in DOMAIN records : records'[i] = records[i]
      BY <2>1
    <3>2. \A i \in DOMAIN records' : i \in DOMAIN records \/ i = Len(records) + 1
      BY <3>1
    <3> QED
      BY <2>4, <3>1, <3>2 DEF DistinctIds, TransactionInv
  <2> QED
    BY <1>2, <2>2, <2>3, <2>5 DEF TransactionInv, append_transaction
<1>3. ASSUME NEW r \in running, CallFails(r) PROVE TransactionInv'
  BY <1>3 DEF CallFails, TransactionInv
<1>4. CASE UNCHANGED transactionVars
  BY <1>4 DEF transactionVars, TransactionInv
<1> QED
  BY <1>1, <1>2, <1>3, <1>4, StepKinds

\* What SQLite stores of a leg, and how a query compares it.
LEMMA LegStored ==
    ASSUME NEW b \in AnyLeg, NEW a \in AccountId
    PROVE  /\ read_integer_id(bind_integer_id(b)) = b
           /\ bind_integer_id(b) = to_i64(a) <=> b = a
<1>1. a \in Id /\ a # NoAccount
  BY AccountIdAssumption, NoAccountAssumption DEF Id
<1>2. to_i64(a) # Nothing
  BY <1>1, Casts, NothingAssumption
<1>3. CASE b = NoAccount
  BY <1>1, <1>2, <1>3 DEF bind_integer_id, read_integer_id
<1>4. CASE b # NoAccount
  <2>1. b \in Id
    BY <1>4, AccountIdAssumption DEF AnyLeg, Id
  <2>2. to_i64(b) # Nothing
    BY <2>1, Casts, NothingAssumption
  <2> QED
    BY <1>1, <1>4, <2>1, <2>2, Casts, CastsApart DEF bind_integer_id, read_integer_id
<1> QED
  BY <1>3, <1>4

LEMMA RowStored ==
    ASSUME NEW r \in StoredTxn, NEW a \in AccountId
    PROVE  LET row == transaction_row(r)
           IN  /\ row.id = r.id
               /\ read_transaction(row) = Truncated(r)
               /\ (row.from_id = to_i64(a) \/ row.to_id = to_i64(a)) <=> Names(r, a)
<1> DEFINE row == transaction_row(r)
<1>1. /\ r.from \in AnyLeg /\ r.to \in AnyLeg
      /\ r.type \in TransactionType /\ r.state \in TransactionState
      /\ r.id \in 0..(HalfRange - 1)
      /\ Truncated(r) = [id |-> r.id,
                         timestamp |-> from_unix_ms(to_unix_ms(r.timestamp)),
                         type |-> r.type, state |-> r.state, from |-> r.from,
                         to |-> r.to, amount |-> r.amount]
  BY DEF StoredTxn, Truncated
<1>2. /\ row.id = to_i64(r.id) /\ row.timestamp_ms = to_unix_ms(r.timestamp)
      /\ row.type = TypeText[r.type] /\ row.state = StateText[r.state]
      /\ row.from_id = bind_integer_id(r.from)
      /\ row.to_id = bind_integer_id(r.to) /\ row.amount_cents = r.amount
  BY DEF transaction_row
<1>3. to_i64(r.id) = r.id /\ to_u64(r.id) = r.id
  BY <1>1, CodecAssumption DEF to_i64, to_u64
<1>4. /\ FromText(TypeText, TypeText[r.type]) = r.type
      /\ FromText(StateText, StateText[r.state]) = r.state
  BY <1>1, TextForms
<1>5. /\ read_integer_id(bind_integer_id(r.from)) = r.from
      /\ read_integer_id(bind_integer_id(r.to)) = r.to
      /\ bind_integer_id(r.from) = to_i64(a) <=> r.from = a
      /\ bind_integer_id(r.to) = to_i64(a) <=> r.to = a
  BY <1>1, LegStored
<1> HIDE DEF row
<1>6. read_transaction(row) = Truncated(r)
  BY <1>1, <1>2, <1>3, <1>4, <1>5 DEF read_transaction
<1> QED
  BY <1>2, <1>3, <1>5, <1>6 DEF row, Names

\* SqliteTransactionRepository::for_account gives back what the in-memory one
\* does, in the order of the ids.
LEMMA HistoriesAgree ==
    ASSUME TransactionInv, NEW a \in AccountId
    PROVE  LET memory == MemoryHistory(a)
               sqlite == SqliteHistory(a)
           IN  /\ Listed(sqlite) = {Truncated(r) : r \in Listed(memory)}
               /\ Len(sqlite) = Len(memory)
               /\ \A i, j \in DOMAIN sqlite : i < j => sqlite[i].id < sqlite[j].id
<1> DEFINE P == Picked(records, a, Len(records))
           S == SelectedRows(a)
           rows == OrderById(S)
<1>1. PICK f : IsHistory(f, records, a) /\ MemoryHistory(a) = f[Len(records)]
  <2> DEFINE h == CHOOSE f : IsHistory(f, records, a)
  <2>1. \E f : IsHistory(f, records, a)
    BY HistoryExists DEF TransactionInv
  <2>2. IsHistory(h, records, a)
    BY <2>1
  <2>3. MemoryHistory(a) = h[Len(records)]
    BY DEF MemoryHistory, IsHistory, Names
  <2> QED
    BY <2>2, <2>3
<1>2. /\ Listed(MemoryHistory(a)) = P /\ IsFiniteSet(P)
      /\ Len(MemoryHistory(a)) = Cardinality(P)
  BY <1>1, HistoryMeaning DEF TransactionInv
<1>3. P = {r \in Listed(records) : Names(r, a)} /\ P \subseteq StoredTxn
  BY DEF TransactionInv, Picked, Listed
<1>4. S = {transaction_row(r) : r \in P}
  <2>1. \A r \in Listed(records) : r \in StoredTxn
    BY DEF TransactionInv, Listed
  <2> QED
    BY <1>3, <2>1, RowStored DEF SelectedRows, TransactionInv
<1>5. \A r, q \in P : r.id = q.id => r = q
  BY DEF TransactionInv, DistinctIds, Picked
<1>6. /\ IsFiniteSet(S) /\ Cardinality(S) = Cardinality(P)
  <2> DEFINE g == [r \in P |-> transaction_row(r)]
  <2>1. \A r, q \in P : g[r] = g[q] => r = q
    <3>1. \A r \in P : g[r].id = r.id
      BY <1>3, RowStored
    <3> QED
      BY <1>5, <3>1
  <2>2. g \in Bijection(P, S)
    BY <1>4, <2>1 DEF Bijection, Injection, Surjection, IsInjective
  <2> QED
    BY <1>2, <2>2, FS_Bijection DEF ExistsBijection
<1>7. Keyed(S)
  <2>1. \A r \in P : transaction_row(r).id = r.id /\ r.id \in Nat
    BY <1>3, RowStored, CodecAssumption DEF StoredTxn
  <2> QED
    BY <1>4, <1>5, <1>6, <2>1 DEF Keyed
<1>8. InOrder(rows, S)
  BY <1>7, OrderByIdMeaning
<1>9. SqliteHistory(a) = [i \in 1..Cardinality(S) |-> read_transaction(rows[i])]
  BY <1>8 DEF SqliteHistory, InOrder
<1>10. Len(SqliteHistory(a)) = Cardinality(S)
  <2>1. Cardinality(S) \in Nat
    BY <1>6, FS_CardinalityType
  <2> HIDE DEF rows, S
  <2> QED
    BY <1>9, <2>1
<1>11. Listed(SqliteHistory(a)) = {Truncated(r) : r \in P}
  <2>1. Listed(SqliteHistory(a)) = {read_transaction(q) : q \in S}
    BY <1>8, <1>9 DEF Listed, InOrder
  <2>2. \A r \in P : read_transaction(transaction_row(r)) = Truncated(r)
    BY <1>3, RowStored
  <2> QED
    BY <1>4, <2>1, <2>2
<1>12. \A i, j \in DOMAIN SqliteHistory(a) :
          i < j => SqliteHistory(a)[i].id < SqliteHistory(a)[j].id
  <2>1. \A q \in S : read_transaction(q).id = q.id
    <3>1. \A r \in P : transaction_row(r).id = r.id /\ Truncated(r).id = r.id
      BY <1>3, RowStored DEF StoredTxn, Truncated
    <3>2. \A r \in P : read_transaction(transaction_row(r)) = Truncated(r)
      BY <1>3, RowStored
    <3> QED
      BY <1>4, <3>1, <3>2
  <2>2. DOMAIN rows = 1..Cardinality(S) /\ \A i \in DOMAIN rows : rows[i] \in S
    BY <1>8 DEF InOrder
  <2>3. \A i, j \in DOMAIN rows : i < j => rows[i].id < rows[j].id
    BY <1>8 DEF InOrder
  <2> HIDE DEF rows, S
  <2> QED
    BY <1>9, <2>1, <2>2, <2>3
<1> QED
  BY <1>2, <1>6, <1>10, <1>11, <1>12

\* What the stores of the transactions hold, in every state.
THEOREM TransactionStoresAgree == Spec => []TransactionInv
BY TransactionInit, TransactionStep, PTL DEF Spec

\* TransactionRepository::for_account: whichever engine is live, an account is
\* shown the same transactions with the same fields (timestamps to the
\* millisecond), none lost and none of another account; SQLite's in the order of
\* their ids.
THEOREM HistoriesAreTheSame == Spec => []SameTransactions
<1>1. TransactionInv => SameTransactions
  BY HistoriesAgree DEF SameTransactions
<1> QED
  BY <1>1, TransactionStoresAgree, PTL

-----------------------------------------------------------------------------
(* The two audit trails.                                                   *)

Entry == [id : Id, timestamp : Nat, actor_id : Actor]

AuditInv ==
    /\ next_audit_id \in 1..(MaxEntries + 1) /\ now \in Nat
    /\ stamped \subseteq Entry
    /\ entries \in Seq(Entry)
    /\ audit_log = {audit_row(e) : e \in Listed(entries)}

LEMMA AuditInit == Init => AuditInv
BY StorageBounds DEF Init, AuditInv, Listed

LEMMA AuditStep ==
    ASSUME AuditInv, [Next]_vars
    PROVE  AuditInv'
<1>1. ASSUME NEW who \in Actor, Stamp(who) PROVE AuditInv'
  <2>1. next_audit_id \in Id /\ next_audit_id' \in 1..(MaxEntries + 1)
    BY <1>1, StorageBounds, CodecAssumption DEF Stamp, AuditInv, Id
  <2>2. [id |-> next_audit_id, timestamp |-> now, actor_id |-> who] \in Entry
    BY <2>1 DEF AuditInv, Entry
  <2> QED
    BY <1>1, <2>1, <2>2 DEF Stamp, AuditInv
<1>2. ASSUME NEW e \in stamped, append_entry(e) PROVE AuditInv'
  <2>1. e \in Entry /\ entries \in Seq(Entry) /\ entries' = Append(entries, e)
    BY <1>2 DEF AuditInv, append_entry
  <2>2. entries' \in Seq(Entry) /\ Listed(entries') = Listed(entries) \cup {e}
    BY <2>1, ListedGrows
  <2>3. audit_log' = {audit_row(q) : q \in Listed(entries')}
    BY <1>2, <2>2 DEF AuditInv, append_entry
  <2> QED
    BY <1>2, <2>2, <2>3 DEF AuditInv, append_entry
<1>3. CASE Tick
  BY <1>3 DEF Tick, AuditInv
<1>4. CASE UNCHANGED auditVars
  BY <1>4 DEF auditVars, AuditInv
<1> QED
  BY <1>1, <1>2, <1>3, <1>4, StepKinds

\* AuditRepository::find({actor, since}).
LEMMA FindsAgree ==
    ASSUME AuditInv, NEW who \in Actor \cup {Nothing}, NEW since \in Nat \cup {Nothing}
    PROVE  LET asked == IF since = Nothing THEN Nothing
                        ELSE from_unix_ms(to_unix_ms(since))
           IN  SqliteFind(who, since) = {Truncated(e) : e \in MemoryFind(who, asked)}
<1> DEFINE asked == IF since = Nothing THEN Nothing ELSE from_unix_ms(to_unix_ms(since))
           Found(e) == /\ who # Nothing => who = e.actor_id
                       /\ asked # Nothing => ~(e.timestamp < asked)
           Selected(q) == /\ who # Nothing => q.actor_id = who
                          /\ since # Nothing => q.timestamp_ms >= to_unix_ms(since)
<1>1. entries \in Seq(Entry) /\ \A e \in Listed(entries) : e \in Entry
  BY DEF AuditInv, Listed
<1>2. ASSUME NEW e \in Entry
      PROVE  /\ read_audit(audit_row(e)) = Truncated(e)
             /\ Selected(audit_row(e)) <=> Found(e)
  <2>1. /\ e.id \in Id /\ e.timestamp \in Nat
        /\ Truncated(e) = [id |-> e.id, actor_id |-> e.actor_id,
                           timestamp |-> from_unix_ms(to_unix_ms(e.timestamp))]
    BY DEF Entry, Truncated
  <2>2. /\ audit_row(e).id = to_i64(e.id) /\ audit_row(e).actor_id = e.actor_id
        /\ audit_row(e).timestamp_ms = to_unix_ms(e.timestamp)
    BY DEF audit_row
  <2>3. read_audit(audit_row(e)) = Truncated(e)
    BY <2>1, <2>2, Casts DEF read_audit
  <2>4. CASE since = Nothing
    BY <2>2, <2>3, <2>4
  <2>5. CASE since # Nothing
    <3>1. since \in Nat /\ asked \in Nat /\ asked # Nothing
      BY <2>5, MillisecondsCut, NothingAssumption
    <3>2. e.timestamp >= asked <=> to_unix_ms(e.timestamp) >= to_unix_ms(since)
      BY <2>1, <2>5, <3>1, MillisecondsCut
    <3>3. ~(e.timestamp < asked) <=> e.timestamp >= asked
      BY <2>1, <3>1
    <3> HIDE DEF asked
    <3> QED
      BY <2>2, <2>3, <2>5, <3>1, <3>2, <3>3
  <2> QED
    BY <2>4, <2>5
<1>3. MemoryFind(who, asked) = {e \in Listed(entries) : Found(e)}
  BY DEF MemoryFind, Listed
<1>4. SqliteFind(who, since) = {read_audit(q) : q \in {q \in audit_log : Selected(q)}}
  BY DEF SqliteFind
<1>5. audit_log = {audit_row(e) : e \in Listed(entries)}
  BY DEF AuditInv
<1> HIDE DEF Found, Selected, asked
<1>6. SqliteFind(who, since) = {Truncated(e) : e \in {e \in Listed(entries) : Found(e)}}
  BY <1>1, <1>2, <1>4, <1>5
<1> QED
  BY <1>3, <1>6 DEF asked

\* What the stores of the audit trail hold, in every state.
THEOREM AuditTrailsAgree == Spec => []AuditInv
BY AuditInit, AuditStep, PTL DEF Spec

\* AuditRepository::find: SQLite answers a query since some time like the
\* in-memory engine one since the beginning of that time's millisecond.
THEOREM FindsStartAtTheMillisecond == Spec => []FindsSinceItsMillisecond
<1>1. ASSUME AuditInv PROVE FindsSinceItsMillisecond
  <2>1. \A since \in (0..MaxTime) \cup {Nothing} : since \in Nat \cup {Nothing}
    BY StorageBounds
  <2> QED
    BY <1>1, <2>1, FindsAgree DEF FindsSinceItsMillisecond
<1> QED
  BY <1>1, AuditTrailsAgree, PTL

-----------------------------------------------------------------------------
(* PINs.                                                                   *)

LEMMA Nibbles ==
    ASSUME NEW d \in 0..15
    PROVE  /\ hex(d) \in HexDigit /\ nibble(hex(d)) = d
           /\ hex(d) > 96 => hex(d) - 32 \in HexDigit /\ nibble(hex(d) - 32) = d
BY DEF hex, nibble, HexDigit

LEMMA ByteAt ==
    ASSUME NEW bytes \in Seq(0..255), NEW i \in 1..Len(bytes)
    PROVE  bytes[i] \in 0..255
<1>1. \A S : \A s \in Seq(S) : \A k \in 1..Len(s) : s[k] \in S
  OBVIOUS
<1> QED
  BY <1>1

LEMMA HexHalves ==
    ASSUME NEW b \in 0..255
    PROVE  /\ b \div 16 \in 0..15 /\ b % 16 \in 0..15
           /\ 16 * (b \div 16) + (b % 16) = b
<1>1. b \in Int /\ 0 <= b /\ b <= 255
  OBVIOUS
<1>2. b % 16 \in 0..15
  BY <1>1
<1>3. b \div 16 \in Int /\ 16 * (b \div 16) + (b % 16) = b
  BY <1>1
<1>4. b \div 16 \in 0..15
  BY <1>1, <1>2, <1>3
<1> QED
  BY <1>2, <1>3, <1>4

LEMMA HexDigits ==
    ASSUME NEW bytes \in Seq(0..255)
    PROVE  LET h == bytes_to_hex(bytes)
           IN  /\ Len(h) = 2 * Len(bytes) /\ DOMAIN h = 1..(2 * Len(bytes))
               /\ \A i \in 1..Len(bytes) :
                     /\ h[2 * i - 1] = hex(bytes[i] \div 16)
                     /\ h[2 * i] = hex(bytes[i] % 16)
<1> DEFINE n == Len(bytes)
           h == bytes_to_hex(bytes)
<1>1. n \in Nat
  OBVIOUS
<1>2. h = [i \in 1..(2 * n) |->
             IF i % 2 = 1 THEN hex(bytes[(i + 1) \div 2] \div 16)
             ELSE hex(bytes[i \div 2] % 16)]
  BY DEF bytes_to_hex
<1>3. ASSUME NEW i \in 1..n
      PROVE  h[2 * i - 1] = hex(bytes[i] \div 16) /\ h[2 * i] = hex(bytes[i] % 16)
  <2>1. /\ 2 * i - 1 \in 1..(2 * n) /\ 2 * i \in 1..(2 * n)
        /\ (2 * i - 1) % 2 = 1 /\ (2 * i) % 2 = 0
        /\ ((2 * i - 1) + 1) \div 2 = i /\ (2 * i) \div 2 = i
    BY <1>1
  <2> HIDE DEF n, h
  <2> QED
    BY <1>2, <2>1
<1>4. Len(h) = 2 * n /\ DOMAIN h = 1..(2 * n)
  <2> HIDE DEF n
  <2> QED
    BY <1>1, <1>2
<1> QED
  BY <1>3, <1>4

\* hex_to_bytes undoes bytes_to_hex, whichever case the digits are in.
LEMMA HexRoundTrip ==
    ASSUME NEW bytes \in Seq(0..255), NEW text, Spells(text, bytes_to_hex(bytes))
    PROVE  ~hex_throws(text) /\ hex_to_bytes(text) = bytes
<1> DEFINE n == Len(bytes)
           h == bytes_to_hex(bytes)
<1>1. /\ n \in Nat /\ text \in Seq(0..255) /\ Len(text) = 2 * n
      /\ DOMAIN h = 1..(2 * n) /\ DOMAIN text = 1..(2 * n)
      /\ \A i \in 1..(2 * n) :
            text[i] = h[i] \/ (h[i] > 96 /\ text[i] = h[i] - 32)
  <2>1. n \in Nat /\ Len(h) = 2 * n /\ DOMAIN h = 1..(2 * n)
    BY HexDigits
  <2> HIDE DEF n, h
  <2>2. text \in Seq(0..255) /\ Len(text) = Len(h)
    BY DEF Spells, h
  <2>3. DOMAIN text = 1..(2 * n)
    BY <2>1, <2>2
  <2>4. \A i \in DOMAIN h : text[i] = h[i] \/ (h[i] > 96 /\ text[i] = h[i] - 32)
    BY DEF Spells, h
  <2> QED
    BY <2>1, <2>2, <2>3, <2>4
<1>2. ASSUME NEW i \in 1..n
      PROVE  /\ text[2 * i - 1] \in HexDigit /\ nibble(text[2 * i - 1]) = bytes[i] \div 16
             /\ text[2 * i] \in HexDigit /\ nibble(text[2 * i]) = bytes[i] % 16
  <2>1. bytes[i] \in 0..255
    BY ByteAt
  <2>2. bytes[i] \div 16 \in 0..15 /\ bytes[i] % 16 \in 0..15
    BY <2>1, HexHalves
  <2>3. h[2 * i - 1] = hex(bytes[i] \div 16) /\ h[2 * i] = hex(bytes[i] % 16)
    BY HexDigits
  <2>4. 2 * i - 1 \in 1..(2 * n) /\ 2 * i \in 1..(2 * n)
    BY <1>1
  <2> HIDE DEF h, n
  <2>5. text[2 * i - 1] \in HexDigit /\ nibble(text[2 * i - 1]) = bytes[i] \div 16
    <3>1. \/ text[2 * i - 1] = hex(bytes[i] \div 16)
          \/ /\ hex(bytes[i] \div 16) > 96
             /\ text[2 * i - 1] = hex(bytes[i] \div 16) - 32
      BY <1>1, <2>3, <2>4
    <3> QED
      BY <2>2, <3>1, Nibbles
  <2>6. text[2 * i] \in HexDigit /\ nibble(text[2 * i]) = bytes[i] % 16
    <3>1. \/ text[2 * i] = hex(bytes[i] % 16)
          \/ hex(bytes[i] % 16) > 96 /\ text[2 * i] = hex(bytes[i] % 16) - 32
      BY <1>1, <2>3, <2>4
    <3> QED
      BY <2>2, <3>1, Nibbles
  <2> QED
    BY <2>5, <2>6
<1>3. \A k \in 1..(2 * n) : text[k] \in HexDigit
  <2>1. ASSUME NEW k \in 1..(2 * n) PROVE \E i \in 1..n : k = 2 * i - 1 \/ k = 2 * i
    <3>1. CASE k % 2 = 0
      <4>1. k \div 2 \in 1..n /\ k = 2 * (k \div 2)
        BY <1>1, <3>1
      <4> QED
        BY <4>1
    <3>2. CASE k % 2 = 1
      <4>1. n \in Nat /\ k \in Nat /\ k <= 2 * n
        BY <1>1
      <4> HIDE DEF n
      <4>2. (k + 1) \div 2 \in 1..n
        BY <3>2, <4>1
      <4>3. k = 2 * ((k + 1) \div 2) - 1
        BY <3>2, <4>1
      <4> QED
        BY <4>2, <4>3
    <3> QED
      BY <1>1, <3>1, <3>2
  <2> HIDE DEF n
  <2> QED
    BY <1>2, <2>1
<1>4. ~hex_throws(text)
  <2>1. Len(text) % 2 = 0
    BY <1>1
  <2> QED
    BY <1>1, <1>3, <2>1 DEF hex_throws
<1>5. hex_to_bytes(text) = bytes
  <2>1. Len(text) \div 2 = n
    BY <1>1
  <2>2. \A i \in 1..n : 16 * nibble(text[2 * i - 1]) + nibble(text[2 * i]) = bytes[i]
    <3>1. ASSUME NEW i \in 1..n
          PROVE  16 * (bytes[i] \div 16) + (bytes[i] % 16) = bytes[i]
      <4>1. bytes[i] \in 0..255
        BY ByteAt
      <4> QED
        BY <4>1, HexHalves
    <3>2. ASSUME NEW i \in 1..n
          PROVE  16 * nibble(text[2 * i - 1]) + nibble(text[2 * i]) = bytes[i]
      <4>1. nibble(text[2 * i - 1]) = bytes[i] \div 16
        BY <1>2
      <4>2. nibble(text[2 * i]) = bytes[i] % 16
        BY <1>2
      <4> QED
        BY <3>1, <4>1, <4>2
    <3> QED
      BY <3>2
  <2>3. bytes = [i \in 1..n |-> bytes[i]]
    OBVIOUS
  <2> HIDE DEF n
  <2> QED
    BY <2>1, <2>2, <2>3 DEF hex_to_bytes
<1> QED
  BY <1>4, <1>5

\* verify accepts the PIN the hash was made of, and no other.
LEMMA PinsAreChecked ==
    ASSUME NEW who \in People, NEW p \in Pin
    PROVE  verify(p, who.pin_hash) <=> p = who.pin
<1>1. ASSUME NEW salt \in Salts, IsHash(who.pin_hash, who.pin, salt)
      PROVE  verify(p, who.pin_hash) <=> p = who.pin
  <2>1. salt \in Seq(0..255)
    BY PeopleAssumption
  <2>2. /\ who.pin_hash.algorithm = AlgorithmName
        /\ who.pin_hash.digest = <<who.pin, salt>>
        /\ Spells(who.pin_hash.salt, bytes_to_hex(salt))
    BY <1>1 DEF IsHash, derive
  <2>3. /\ ~hex_throws(who.pin_hash.salt)
        /\ hex_to_bytes(who.pin_hash.salt) = salt
    BY <2>1, <2>2, HexRoundTrip
  <2>4. derive(p, salt).digest = <<p, salt>>
    BY DEF derive
  <2>5. <<who.pin, salt>> # NoDigest
    BY DEF NoDigest
  <2>6. <<p, salt>> = <<who.pin, salt>> <=> p = who.pin
    OBVIOUS
  <2> QED
    BY <2>2, <2>3, <2>4, <2>5, <2>6 DEF verify
<1>2. CASE who.pin \notin Pin /\ Malformed(who.pin_hash)
  BY <1>2 DEF Malformed, verify
<1> QED
  BY <1>1, <1>2, PeopleAssumption

\* No salt of a stored hash is cut short by column_text.
LEMMA SaltsAreKept ==
    ASSUME NEW who \in People
    PROVE  column_text(who.pin_hash.salt) = who.pin_hash.salt
<1> DEFINE t == who.pin_hash.salt
<1>1. ASSUME NEW salt \in Salts, IsHash(who.pin_hash, who.pin, salt)
      PROVE  \A i \in DOMAIN t : t[i] # 0
  <2>1. salt \in Seq(0..255)
    BY PeopleAssumption
  <2>2. Spells(t, bytes_to_hex(salt))
    BY <1>1 DEF IsHash, derive
  <2>3. \A i \in DOMAIN t : t[i] \in HexDigit
    BY <2>1, <2>2, HexRoundTrip DEF hex_throws
  <2> QED
    BY <2>3 DEF HexDigit
<1>2. \A i \in DOMAIN t : t[i] # 0
  BY <1>1, PeopleAssumption
<1> QED
  BY <1>2 DEF column_text

-----------------------------------------------------------------------------
(* Customers.                                                              *)

\* The table holds the customers of the map, row for row.
CustomerInv ==
    /\ DOMAIN customers \subseteq CustomerId
    /\ \A c \in DOMAIN customers : customers[c] \in People
    /\ customers_table = {customer_row(c, customers[c]) : c \in DOMAIN customers}

LEMMA CustomerInit == Init => CustomerInv
BY DEF Init, CustomerInv

LEMMA CustomerStep ==
    ASSUME CustomerInv, [Next]_vars
    PROVE  CustomerInv'
<1>1. ASSUME NEW c \in CustomerId, NEW who \in People, save_customer(c, who)
      PROVE  CustomerInv'
  <2>1. /\ DOMAIN customers' = DOMAIN customers \cup {c}
        /\ customers'[c] = who
        /\ \A j \in DOMAIN customers \ {c} : customers'[j] = customers[j]
    BY <1>1 DEF save_customer, Assigned
  <2>2. customers_table' = {q \in customers_table : q.id # to_i64(c)}
                              \cup {customer_row(c, who)}
    BY <1>1 DEF save_customer, Upserted, customer_row
  <2>3. \A j \in DOMAIN customers : customer_row(j, customers[j]).id = to_i64(c) <=> j = c
    <3>1. \A j \in DOMAIN customers : to_i64(j) = to_i64(c) => j = c
      BY CastsApart, IdsAssumption DEF CustomerInv
    <3> QED
      BY <3>1 DEF customer_row
  <2>4. {q \in customers_table : q.id # to_i64(c)}
          = {customer_row(j, customers[j]) : j \in DOMAIN customers \ {c}}
    BY <2>3 DEF CustomerInv
  <2>5. customers_table' = {customer_row(j, customers'[j]) : j \in DOMAIN customers'}
    BY <2>1, <2>2, <2>4
  <2> QED
    BY <2>1, <2>5 DEF CustomerInv
<1>2. CASE UNCHANGED <<customers, customers_table>>
  BY <1>2 DEF CustomerInv
<1>3. ASSUME NEW a \in SavedId, NEW row \in Rows, NEW c \in CustomerId, save(a, row, c)
      PROVE  UNCHANGED <<customers, customers_table>>
  BY <1>3 DEF save
<1>4. ASSUME NEW a \in SavedId, remove(a)
      PROVE  UNCHANGED <<customers, customers_table>>
  BY <1>4 DEF remove
<1> QED
  BY <1>1, <1>2, <1>3, <1>4, StepKinds DEF accountVars

\* A row is read back as the customer it was written from.
LEMMA CustomerRead ==
    ASSUME NEW c \in CustomerId, NEW who \in People
    PROVE  LET r == customer_row(c, who)
           IN  /\ to_u64(r.id) = c
               /\ read_customer(r) =
                     [id |-> c, role |-> who.role,
                      pin_hash |-> [algorithm |-> who.pin_hash.algorithm,
                                    salt |-> who.pin_hash.salt,
                                    digest |-> who.pin_hash.digest]]
<1>1. to_u64(to_i64(c)) = c
  BY Casts, IdsAssumption
<1>2. who.role \in DOMAIN RoleText
  BY PeopleAssumption
<1>3. role_from_string(RoleText[who.role]) = who.role
  BY <1>2 DEF RoleText, role_from_string
<1> QED
  BY <1>1, <1>3, SaltsAreKept DEF customer_row, read_customer

\* What both engines hold of the customers, in every state.
THEOREM CustomerStoresAgree == Spec => []CustomerInv
BY CustomerInit, CustomerStep, PTL DEF Spec

\* CustomerRepository and PasswordHasher: the engines find the same customers,
\* and a login passes with a customer's own PIN only.
THEOREM CustomersAreTheSame == Spec => []SameCustomers
<1>1. ASSUME CustomerInv PROVE SameCustomers
  <2>1. ASSUME NEW c \in DOMAIN customers
        PROVE  LET r     == customer_row(c, customers[c])
                   found == read_customer(r)
               IN  /\ to_u64(r.id) = c /\ found.id = c
                   /\ \A k \in {"algorithm", "salt", "digest"} :
                         found.pin_hash[k] = customers[c].pin_hash[k]
                   /\ found.role = customers[c].role
                   /\ \A p \in Pin : verify(p, found.pin_hash) <=> p = customers[c].pin
    <3>1. c \in CustomerId /\ customers[c] \in People
      BY <1>1 DEF CustomerInv
    <3>2. \A p \in Pin : verify(p, customers[c].pin_hash) <=> p = customers[c].pin
      BY <3>1, PinsAreChecked
    <3>3. LET found == read_customer(customer_row(c, customers[c]))
          IN  /\ found.id = c /\ found.role = customers[c].role
              /\ found.pin_hash.algorithm = customers[c].pin_hash.algorithm
              /\ found.pin_hash.salt = customers[c].pin_hash.salt
              /\ found.pin_hash.digest = customers[c].pin_hash.digest
      BY <3>1, CustomerRead
    <3>4. \A p \in Pin :
             verify(p, read_customer(customer_row(c, customers[c])).pin_hash)
                <=> verify(p, customers[c].pin_hash)
      BY <3>3 DEF verify
    <3> QED
      BY <3>1, <3>2, <3>3, <3>4, CustomerRead
  <2>2. DOMAIN customers = {to_u64(r.id) : r \in customers_table}
    BY <1>1, <2>1 DEF CustomerInv
  <2>3. ASSUME NEW r \in customers_table
        PROVE  LET found == read_customer(r)
                   who   == customers[found.id]
               IN  /\ found.role = who.role
                   /\ \A k \in {"algorithm", "salt", "digest"} :
                         found.pin_hash[k] = who.pin_hash[k]
                   /\ \A p \in Pin : verify(p, found.pin_hash) <=> p = who.pin
    <3>1. PICK c \in DOMAIN customers : r = customer_row(c, customers[c])
      BY <1>1 DEF CustomerInv
    <3> QED
      BY <2>1, <3>1
  <2> QED
    BY <2>2, <2>3 DEF SameCustomers
<1> QED
  BY <1>1, CustomerStoresAgree, PTL

-----------------------------------------------------------------------------
(* Accounts.                                                               *)

\* The row of an account of the map.
RowOf(a) == account_row(a, accounts[a], accounts[a].owner)

\* The table is keyed by the ids of the map's accounts, and holds the row of
\* every one of them whose last save was not refused.
AccountInv ==
    /\ DOMAIN accounts \subseteq SavedId /\ IsFiniteSet(DOMAIN accounts)
    /\ \A a \in DOMAIN accounts :
          /\ accounts[a].owner \in CustomerId
          /\ accounts[a].status \in AccountStatus /\ accounts[a].version \in Id
    /\ refused \subseteq DOMAIN accounts
    /\ Keyed(accounts_table)
    /\ \A r \in accounts_table : \E a \in DOMAIN accounts : r.id = to_i64(a)
    /\ \A a \in DOMAIN accounts \ refused : RowOf(a) \in accounts_table

LEMMA AccountInit == Init => AccountInv
BY FS_EmptySet DEF Init, AccountInv, Keyed

LEMMA SaveKeepsAccounts ==
    ASSUME AccountInv, NEW a \in SavedId, NEW row \in Rows, NEW c \in CustomerId,
           save(a, row, c)
    PROVE  AccountInv'
<1> DEFINE account == [owner |-> c, balance |-> row.balance, status |-> row.status,
                       version |-> row.version]
           new == account_row(a, row, c)
<1>1. /\ DOMAIN accounts' = DOMAIN accounts \cup {a}
      /\ accounts'[a] = account
      /\ \A b \in DOMAIN accounts \ {a} : accounts'[b] = accounts[b]
  BY DEF save, Assigned
<1>2. DOMAIN accounts' \subseteq SavedId /\ IsFiniteSet(DOMAIN accounts')
  BY <1>1, FS_AddElement DEF AccountInv
<1>3. \A b \in DOMAIN accounts' :
         /\ accounts'[b].owner \in CustomerId
         /\ accounts'[b].status \in AccountStatus /\ accounts'[b].version \in Id
  <2>1. /\ accounts'[a].owner = c /\ accounts'[a].status = row.status
        /\ accounts'[a].version = row.version
    BY <1>1
  <2> QED
    BY <1>1, <2>1, RowsAssumption DEF AccountInv
<1>4. \A b \in DOMAIN accounts : to_i64(b) = to_i64(a) => b = a
  BY CastsApart, IdsAssumption DEF AccountInv
<1>5. RowOf(a)' = new /\ new.id = to_i64(a)
  BY <1>1 DEF RowOf, account_row
<1>6. \A b \in DOMAIN accounts \ {a} : RowOf(b)' = RowOf(b)
  BY <1>1 DEF RowOf
<1>7. CASE OwnerKnown(c)
  <2> DEFINE kept == {q \in accounts_table : q.id # to_i64(a)}
  <2>1. accounts_table' = kept \cup {new} /\ refused' = refused \ {a}
    BY <1>5, <1>7 DEF save, Upserted
  <2>2. Keyed(accounts_table')
    <3>1. IsFiniteSet(kept \cup {new})
      BY FS_Subset, FS_AddElement DEF AccountInv, Keyed
    <3>2. to_i64(a) \in Int
      BY Casts, IdsAssumption, CodecAssumption
    <3> QED
      BY <1>5, <2>1, <3>1, <3>2 DEF AccountInv, Keyed
  <2>3. \A r \in accounts_table' : \E b \in DOMAIN accounts' : r.id = to_i64(b)
    BY <1>1, <1>5, <2>1 DEF AccountInv
  <2>4. ASSUME NEW b \in DOMAIN accounts' \ refused'
        PROVE  RowOf(b)' \in accounts_table'
    <3>1. CASE b = a
      BY <1>5, <2>1, <3>1
    <3>2. CASE b # a
      <4>1. RowOf(b) \in accounts_table /\ RowOf(b)' = RowOf(b)
        BY <1>1, <1>6, <2>1, <3>2 DEF AccountInv
      <4>2. RowOf(b).id = to_i64(b) /\ to_i64(b) # to_i64(a)
        BY <1>1, <1>4, <3>2 DEF RowOf, account_row
      <4> QED
        BY <2>1, <4>1, <4>2
    <3> QED
      BY <3>1, <3>2
  <2> QED
    BY <1>1, <1>2, <1>3, <2>1, <2>2, <2>3, <2>4 DEF AccountInv
<1>8. CASE ~OwnerKnown(c)
  <2>1. accounts_table' = accounts_table /\ refused' = refused \cup {a}
    BY <1>8 DEF save
  <2>2. \A r \in accounts_table' : \E b \in DOMAIN accounts' : r.id = to_i64(b)
    BY <1>1, <2>1 DEF AccountInv
  <2>3. \A b \in DOMAIN accounts' \ refused' : RowOf(b)' \in accounts_table'
    BY <1>1, <1>6, <2>1 DEF AccountInv
  <2> QED
    BY <1>1, <1>2, <1>3, <2>1, <2>2, <2>3 DEF AccountInv, Keyed
<1> QED
  BY <1>7, <1>8

LEMMA RemoveKeepsAccounts ==
    ASSUME AccountInv, NEW a \in SavedId, remove(a)
    PROVE  AccountInv'
<1>1. /\ DOMAIN accounts' = DOMAIN accounts \ {a}
      /\ \A b \in DOMAIN accounts \ {a} : accounts'[b] = accounts[b]
      /\ accounts_table' = {q \in accounts_table : q.id # to_i64(a)}
      /\ refused' = refused \ {a}
  BY DEF remove
<1>2. DOMAIN accounts' \subseteq SavedId /\ IsFiniteSet(DOMAIN accounts')
  BY <1>1, FS_RemoveElement DEF AccountInv
<1>3. Keyed(accounts_table')
  BY <1>1, FS_Subset DEF AccountInv, Keyed
<1>4. ASSUME NEW r \in accounts_table'
      PROVE  \E b \in DOMAIN accounts' : r.id = to_i64(b)
  BY <1>1 DEF AccountInv
<1>5. ASSUME NEW b \in DOMAIN accounts' \ refused'
      PROVE  RowOf(b)' \in accounts_table'
  <2>1. to_i64(b) # to_i64(a)
    BY <1>1, CastsApart, IdsAssumption DEF AccountInv
  <2>2. RowOf(b) \in accounts_table /\ RowOf(b)' = RowOf(b)
    BY <1>1 DEF AccountInv, RowOf
  <2>3. RowOf(b).id = to_i64(b)
    BY DEF RowOf, account_row
  <2> QED
    BY <1>1, <2>1, <2>2, <2>3
<1> QED
  BY <1>1, <1>2, <1>3, <1>4, <1>5 DEF AccountInv

LEMMA AccountStep ==
    ASSUME AccountInv, [Next]_vars
    PROVE  AccountInv'
<1>1. CASE UNCHANGED <<accounts, accounts_table, refused>>
  BY <1>1 DEF AccountInv, Keyed, RowOf
<1>2. ASSUME NEW c \in CustomerId, NEW who \in People, save_customer(c, who)
      PROVE  UNCHANGED <<accounts, accounts_table, refused>>
  BY <1>2 DEF save_customer
<1> QED
  BY <1>1, <1>2, SaveKeepsAccounts, RemoveKeepsAccounts, StepKinds DEF accountVars

\* An account as all() gives it back.
Found(a) ==
    [id |-> a, owner |-> accounts[a].owner, balance |-> accounts[a].balance,
     status |-> accounts[a].status, version |-> accounts[a].version]

LEMMA AccountRead ==
    ASSUME AccountInv, NEW a \in DOMAIN accounts
    PROVE  /\ RowOf(a).id = to_i64(a) /\ to_u64(to_i64(a)) = a
           /\ read_account(RowOf(a)) = Found(a)
<1>1. /\ to_u64(to_i64(a)) = a
      /\ to_u64(to_i64(accounts[a].owner)) = accounts[a].owner
      /\ to_u64(to_i64(accounts[a].version)) = accounts[a].version
  BY Casts, IdsAssumption DEF AccountInv
<1>2. FromText(StatusText, StatusText[accounts[a].status]) = accounts[a].status
  BY TextForms DEF AccountInv
<1> QED
  BY <1>1, <1>2 DEF RowOf, account_row, read_account, Found

\* The rows of the table, read, are the settled accounts of the map and old
\* values of refused ones.
LEMMA RowsRead ==
    ASSUME AccountInv
    PROVE  /\ \A r \in accounts_table :
                 /\ read_account(r).id = to_u64(r.id)
                 /\ to_u64(r.id) \in DOMAIN accounts /\ r.id = to_i64(to_u64(r.id))
                 /\ to_u64(r.id) \notin refused => r = RowOf(to_u64(r.id))
           /\ \A a \in DOMAIN accounts \ refused :
                 RowOf(a) \in accounts_table /\ read_account(RowOf(a)) = Found(a)
<1>1. ASSUME NEW r \in accounts_table
      PROVE  /\ read_account(r).id = to_u64(r.id)
             /\ to_u64(r.id) \in DOMAIN accounts /\ r.id = to_i64(to_u64(r.id))
             /\ to_u64(r.id) \notin refused => r = RowOf(to_u64(r.id))
  <2>1. PICK a \in DOMAIN accounts : r.id = to_i64(a)
    BY DEF AccountInv
  <2>2. to_u64(r.id) = a /\ RowOf(a).id = r.id
    BY <2>1, AccountRead
  <2>3. a \notin refused => r = RowOf(a)
    BY <2>2 DEF AccountInv, Keyed
  <2>4. read_account(r).id = to_u64(r.id)
    BY DEF read_account
  <2> QED
    BY <2>1, <2>2, <2>3, <2>4
<1>2. \A a \in DOMAIN accounts \ refused :
         RowOf(a) \in accounts_table /\ read_account(RowOf(a)) = Found(a)
  BY AccountRead DEF AccountInv
<1> QED
  BY <1>1, <1>2

LEMMA EnginesAgree == ASSUME AccountInv PROVE SameAccounts
<1> DEFINE M == {Found(a) : a \in DOMAIN accounts}
           rows == OrderById(accounts_table)
<1>0. \A a \in DOMAIN accounts : a \in Int /\ Found(a).id = a
  <2>1. \A a \in DOMAIN accounts : a \in 0..MaxAccountId
    BY IdsAssumption DEF AccountInv, Id
  <2> QED
    BY <2>1 DEF Found
<1>1. InOrder(MemoryAccounts, M)
  <2>1. IsFiniteSet(M)
    <3> DEFINE f == [a \in DOMAIN accounts |-> Found(a)]
    <3>1. f \in Surjection(DOMAIN accounts, M)
      BY DEF Surjection
    <3> QED
      BY <3>1, FS_Surjection DEF AccountInv
  <2>2. Keyed(M)
    <3>1. \A x \in M : x.id \in Int
      BY <1>0
    <3>2. \A x, y \in M : x.id = y.id => x = y
      BY <1>0
    <3> QED
      BY <2>1, <3>1, <3>2 DEF Keyed
  <2>3. MemoryAccounts = OrderById(M)
    BY DEF MemoryAccounts, Found
  <2> QED
    BY <2>2, <2>3, OrderByIdMeaning
<1>2. InOrder(rows, accounts_table)
  BY OrderByIdMeaning DEF AccountInv
<1>3. /\ DOMAIN SqliteAccounts = DOMAIN rows
      /\ \A i \in DOMAIN rows :
            rows[i] \in accounts_table /\ SqliteAccounts[i] = read_account(rows[i])
  BY <1>2 DEF SqliteAccounts, InOrder
<1>4. Listed(MemoryAccounts) = M
  BY <1>1 DEF Listed, InOrder
<1>5. Listed(SqliteAccounts) = {read_account(r) : r \in accounts_table}
  BY <1>2, <1>3 DEF Listed, InOrder
<1>6. Settled(MemoryAccounts) = {Found(a) : a \in DOMAIN accounts \ refused}
  <2>1. \A a \in DOMAIN accounts : Found(a).id = a
    BY DEF Found
  <2> QED
    BY <1>4, <2>1 DEF Settled
<1>7. Settled(SqliteAccounts) = {Found(a) : a \in DOMAIN accounts \ refused}
  <2>1. ASSUME NEW x \in Settled(SqliteAccounts)
        PROVE  \E a \in DOMAIN accounts \ refused : x = Found(a)
    <3>1. PICK r \in accounts_table : x = read_account(r)
      BY <1>5, <2>1 DEF Settled
    <3>2. x.id \notin refused
      BY <2>1 DEF Settled
    <3> QED
      BY <3>1, <3>2, RowsRead
  <2>2. ASSUME NEW a \in DOMAIN accounts \ refused
        PROVE  Found(a) \in Settled(SqliteAccounts)
    <3>1. Found(a) \in Listed(SqliteAccounts)
      BY <1>5, RowsRead
    <3> QED
      BY <3>1 DEF Settled, Found
  <2> QED
    BY <2>1, <2>2
<1>8. \A i, j \in DOMAIN MemoryAccounts :
         i < j => MemoryAccounts[i].id # MemoryAccounts[j].id
  <2>1. \A i \in DOMAIN MemoryAccounts : MemoryAccounts[i] \in M
    BY <1>1 DEF InOrder
  <2>2. \A x \in M : x.id \in Int
    BY <1>0
  <2> QED
    BY <1>1, <2>1, <2>2 DEF InOrder
<1>9. \A i, j \in DOMAIN SqliteAccounts :
         i < j => SqliteAccounts[i].id # SqliteAccounts[j].id
  <2>1. \A r \in accounts_table :
           /\ r.id \in Int /\ read_account(r).id = to_u64(r.id)
           /\ r.id = to_i64(to_u64(r.id))
    BY RowsRead DEF AccountInv, Keyed
  <2>2. \A i, j \in DOMAIN rows : i < j => rows[i].id < rows[j].id
    BY <1>2 DEF InOrder
  <2> QED
    BY <1>3, <2>1, <2>2
<1>10. Ids(SqliteAccounts) \subseteq Ids(MemoryAccounts)
  <2>1. \A r \in accounts_table : read_account(r).id \in DOMAIN accounts
    BY RowsRead
  <2>2. \A a \in DOMAIN accounts : a \in Ids(MemoryAccounts)
    BY <1>0, <1>4 DEF Ids
  <2> QED
    BY <1>5, <2>1, <2>2 DEF Ids
<1> QED
  BY <1>6, <1>7, <1>8, <1>9, <1>10 DEF SameAccounts

\* What both engines hold of the accounts, in every state.
THEOREM AccountStoresAgree == Spec => []AccountInv
BY AccountInit, AccountStep, PTL DEF Spec

\* AccountRepository::all, for every width of the integers: whatever was saved
\* and removed before, both engines list the same accounts, except those whose
\* last save SQLite refused; SQLite lists none the other does not.
THEOREM AccountsAreTheSame == Spec => []SameAccounts
BY EnginesAgree, AccountStoresAgree, PTL
=============================================================================
