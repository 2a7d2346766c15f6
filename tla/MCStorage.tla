------------------------------ MODULE MCStorage ------------------------------
(* Instances of the stores for TLC: 3-bit integers, and 12 for the largest    *)
(* int64_t of a text.                                                       *)
EXTENDS JsonText

CONSTANTS p1, p2, NoPin

\* A deposit, a withdrawal and two transfers; account 0 is an account like any
\* other, and 4 is beyond the int64_t.
MCPayments ==
    {[type |-> "Deposit", account_id |-> 4, amount |-> MaxCents],
     [type |-> "Withdraw", account_id |-> 0, amount |-> 1],
     [type |-> "Transfer", from |-> 4, to |-> 0, amount |-> 1],
     [type |-> "Transfer", from |-> 0, to |-> 4, amount |-> 1]}

\* Both sides of the int64_t limit.
EdgeIds == {0, HalfRange - 1, HalfRange, 2 * HalfRange - 1}

MCRecords ==
    {Record(n, t, x, "Validated") : x \in Transaction, n \in EdgeIds, t \in {0, 5}}

\* Salts of one byte, 0a and f0.  A customer's is written in capitals, as a
\* migration may; two hashes are malformed.
MCSalts == {<<10>>, <<240>>}

Hash == derive(p1, <<10>>)

MCPeople ==
    {[pin |-> p1, pin_hash |-> [Hash EXCEPT !.salt = <<48, 65>>], role |-> "Customer"],
     [pin |-> p2, pin_hash |-> derive(p2, <<240>>), role |-> "Teller"],
     [pin |-> NoPin, pin_hash |-> [Hash EXCEPT !.salt = <<48>>], role |-> "Admin"],
     [pin |-> NoPin, pin_hash |-> [Hash EXCEPT !.algorithm = "md5"],
      role |-> "Customer"]}

MCRows ==
    {[balance |-> 0, status |-> "Active", version |-> 0],
     [balance |-> MaxCents, status |-> "Frozen", version |-> HalfRange]}

MCSnapshots ==
    [id : EdgeIds, owner : EdgeIds, balance : {0, MaxCents},
     status : AccountStatus, version : {0, HalfRange}]

Member(k, v) == [key |-> k, value |-> v]

\* Numbers up to the overflow, bytes that need escapes, and nesting.
MCValues ==
    {J!Null, J!Array(<<>>), J!Object(<<>>)}
    \cup {J!Integer(i) : i \in {0, 12, -12, -13}}
    \cup {J!String(s) : s \in {<<>>, <<97>>, <<10>>, <<31, 92>>, <<34, 97>>}}
    \cup {J!Array(<<J!Integer(1), J!String(<<97>>)>>),
          J!Object(<<Member(<<97>>, J!Integer(1)), Member(<<98>>, J!Null)>>),
          J!Array(<<J!Object(<<Member(<<>>, J!Array(<<J!Null>>))>>)>>)}

\* Newline, space, quotes, comma, minus, 0, 3, 8, colon, brackets, backslash, a,
\* b, d, n, u, braces.
MCBytes ==
    {10, 32, 34, 44, 45, 48, 51, 56, 58, 91, 92, 93, 97, 98, 100, 110, 117, 123,
     125}
=============================================================================
