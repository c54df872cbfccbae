--------------------------- MODULE MCLedgerImport ---------------------------
(* A ledger of one service with two devices, and sheets that create,       *)
(* change, repeat, split and move records.                                 *)
EXTENDS LedgerImport

CONSTANTS n1, n2, c1, c2, c3, slashed, joined, t1, phone, timed, old, price

(* The dictionary has t1 where a sheet says old; timed is t1 with a time   *)
(* of day; phone is out of format; price is no price, or no date.          *)
AsStored == [t \in Texts |-> IF t \in {old, price} THEN t1 ELSE t]
AsShown == [t \in Texts \ {old, price} |-> IF t = timed THEN t1 ELSE t]
AsSplit == [c \in Codes \cup {Blank} |->
    CASE c = Blank -> {} [] c = joined -> {c1, c3} [] OTHER -> {c}]

Typed(n, m, cs, k, r) ==
    [number |-> n, manager |-> m, codes |-> cs, keeper |-> k, recovery |-> r,
     sid |-> 0, sver |-> 0, did |-> 0, dver |-> 0]

OneService == <<[number |-> n1, manager |-> t1, version |-> 1]>>
TwoDevices ==
    <<[code |-> c1, service |-> 1, keeper |-> t1, recovery |-> t1, version |-> 1],
      [code |-> c2, service |-> 1, keeper |-> Blank, recovery |-> Blank, version |-> 1]>>

Sheets ==
    {<<Typed(n2, t1, {c3}, t1, t1)>>,
     <<Typed(n2, old, {c3}, Blank, price)>>,
     <<Typed(n1, timed, {c1, c2}, Blank, old)>>,
     <<Typed(n1, t1, {c1}, Blank, t1), Typed(n1, t1, {c1}, t1, t1)>>,
     <<Typed(n2, t1, {c2}, t1, t1), Typed(n1, t1, {}, Blank, Blank)>>}
=============================================================================
