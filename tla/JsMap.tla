-------------------------------- MODULE JsMap --------------------------------
(***************************************************************************)
(* A JavaScript Map or array as the sequence of its entries in insertion   *)
(* order, with the two operations the code uses on it: looking an entry up *)
(* and keeping some entries.  The order of the kept ones does not change.  *)
(* And a JavaScript object as a record.                                    *)
(***************************************************************************)
EXTENDS Integers, Sequences

Entries(seq) == {seq[i] : i \in 1..Len(seq)}

\* Map.has
MapHas(seq, e) == e \in Entries(seq)

\* Array.filter: the entries of seq that are in S, in order.
Kept(seq, S) ==
    LET kept[n \in 0..Len(seq)] ==
          IF n = 0 THEN <<>>
          ELSE IF seq[n] \in S THEN Append(kept[n - 1], seq[n]) ELSE kept[n - 1]
    IN kept[Len(seq)]

\* Map.delete
Without(seq, e) == Kept(seq, Entries(seq) \ {e})

\* { ...base, ...given }: the fields given, over those of base.
Spread(given, base) ==
    [k \in DOMAIN given \cup DOMAIN base |-> IF k \in DOMAIN given THEN given[k] ELSE base[k]]

\* A Map has no key twice.
NoRepeats(seq) == \A i, j \in 1..Len(seq) : seq[i] = seq[j] => i = j
=============================================================================
