---------------------------- MODULE StableLists ----------------------------
(***************************************************************************)
(* The two list operations GpuQueue performs on its waiting list: Python's *)
(* stable `list.sort(key=...)` and the order-preserving filter of the      *)
(* expiry sweep.  Both are written by rank instead of by recursion, so     *)
(* that what they return can be proved (StableListsProofs).                *)
(***************************************************************************)
EXTENDS Integers, Sequences, FiniteSets

(* The elements of the list s. *)
Elems(s) == {s[i] : i \in DOMAIN s}

(* How many members of P come no later than i in the strict order R. *)
Rank(i, P, R) == Cardinality({j \in P : j = i \/ <<j, i>> \in R})

(* The members of the finite set P listed in the strict total order R. *)
Listing(P, R) == [k \in 1..Cardinality(P) |-> CHOOSE i \in P : Rank(i, P, R) = k]

(* The elements of s at the positions P, in the order R of positions. *)
Pick(s, P, R) == [k \in 1..Cardinality(P) |-> s[Listing(P, R)[k]]]

Places(s, S) == {i \in DOMAIN s : s[i] \in S}

Upwards(P) == {p \in P \X P : p[1] < p[2]}

(* Mutation: the sort is not stable. *)
EarlierUnstable(s, before) ==
    {p \in (DOMAIN s) \X (DOMAIN s) :
        \/ <<s[p[1]], s[p[2]]>> \in before
        \/ <<s[p[2]], s[p[1]]>> \notin before /\ p[1] > p[2]}

(* Position i of s precedes position j once s is sorted by `before`, equal *)
(* elements keeping their order.                                           *)
Earlier(s, before) ==
    {p \in (DOMAIN s) \X (DOMAIN s) :
        \/ <<s[p[1]], s[p[2]]>> \in before
        \/ <<s[p[2]], s[p[1]]>> \notin before /\ p[1] < p[2]}

(* The elements of s that are in S, in the order they have in s. *)
Keep(s, S) == Pick(s, Places(s, S), Upwards(Places(s, S)))

(* s sorted by the strict weak order `before`, ties in their old order. *)
StableSort(s, before) == Pick(s, DOMAIN s, Earlier(s, before))

(* The loop of the sweep over s, for comparison with Keep: who stays is     *)
(* appended to the survivors, one after the other.                         *)
SweepLoop(s, stay) ==
    LET survivors[i \in 0..Len(s)] ==
            IF i = 0 THEN <<>>
            ELSE IF s[i] \in stay THEN Append(survivors[i - 1], s[i])
            ELSE survivors[i - 1]
    IN  survivors[Len(s)]
=============================================================================
