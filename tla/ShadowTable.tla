----------------------------- MODULE ShadowTable -----------------------------
(***************************************************************************)
(* The shadow validator's record of the chunks in use: a hash table with   *)
(* open addressing, from which an entry is removed by re-inserting what    *)
(* follows it. Each operation runs under g_mutex. Of an entry only the     *)
(* pointer matters; size, site and thread are for the message.             *)
(***************************************************************************)
EXTENDS Naturals

CONSTANTS
    TABLE_SIZE,   \* slots of g_table (2^17)
    Home,         \* hash_ptr: the slot where the search for a pointer begins
    Null          \* an empty slot

Slots == 0..(TABLE_SIZE - 1)

EmptyTable == [i \in Slots |-> Null]

\* The slots at which a search for p stops: p is there, or nothing.
Stops(table, p) == {n \in Slots : table[(Home[p] + n) % TABLE_SIZE] \in {p, Null}}

\* The first of them, by the order of probing. There is none if the table is
\* full of other pointers.
SlotOf(table, p) ==
    (Home[p] + (CHOOSE n \in Stops(table, p) : \A m \in Stops(table, p) : n <= m))
        % TABLE_SIZE

Recorded(table, p) == Stops(table, p) # {} /\ table[SlotOf(table, p)] = p

Place(table, p) == [table EXCEPT ![SlotOf(table, p)] = p]

\* validate_alloc aborts: p is on record (DUP), or there is no room.
Aborts(table, p) == Recorded(table, p) \/ Stops(table, p) = {}

\* What follows an emptied slot, from j up to the next empty one, is taken out
\* and put in again, an entry at a time.
Repack[at \in [table : [Slots -> DOMAIN Home \cup {Null}], j : Slots]] ==
    LET p == at.table[at.j]
    IN  IF p = Null THEN at.table
        ELSE Repack[[table |-> Place([at.table EXCEPT ![at.j] = Null], p),
                     j     |-> (at.j + 1) % TABLE_SIZE]]

\* validate_free; a pointer that is not on record is libc's.
Erase(table, p) ==
    IF ~Recorded(table, p) THEN table
    ELSE LET i == SlotOf(table, p)
         IN  Repack[[table |-> [table EXCEPT ![i] = Null], j |-> (i + 1) % TABLE_SIZE]]
=============================================================================
