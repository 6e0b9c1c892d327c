-------------------------------- MODULE Dict --------------------------------
(***************************************************************************)
(* dict.c, the hash table hiredis keeps the callbacks of subscriptions in. *)
(* A dict has a table of chains of entries, its size, zero or a power of   *)
(* two, and the number of entries.  New entries go to the head of their    *)
(* chain.  calloc() does not fail.                                         *)
(***************************************************************************)
EXTENDS Naturals, SequencesExt

CONSTANTS
    Hash,          \* the hash of each key, a natural number
    InitialSize    \* DICT_HT_INITIAL_SIZE, 4

ASSUME DictAssumption == InitialSize \in Nat \ {0} /\ \A key \in DOMAIN Hash : Hash[key] \in Nat

dictInit == [size |-> 0, table |-> <<>>, used |-> 0]

\* The slot of a key, from 1; size is a power of two and size - 1 the mask.
Slot(size, key) == (Hash[key] % size) + 1

\* The entries in the order an iterator gives them.
Entries(d) == FlattenSeq(d.table)

dictNextPower(size) ==
    CHOOSE p \in {InitialSize * 2^k : k \in 0..size} :
        p >= size /\ \A k \in 0..size : InitialSize * 2^k < p => InitialSize * 2^k < size

\* Where dictExpand() puts the entries, each at the head of its new chain.
Moved(d, size) ==
    [s \in 1..size |-> Reverse(SelectSeq(Entries(d), LAMBDA en : Slot(size, en.key) = s))]

dictExpand(d, size) ==
    [size |-> dictNextPower(size), table |-> Moved(d, dictNextPower(size)), used |-> d.used]

dictExpandIfNeeded(d) ==
    IF d.size = 0 THEN dictExpand(d, InitialSize)
    ELSE IF d.used = d.size THEN dictExpand(d, 2 * d.size) ELSE d

\* Whether dictFind() finds the key, in its slot only, and what it finds.
Found(d, key) ==
    d.size > 0 /\ \E i \in DOMAIN d.table[Slot(d.size, key)] :
                      d.table[Slot(d.size, key)][i].key = key
dictFind(d, key) ==
    LET chain == d.table[Slot(d.size, key)]
    IN chain[SelectInSeq(chain, LAMBDA en : en.key = key)].val

\* dictReplace(): the entry's new value, or a new entry.  The table grows
\* before the key is looked for.
Put(d, key, val) ==
    IF Found(d, key)
    THEN [d EXCEPT !.table[Slot(d.size, key)] =
             [i \in DOMAIN @ |-> IF @[i].key = key THEN [key |-> key, val |-> val] ELSE @[i]]]
    ELSE [d EXCEPT !.table[Slot(d.size, key)] = <<[key |-> key, val |-> val]>> \o @,
                   !.used = @ + 1]
dictReplace(d, key, val) == Put(dictExpandIfNeeded(d), key, val)

dictDelete(d, key) ==
    IF ~Found(d, key) THEN d
    ELSE [d EXCEPT !.table[Slot(d.size, key)] = SelectSeq(@, LAMBDA en : en.key # key),
                   !.used = @ - 1]

\* What a caller may rely on: each key once, in its slot, all counted.
DictOK(d) ==
    /\ d.used = Len(Entries(d)) /\ Len(d.table) = d.size
    /\ \A s \in 1..d.size : \A i \in DOMAIN d.table[s] :
          /\ Slot(d.size, d.table[s][i].key) = s
          /\ \A j \in DOMAIN d.table[s] : d.table[s][i].key = d.table[s][j].key => i = j
=============================================================================
