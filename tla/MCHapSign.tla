----------------------------- MODULE MCHapSign -----------------------------
\* Small files for TLC: archives of up to four entries, unsigned or signed by
\* several signers, whole or damaged, and profiles of every kind.
EXTENDS HapSign

E(n, kind, size) == [name |-> n, kind |-> kind, dir |-> FALSE, stored |-> TRUE,
                     intact |-> TRUE, name_len |-> 7 + n, size |-> size,
                     packed |-> size, at |-> 0]
Page == FSVERITY_BLOCK_SIZE

Abc      == E(5, "abc", Page)
LongAbc  == E(5, "abc", 9 * Page + 1)
Lib      == E(3, "native", Page)
LongLib  == E(4, "native", 17 * Page)
LibDir   == [E(1, "native", 0) EXCEPT !.dir = TRUE]
Json     == [E(2, "resource", 90) EXCEPT !.stored = FALSE, !.packed = 50]
Text     == E(6, "resource", 77)
Bitmap   == E(0, "pages", 20)
Packed   == [Abc EXCEPT !.stored = FALSE]
Short    == [Abc EXCEPT !.intact = FALSE]

Archives == {<<>>, <<Json>>, <<Abc>>, <<Json, Abc>>, <<Json, Text, LongAbc>>,
             <<Bitmap, Json, Lib, Abc>>, <<LibDir, Lib, LongLib, Text>>,
             <<Json, Lib, LongLib, LongAbc>>, <<LibDir, LongLib, Lib>>, <<Packed, Json>>, <<Text, Short>>,
             <<E(7, "hnp", 10), Text>>,
             <<E(2, "resource", MAX_ENTRY_UNCOMPRESSED_SIZE + 1), Abc>>,
             <<E(2, "resource", MAX_ENTRY_UNCOMPRESSED_SIZE), LongLib, E(6, "resource", 700)>>,
             <<LongLib, LongAbc, E(6, "resource", MaxU32 - 3742)>>}

Extent(entries) == FoldSeq(LAMBDA e, sum : 30 + e.name_len + e.packed + sum, 0, entries)

Unsigned(entries, filler) ==
  LET cd == Extent(entries) + filler
  IN  [entries |-> entries, block |-> NoBlock, cd_offset |-> cd,
       cd_size |-> 46 * Len(entries), eocd_offset |-> cd + 46 * Len(entries)]

\* A file signed elsewhere: the values in the order of the rows, and a property
\* that knows its place.
Length(type) == IF type = TYPE_PROPERTY THEN 200 ELSE 40

Signed(entries, types) ==
  LET start  == Extent(entries)
      before(i) == FoldSeq(LAMBDA t, sum : Length(t) + sum, 0, SubSeq(types, 1, i - 1))
      row(i) == [block_type |-> types[i], length |-> Length(types[i]),
                 offset |-> Len(types) * ENTRY_SIZE + before(i)]
      value(i) == [block_type |-> types[i], id |-> "old", len |-> Length(types[i]),
                   at |-> IF types[i] = TYPE_PROPERTY THEN start + row(i).offset + 12 ELSE 0,
                   tree_at |-> 0]
      size == Len(types) * ENTRY_SIZE + before(Len(types) + 1) + SIGNING_TRAILER_SIZE
  IN  [entries |-> entries,
       block |-> [magic |-> TRUE, size |-> size,
                  rows |-> [i \in DOMAIN types |-> row(i)],
                  values |-> [i \in DOMAIN types |->
                               [offset |-> row(i).offset, value |-> value(i)]]],
       cd_offset |-> start + size, cd_size |-> 46 * Len(entries),
       eocd_offset |-> start + size + 46 * Len(entries)]

Tables == {<<>>, <<TYPE_PROFILE, TYPE_SIGNER>>,
           <<TYPE_PROPERTY, TYPE_PROFILE, TYPE_SIGNER>>,
           <<TYPE_PROFILE, TYPE_PROPERTY, TYPE_SIGNER>>,
           <<TYPE_PROPERTY, "rotation", TYPE_PROFILE, TYPE_SIGNER>>,
           <<TYPE_PROPERTY, TYPE_PROPERTY, TYPE_SIGNER>>}

Whole == Signed(<<Abc, Json>>, <<TYPE_PROPERTY, TYPE_PROFILE, TYPE_SIGNER>>)

Damaged ==
  {[Whole EXCEPT !.eocd_offset = @ + 1],
   [Whole EXCEPT !.block.size = SIGNING_TRAILER_SIZE - 1],
   [Whole EXCEPT !.block.size = Whole.cd_offset + 1],
   [Whole EXCEPT !.block.size = SIGNING_TRAILER_SIZE + 2 * ENTRY_SIZE],
   [Whole EXCEPT !.block.rows[1].offset = 2 * ENTRY_SIZE],
   [Whole EXCEPT !.block.rows[3].length = @ + 1],
   [Whole EXCEPT !.block.magic = FALSE]}

AllInputs ==
            {Unsigned(entries, filler) : entries \in Archives, filler \in {0, Page}}
            \cup {Signed(entries, types) : entries \in Archives, types \in Tables}
            \cup Damaged
            \cup {Unsigned(<<Abc, Json>>, MaxU32 - 400), Unsigned(<<Json>>, MaxU32 - 250)}

MCInputs == {f \in AllInputs : f.cd_offset <= MaxU32}

MCProfiles ==
  {[id |-> "a", type |-> "debug", app_identifier |-> FALSE, len |-> 41],
   [id |-> "b", type |-> "release", app_identifier |-> TRUE, len |-> 300],
   [id |-> "c", type |-> "release", app_identifier |-> FALSE, len |-> 41],
   [id |-> "d", type |-> "other", app_identifier |-> TRUE, len |-> 41],
   [id |-> "e", type |-> "debug", app_identifier |-> FALSE, len |-> MaxU32 + 1]}
=============================================================================
