----------------------------- MODULE HapFormat -----------------------------
(***************************************************************************)
(* The HAP file as src/hap/format.rs reads it: a ZIP archive whose signing *)
(* block lies between the entries and the central directory.  A file is    *)
(* the numbers that are stored in it and the identity of its contents; no  *)
(* byte of a name, an entry or a signature is represented.                 *)
(***************************************************************************)
EXTENDS Integers, Sequences, FiniteSets, SequencesExt

CONSTANTS
  MaxU32,          \* the largest offset a four-byte field can hold
  Ids              \* what the value of a block may be

ASSUME MaxU32Assumption == MaxU32 \in Nat
ASSUME IdsAssumption == {"garbage", "code sign", "cms"} \subseteq Ids

U32 == 0 .. MaxU32

TYPE_SIGNER   == "signer"
TYPE_PROFILE  == "profile"
TYPE_PROPERTY == "property"
BlockTypes    == {TYPE_SIGNER, TYPE_PROFILE, TYPE_PROPERTY, "rotation"}

SIGNING_TRAILER_SIZE == 32
ENTRY_SIZE           == 12

\* An entry of the archive: the class of its name, and where its data starts.
\* `name` is also its place in the order of names; `intact`: the data has the
\* size the directory says.
Entry == [name : Nat, kind : {"abc", "native", "resource", "pages", "hnp"},
          dir : BOOLEAN, stored : BOOLEAN, intact : BOOLEAN,
          name_len : Nat, size : Nat, packed : Nat, at : Nat]

\* A value of the signing block (none is empty).  A code-sign property records
\* the offset of its own code-sign data and of its Merkle tree in the file.
BlockValue == [block_type : BlockTypes, id : Ids, len : Nat \ {0},
               at : Nat, tree_at : Nat]

\* A row of the table in front of the values; offsets count from the block.
Row == [block_type : BlockTypes, length : U32 \ {0}, offset : U32]

\* A value where it lies.
Placed == [offset : Nat, value : BlockValue]

\* The bytes in front of the central directory, read as a signing block.
RawBlock == [magic : BOOLEAN, size : Nat, rows : Seq(Row), values : Seq(Placed)]

NoBlock == [magic |-> FALSE, size |-> 0, rows |-> <<>>, values |-> <<>>]

\* cd_offset and cd_size are fields of the end record, eocd_offset its place.
File == [entries : Seq(Entry), block : RawBlock,
         cd_offset : U32, cd_size : U32, eocd_offset : Nat]

\* The zip crate keeps the entries it reads in a map by name, and writes no
\* name twice.
UniqueNames(entries) ==
  \A i, j \in DOMAIN entries : entries[i].name = entries[j].name => i = j

EmptyFile == [entries |-> <<>>, block |-> NoBlock,
              cd_offset |-> 0, cd_size |-> 0, eocd_offset |-> 0]

-----------------------------------------------------------------------------
TableSize(rows) == Len(rows) * ENTRY_SIZE

HasSigningBlock(f) == /\ f.cd_offset >= SIGNING_TRAILER_SIZE
                      /\ f.block.magic

\* The checks of parse_signing_block, in the block's own coordinates.
BlockAccepted(b, cd_offset) ==
  LET values_end == b.size - SIGNING_TRAILER_SIZE
  IN  /\ b.size \in SIGNING_TRAILER_SIZE .. cd_offset
      /\ TableSize(b.rows) <= values_end
      /\ \A i \in DOMAIN b.rows :
           /\ b.rows[i].offset >= TableSize(b.rows)
           /\ b.rows[i].offset + b.rows[i].length <= values_end

\* parse_hap returns a layout.
parse_hap(f) ==
  /\ f.cd_offset + f.cd_size = f.eocd_offset
  /\ HasSigningBlock(f) => BlockAccepted(f.block, f.cd_offset)

\* The block's start, or the place where one would be put.
BlockStart(f) ==
  IF HasSigningBlock(f) THEN f.cd_offset - f.block.size ELSE f.cd_offset

-----------------------------------------------------------------------------
Rows(f) == IF HasSigningBlock(f) THEN f.block.rows ELSE <<>>

\* The rows of a type.
OfType(f, type) == {i \in DOMAIN Rows(f) : Rows(f)[i].block_type = type}

HasProperty(f) == OfType(f, TYPE_PROPERTY) # {}

Garbage(row) == [block_type |-> row.block_type, id |-> "garbage",
                 len |-> row.length, at |-> 0, tree_at |-> 0]

\* The bytes in the range of a row: a value, if the range is that of one.
ReadRow(f, row) ==
  LET found == {j \in DOMAIN f.block.values :
                  /\ f.block.values[j].offset = row.offset
                  /\ f.block.values[j].value.len = row.length}
  IN  IF found = {} THEN Garbage(row)
      ELSE [f.block.values[CHOOSE j \in found : TRUE].value
              EXCEPT !.block_type = row.block_type]

\* Mutant: everything but the old signature is kept.
IsPreserved_All(row) == row.block_type # TYPE_SIGNER

\* preserved_optional_blocks keeps the value of this row.
IsPreserved(row) == row.block_type = TYPE_PROPERTY
=============================================================================
