----------------------------- MODULE CodeSign ------------------------------
(***************************************************************************)
(* The arithmetic and the decisions of src/hap/code_sign.rs: which entries *)
(* are code, how the archive is laid out again, how large the levels of a  *)
(* Merkle tree and the parts of the code-sign property are.                *)
(***************************************************************************)
EXTENDS HapFormat

CONSTANTS
  FSVERITY_BLOCK_SIZE,           \* a page
  SHA256_SIZE,                   \* a digest
  MAX_ENTRY_UNCOMPRESSED_SIZE,
  MAX_TOTAL_UNCOMPRESSED_SIZE

\* A page holds at least two digests and no part of one.
ASSUME PageAssumption ==
  /\ FSVERITY_BLOCK_SIZE \in Nat \ {0}
  /\ SHA256_SIZE \in Nat \ {0}
  /\ FSVERITY_BLOCK_SIZE >= 2 * SHA256_SIZE
  /\ FSVERITY_BLOCK_SIZE % SHA256_SIZE = 0

ASSUME LimitsAssumption ==
  MAX_ENTRY_UNCOMPRESSED_SIZE \in Nat /\ MAX_TOTAL_UNCOMPRESSED_SIZE \in Nat

CODE_SIGN_FIXED_HEADER_SIZE == 32 + 3 * 12

round_up(value, alignment) ==
  ((value + alignment - 1) \div alignment) * alignment

div_ceil(a, b) == (a + b - 1) \div b

-----------------------------------------------------------------------------
is_native_name(e) == e.kind = "native"

is_runnable_name(e) == e.kind = "abc" \/ is_native_name(e)

IsRunnable(e) == ~e.dir /\ is_runnable_name(e)

\* reject_unsupported_entry, checked_uncompressed_total and classify_runnable
\* on one entry.
EntryRefused(e) == \/ e.kind = "hnp"
                   \/ e.size > MAX_ENTRY_UNCOMPRESSED_SIZE
                   \/ IsRunnable(e) /\ ~e.stored

ArchiveRefused(entries) ==
  \/ \E i \in DOMAIN entries : EntryRefused(entries[i])
  \/ FoldSeq(LAMBDA e, sum : e.size + sum, 0, entries) > MAX_TOTAL_UNCOMPRESSED_SIZE

has_runnable_files(entries) == \E i \in DOMAIN entries : IsRunnable(entries[i])

\* Mutant: directories are dropped as well.
EntryPlans_FilesOnly(entries) == {e \in Range(entries) : e.kind # "pages" /\ ~e.dir}

\* The entries that are written again: page bitmaps are dropped.
EntryPlans(entries) == {e \in Range(entries) : e.kind # "pages"}

\* Mutant: stored entries first, code or not.
entry_rank_Stored(e) == IF e.stored THEN 0 ELSE 1

entry_rank(e) == IF IsRunnable(e) THEN 0 ELSE IF e.stored THEN 1 ELSE 2

\* The order of the rewritten archive.
Precedes(e, o) == \/ entry_rank(e) < entry_rank(o)
                  \/ entry_rank(e) = entry_rank(o) /\ e.name < o.name

\* Mutant: only code is aligned to pages.
Alignment_CodeOnly(e, written) ==
  IF IsRunnable(e) THEN FSVERITY_BLOCK_SIZE ELSE IF e.stored THEN 4 ELSE 1

\* The alignment of an entry behind those written already.
Alignment(e, written) ==
  IF IsRunnable(e) \/ \A i \in DOMAIN written : IsRunnable(written[i])
  THEN FSVERITY_BLOCK_SIZE
  ELSE IF e.stored THEN 4 ELSE 1

-----------------------------------------------------------------------------
\* code_sign_owner_id finds an owner.
OwnerKnown(profile) == \/ profile.type = "debug"
                       \/ profile.type = "release" /\ profile.app_identifier

-----------------------------------------------------------------------------
\* A level of digests, one for each page of the level below it.
LevelSize(below) ==
  round_up(div_ceil(below, FSVERITY_BLOCK_SIZE) * SHA256_SIZE, FSVERITY_BLOCK_SIZE)

\* Mutant: a full single page gets a level of its own.
FirstTree_OffByOne(data_len) ==
  IF data_len < FSVERITY_BLOCK_SIZE
  THEN [data_len |-> data_len, levels |-> <<>>, size |-> 0]
  ELSE [data_len |-> data_len, levels |-> <<LevelSize(data_len)>>,
        size |-> LevelSize(data_len)]

\* A tree before the loop: one page of data, or none, needs no levels.
FirstTree(data_len) ==
  IF data_len <= FSVERITY_BLOCK_SIZE
  THEN [data_len |-> data_len, levels |-> <<>>, size |-> 0]
  ELSE [data_len |-> data_len, levels |-> <<LevelSize(data_len)>>,
        size |-> LevelSize(data_len)]

TopLevel(tree) == tree.levels[Len(tree.levels)]

TreeDone(tree) == tree.levels # <<>> => TopLevel(tree) <= FSVERITY_BLOCK_SIZE

padding4(n) == (4 - (n % 4)) % 4

\* The length of what encode_sign_info returns.
SignInfoSize(cms_len, with_tree) ==
  60 + cms_len + padding4(cms_len) + (IF with_tree THEN 88 ELSE 0)

FSVERITY_SEGMENT_SIZE == 64

NativeSegmentSize(count, names_size, sign_infos_size) ==
  12 + 16 * count + names_size + padding4(names_size) + sign_infos_size

\* The pages of a tree in the order of the file: the top level first.
tree_pages(tree) ==
  FlattenSeq(Reverse([k \in DOMAIN tree.levels |->
    [i \in 1 .. tree.levels[k] \div FSVERITY_BLOCK_SIZE |-> <<k, i>>]]))

\* Mutant: `as u32`.
fits_u32_Cut(n) == TRUE

\* put_u32 and u32::try_from: a number that fits its field.
fits_u32(n) == n \in U32
=============================================================================
