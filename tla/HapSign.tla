------------------------------ MODULE HapSign ------------------------------
(***************************************************************************)
(* sign_hap of src/hap/sign.rs with build_code_sign_property and           *)
(* align_zip_for_code_sign of code_sign.rs: one action per stage, and one  *)
(* per turn of a loop.  Signing may be asked again for the signed file,    *)
(* with any profile.                                                       *)
(***************************************************************************)
EXTENDS CodeSign

CONSTANTS
  Inputs,          \* the files that may be given at first
  Profiles,        \* [id, type, app_identifier, len]
  CmsSizes,        \* lengths a CMS structure may have
  CHUNK_SIZE,      \* of the content digest
  Deflated,        \* sizes that an entry may have when it is compressed again
  MaxRounds        \* how often signing is asked (bound)

Profile == [id : Ids, type : {"debug", "release", "other"},
            app_identifier : BOOLEAN, len : Nat \ {0}]

ASSUME InputsAssumption ==
  /\ Inputs \subseteq File
  /\ \A f \in Inputs : UniqueNames(f.entries)
  /\ Profiles \subseteq Profile
  /\ CmsSizes \subseteq Nat \ {0}
  /\ CHUNK_SIZE \in Nat \ {0}
  /\ Deflated \subseteq Nat
  /\ MaxRounds \in Nat

VARIABLES
  pc,        \* the stage sign_hap has reached
  error,     \* why it was refused
  input,     \* the bytes it was given
  file,      \* `input` of the code: those bytes, or the aligned archive
  profile,   \* the profile it was given
  needs,     \* needs_code_sign
  left,      \* entries align_zip_for_code_sign has still to write
  written,   \* the archive it has written so far: entries, end, cd_size
  index,     \* the turn of a loop over rows or entries
  code,      \* what build_code_sign_property has computed
  blocks,    \* optional_blocks, then blocks
  digest,    \* what the CMS of the signer is about
  rows,      \* the table encode_signing_block has written so far
  values,    \* the values it has written so far
  output,    \* the result
  round      \* how often signing was asked (bounded)

call   == <<input, profile, round>>
zip    == <<file, needs, left, written>>
sealed == <<digest, rows, values, output>>
vars   == <<pc, error, call, zip, index, code, blocks, sealed>>

Stages == {"parse", "align", "place", "keep", "collect", "entries", "tree",
           "property", "digest", "rows", "values", "done", "refused"}
Errors == {"none", "format", "entries", "profile", "structure", "size"}

Tree    == [data_len : Nat, levels : Seq(Nat \ {0}), size : Nat]
Archive == [entries : Seq(Entry), end : Nat, cd_size : Nat]
Code    == [offset : Nat, tree_offset : Nat, data_size : Nat, found : BOOLEAN,
            natives : Seq(Entry), trees : Seq(Tree),
            names_size : Nat, infos_size : Nat]

NoArchive == [entries |-> <<>>, end |-> 0, cd_size |-> 0]
NoCode == [offset |-> 0, tree_offset |-> 0, data_size |-> 0, found |-> FALSE,
           natives |-> <<>>, trees |-> <<>>, names_size |-> 0, infos_size |-> 0]
NoDigest == [entries |-> <<>>, before |-> 0, cd_size |-> 0, cd_offset |-> 0,
             chunks |-> 0, values |-> <<>>]

Begin(f, p) ==
  /\ pc = "parse" /\ error = "none"
  /\ input = f /\ file = f /\ profile = p
  /\ needs = FALSE /\ left = {} /\ written = NoArchive
  /\ index = 1 /\ code = NoCode /\ blocks = <<>>
  /\ digest = NoDigest /\ rows = <<>> /\ values = <<>> /\ output = EmptyFile

Init == /\ round = 1
        /\ \E f \in Inputs, p \in Profiles : Begin(f, p)

Refuse(why) == /\ pc' = "refused"
               /\ error' = why
               /\ UNCHANGED <<call, zip, index, code, blocks, sealed>>

-----------------------------------------------------------------------------
\* parse_hap, before and after the archive is aligned.
Unreadable == /\ pc \in {"parse", "place"}
              /\ ~parse_hap(file)
              /\ Refuse("format")

\* has_runnable_files refuses the archive; it looks only if there is no property.
EntriesRefused == /\ pc = "parse"
                  /\ parse_hap(file)
                  /\ ~HasProperty(file)
                  /\ ArchiveRefused(file.entries)
                  /\ Refuse("entries")

ParseInput ==
  /\ pc = "parse"
  /\ parse_hap(file)
  /\ HasProperty(file) \/ ~ArchiveRefused(file.entries)
  /\ needs' = (~HasProperty(file) /\ has_runnable_files(file.entries))
  /\ IF needs' THEN pc' = "align" /\ left' = EntryPlans(file.entries)
               ELSE pc' = "place" /\ left' = {}
  /\ UNCHANGED <<error, call, file, written, index, code, blocks, sealed>>

-----------------------------------------------------------------------------
\* The loop of align_zip_for_code_sign: the entry that sorts first is next.
IsNext(e) == e \in left /\ \A o \in left \ {e} : Precedes(e, o)

\* copy_zip_entry: the data is not as long as the directory says.
CopyFails == /\ pc = "align"
             /\ \E e \in left : IsNext(e) /\ ~e.dir /\ ~e.intact
             /\ Refuse("entries")

\* copy_zip_entry reads the data unpacked and the writer packs it again, to a size
\* that may be another one.
Repacked(e) == IF e.dir \/ e.stored THEN {e.packed} ELSE Deflated

Moved(e, at, packed) == [e EXCEPT !.at = at, !.packed = packed]

WriteEntry ==
  /\ pc = "align"
  /\ \E e \in left : \E packed \in Repacked(e) :
       LET at == round_up(written.end + 30 + e.name_len, Alignment(e, written.entries))
       IN  /\ IsNext(e) /\ (e.dir \/ e.intact)
           /\ left' = left \ {e}
           /\ written' = [entries |-> Append(written.entries, Moved(e, at, packed)),
                          end |-> at + packed,
                          cd_size |-> written.cd_size + 46 + e.name_len]
  /\ UNCHANGED <<pc, error, call, file, needs, index, code, blocks, sealed>>

\* writer.finish; an offset that does not fit its field is written as the
\* marker of a ZIP64 archive.
FinishArchive ==
  /\ pc = "align" /\ left = {}
  /\ LET field(n) == IF n <= MaxU32 THEN n ELSE MaxU32
     IN  file' = [entries |-> written.entries, block |-> NoBlock,
                  cd_offset |-> field(written.end),
                  cd_size |-> field(written.cd_size),
                  eocd_offset |-> written.end + written.cd_size]
  /\ pc' = "place"
  /\ UNCHANGED <<error, call, needs, left, written, index, code, blocks, sealed>>

-----------------------------------------------------------------------------
Block(type, id, len) ==
  [block_type |-> type, id |-> id, len |-> len, at |-> 0, tree_at |-> 0]

\* The second parse_hap.
ParseAgain ==
  /\ pc = "place"
  /\ parse_hap(file)
  /\ pc' = "keep"
  /\ UNCHANGED <<error, call, zip, index, code, blocks, sealed>>

\* preserved_optional_blocks, one row of the old block.
KeepBlock ==
  /\ pc = "keep" /\ index <= Len(Rows(file))
  /\ LET row == Rows(file)[index]
     IN  blocks' = IF IsPreserved(row) THEN Append(blocks, ReadRow(file, row)) ELSE blocks
  /\ index' = index + 1
  /\ UNCHANGED <<pc, error, call, zip, code, sealed>>

AddProfile ==
  /\ pc = "keep" /\ index > Len(Rows(file))
  /\ blocks' = Append(blocks, Block(TYPE_PROFILE, profile.id, profile.len))
  /\ index' = 1
  /\ pc' = IF needs THEN "collect" ELSE "digest"
  /\ UNCHANGED <<error, call, zip, code, sealed>>

\* Mutant: the row of the signer is forgotten.
code_sign_offset_NoSigner == BlockStart(file) + (Len(blocks) + 1) * ENTRY_SIZE + 12

\* Where the code-sign data will be: behind the table, with the rows of the
\* property and of the signer, and the first words of the property.
code_sign_offset == BlockStart(file) + (Len(blocks) + 2) * ENTRY_SIZE + 12

OwnerMissing == /\ pc = "collect"
                /\ ~OwnerKnown(profile)
                /\ Refuse("profile")

\* collect_code_sign_inputs, before its loop; the limits of its entries are
\* checked here for all of them.
CollectInputs ==
  /\ pc = "collect"
  /\ OwnerKnown(profile)
  /\ IF ~parse_hap(file) \/ HasSigningBlock(file) \/ ArchiveRefused(file.entries)
     THEN Refuse("structure")
     ELSE /\ code' = [code EXCEPT !.offset = code_sign_offset]
          /\ pc' = "entries"
          /\ UNCHANGED <<error, call, zip, index, blocks, sealed>>

\* Its loop: code is aligned up to the first entry that is not code, where the
\* data under the HAP's tree ends.
CollectEntry ==
  /\ pc = "entries" /\ index <= Len(file.entries)
  /\ LET e == file.entries[index]
     IN  IF ~code.found /\ e.at % FSVERITY_BLOCK_SIZE # 0
         THEN Refuse("structure")
         ELSE /\ code' = [code EXCEPT
                           !.data_size = IF ~code.found /\ ~IsRunnable(e) THEN e.at ELSE @,
                           !.found = @ \/ ~IsRunnable(e),
                           !.natives = IF ~e.dir /\ is_native_name(e) THEN Append(@, e) ELSE @]
              /\ index' = index + 1
              /\ UNCHANGED <<pc, error, call, zip, blocks, sealed>>

\* The place of the tree, on the first page behind the header.
PlaceTree ==
  /\ pc = "entries" /\ index > Len(file.entries)
  /\ code' = [code EXCEPT
       !.tree_offset = round_up(code.offset + CODE_SIGN_FIXED_HEADER_SIZE,
                                FSVERITY_BLOCK_SIZE),
       !.trees = <<FirstTree(code.data_size)>>]
  /\ pc' = "tree"
  /\ UNCHANGED <<error, call, zip, index, blocks, sealed>>

-----------------------------------------------------------------------------
\* generate_fsverity of the HAP's code, then of each native file: the loop of
\* generate_merkle_tree adds levels until one fits a page.
tree == code.trees[Len(code.trees)]

AddLevel ==
  /\ pc = "tree"
  /\ ~TreeDone(tree)
  /\ LET level == LevelSize(TopLevel(tree))
     IN  code' = [code EXCEPT !.trees[Len(code.trees)] =
                    [data_len |-> tree.data_len,
                     levels |-> Append(tree.levels, level),
                     size |-> tree.size + level]]
  /\ UNCHANGED <<pc, error, call, zip, index, blocks, sealed>>

\* Its CMS and encode_sign_info, and the next native file if there is one.
FinishTree ==
  /\ pc = "tree"
  /\ TreeDone(tree)
  /\ \E cms_len \in CmsSizes :
       LET infos == code.infos_size + SignInfoSize(cms_len, Len(code.trees) = 1)
       IN  IF Len(code.trees) <= Len(code.natives)
           THEN LET native == code.natives[Len(code.trees)]
                IN  /\ code' = [code EXCEPT !.trees = Append(@, FirstTree(native.size)),
                                            !.names_size = @ + native.name_len,
                                            !.infos_size = infos]
                    /\ pc' = pc
           ELSE code' = [code EXCEPT !.infos_size = infos] /\ pc' = "property"
  /\ UNCHANGED <<error, call, zip, index, blocks, sealed>>

ZeroPadding == code.tree_offset - (code.offset + CODE_SIGN_FIXED_HEADER_SIZE)

\* The header, the tree and the three segments.
CodeSignSize ==
  CODE_SIGN_FIXED_HEADER_SIZE + ZeroPadding + code.trees[1].size
  + FSVERITY_SEGMENT_SIZE + 4
  + NativeSegmentSize(Len(code.natives), code.names_size, code.infos_size)

PropertyFits == fits_u32(CodeSignSize) /\ fits_u32(code.offset)

PropertyTooLarge == /\ pc = "property"
                    /\ ~PropertyFits
                    /\ Refuse("size")

\* The property goes in front of the other blocks.
InsertProperty ==
  /\ pc = "property"
  /\ PropertyFits
  /\ blocks' = <<[block_type |-> TYPE_PROPERTY, id |-> "code sign",
                  len |-> 12 + CodeSignSize,
                  at |-> code.offset, tree_at |-> code.tree_offset]>> \o blocks
  /\ pc' = "digest"
  /\ UNCHANGED <<error, call, zip, index, code, sealed>>

-----------------------------------------------------------------------------
\* compute_content_digest over the file up to `before`, the central directory,
\* the end record with `cd_offset` in it, and the values of the blocks.
compute_content_digest(f, before, cd_offset, contents) ==
  [entries |-> f.entries, before |-> before, cd_size |-> f.cd_size,
   cd_offset |-> cd_offset,
   chunks |-> div_ceil(before, CHUNK_SIZE) + div_ceil(f.cd_size, CHUNK_SIZE) + 1,
   values |-> contents]

\* Mutant: the end record still has the old offset while it is digested.
DigestContent_OldEnd ==
  /\ pc = "digest"
  /\ digest' = compute_content_digest(file, BlockStart(file), file.cd_offset, blocks)
  /\ \E cms_len \in CmsSizes :
       blocks' = Append(blocks, Block(TYPE_SIGNER, "cms", cms_len))
  /\ pc' = "rows"
  /\ UNCHANGED <<error, call, zip, index, code, rows, values, output>>

\* The digest, and the signer's block with the CMS over it.
DigestContent ==
  /\ pc = "digest"
  /\ digest' = compute_content_digest(file, BlockStart(file), BlockStart(file), blocks)
  /\ \E cms_len \in CmsSizes :
       blocks' = Append(blocks, Block(TYPE_SIGNER, "cms", cms_len))
  /\ pc' = "rows"
  /\ UNCHANGED <<error, call, zip, index, code, rows, values, output>>

\* `offset` of encode_signing_block, counted from the block.
NextOffset == IF rows = <<>> THEN TableSize(blocks)
              ELSE rows[Len(rows)].offset + rows[Len(rows)].length

\* Its first loop, over the table.
EncodeRow ==
  /\ pc = "rows" /\ Len(rows) < Len(blocks)
  /\ LET block == blocks[Len(rows) + 1]
     IN  /\ fits_u32(block.len) /\ fits_u32(NextOffset)
         /\ rows' = Append(rows, [block_type |-> block.block_type,
                                  length |-> block.len, offset |-> NextOffset])
  /\ UNCHANGED <<pc, error, call, zip, index, code, blocks, digest, values, output>>

RowTooLarge ==
  /\ pc = "rows" /\ Len(rows) < Len(blocks)
  /\ ~fits_u32(blocks[Len(rows) + 1].len) \/ ~fits_u32(NextOffset)
  /\ Refuse("size")

EndTable ==
  /\ pc = "rows" /\ Len(rows) = Len(blocks)
  /\ pc' = "values"
  /\ UNCHANGED <<error, call, zip, index, code, blocks, sealed>>

\* The length of what is written: the table and the values behind it.
Written == IF values = <<>> THEN TableSize(rows)
           ELSE values[Len(values)].offset + values[Len(values)].value.len

\* Its second loop, over the values.
EncodeValue ==
  /\ pc = "values" /\ Len(values) < Len(blocks)
  /\ values' = Append(values, [offset |-> Written, value |-> blocks[Len(values) + 1]])
  /\ UNCHANGED <<pc, error, call, zip, index, code, blocks, digest, rows, output>>

\* Mutant: the trailer is not counted.
NewDirectory_NoTrailer == BlockStart(file) + Written

NewDirectory == BlockStart(file) + Written + SIGNING_TRAILER_SIZE

OutputTooLarge ==
  /\ pc = "values" /\ Len(values) = Len(blocks)
  /\ ~fits_u32(NewDirectory)
  /\ Refuse("size")

WriteOutput ==
  /\ pc = "values" /\ Len(values) = Len(blocks)
  /\ fits_u32(NewDirectory)
  /\ output' = [entries |-> file.entries,
                block |-> [magic |-> TRUE, size |-> NextOffset + SIGNING_TRAILER_SIZE,
                           rows |-> rows, values |-> values],
                cd_offset |-> NewDirectory, cd_size |-> file.cd_size,
                eocd_offset |-> NewDirectory + file.cd_size]
  /\ pc' = "done"
  /\ UNCHANGED <<error, call, zip, index, code, blocks, digest, rows, values>>

-----------------------------------------------------------------------------
\* The user gives the signed file to be signed again.
SignAgain ==
  /\ pc = "done" /\ round < MaxRounds
  /\ round' = round + 1
  /\ \E p \in Profiles : profile' = p
  /\ pc' = "parse" /\ error' = "none"
  /\ input' = output /\ file' = output
  /\ needs' = FALSE /\ left' = {} /\ written' = NoArchive
  /\ index' = 1 /\ code' = NoCode /\ blocks' = <<>>
  /\ digest' = NoDigest /\ rows' = <<>> /\ values' = <<>> /\ output' = EmptyFile

Rest == pc \in {"done", "refused"} /\ UNCHANGED vars

Next ==
  \/ Unreadable \/ EntriesRefused \/ ParseInput
  \/ CopyFails \/ WriteEntry \/ FinishArchive
  \/ ParseAgain \/ KeepBlock \/ AddProfile
  \/ OwnerMissing \/ CollectInputs \/ CollectEntry \/ PlaceTree
  \/ AddLevel \/ FinishTree \/ PropertyTooLarge \/ InsertProperty
  \/ DigestContent \/ EncodeRow \/ RowTooLarge \/ EndTable
  \/ EncodeValue \/ OutputTooLarge \/ WriteOutput
  \/ SignAgain \/ Rest

Spec == Init /\ [][Next]_vars

-----------------------------------------------------------------------------
\* Among the types: no offset or length of a signed file is wider than its
\* field, what does not fit is refused (sign.rs:110-113, 154-165).
TypeOK ==
  /\ pc \in Stages
  /\ error \in Errors
  /\ input \in File /\ file \in File /\ output \in File
  /\ profile \in Profiles
  /\ needs \in BOOLEAN
  /\ left \subseteq Entry
  /\ written \in Archive
  /\ index \in Nat \ {0}
  /\ code \in Code
  /\ blocks \in Seq(BlockValue)
  /\ rows \in Seq(Row)
  /\ values \in Seq(Placed)
  /\ round \in Nat

Done == pc = "done"

\* The signed file can be read again, and where its block begins the old one
\* began (sign.rs:83-123 writes what format.rs reads).
OutputReadable ==
  Done => /\ parse_hap(output)
          /\ HasSigningBlock(output)
          /\ BlockStart(output) = BlockStart(file)

\* A verifier that follows the rows of the signed file to the values, and
\* digests what it reads with the block's start in the end record, comes to
\* the digest that was signed; only the last row is a signer's.
VerifierAccepts ==
  Done =>
    LET start == BlockStart(output)
        last  == Len(Rows(output))
    IN  /\ OfType(output, TYPE_SIGNER) = {last}
        /\ digest = compute_content_digest(output, start, start,
                      [i \in 1 .. last - 1 |-> ReadRow(output, Rows(output)[i])])

\* The code-sign data of a property begins where the property says.
InPlace(f, row) == ReadRow(f, row).at = BlockStart(f) + row.offset + 12

\* A block as sign_hap lays it out: one property, the first of three rows and
\* right behind the table.
OneInFront(f) == /\ Len(Rows(f)) = 3
                 /\ OfType(f, TYPE_PROPERTY) = {1}
                 /\ Rows(f)[1].offset = TableSize(Rows(f))

\* The offset that build_code_sign_property was told before the block existed
\* (sign.rs:62-74) is the one the property has in the signed file; the tree it
\* announces begins on a page, behind the header and before the block's end.
CodeSignInPlace ==
  Done /\ needs =>
    /\ OneInFront(output)
    /\ InPlace(output, Rows(output)[1])
    /\ code.tree_offset % FSVERITY_BLOCK_SIZE = 0
    /\ code.tree_offset >= code.offset + CODE_SIGN_FIXED_HEADER_SIZE
    /\ code.tree_offset + code.trees[1].size <= output.cd_offset

\* Signing a signed file again keeps its property and leaves it where the
\* offsets inside it point, if the file's block was laid out as sign_hap does
\* (signing_block.rs:9-31 keeps the bytes, not the place).
ResignKeepsPlace ==
  Done /\ ~needs /\ OneInFront(input) =>
    /\ OneInFront(output)
    /\ ReadRow(output, Rows(output)[1]) = ReadRow(input, Rows(input)[1])
    /\ InPlace(input, Rows(input)[1]) => InPlace(output, Rows(output)[1])

\* The part of the file under the Merkle tree is all of its code and nothing
\* that signing moves; every native file has a tree of its own.  An archive of
\* code alone has no such part (code_sign.rs:416, unwrap_or(0)).
Resources(entries) == {i \in DOMAIN entries : ~IsRunnable(entries[i])}

CodeCovered ==
  Done /\ needs =>
    /\ code.data_size <= BlockStart(output)
    /\ Resources(output.entries) # {} =>
         \A i \in DOMAIN output.entries :
           LET e == output.entries[i]
           IN  IsRunnable(e) => /\ e.at % FSVERITY_BLOCK_SIZE = 0
                                /\ e.at + e.packed <= code.data_size
    /\ \A i \in DOMAIN output.entries :
         LET e == output.entries[i]
         IN  IsRunnable(e) /\ is_native_name(e) =>
               \E j \in DOMAIN code.natives : /\ code.natives[j] = e
                                              /\ code.trees[j + 1].data_len = e.size

\* fs-verity counts the pages of level k in closed form, and finds them behind
\* all higher levels; a tree has the levels it expects, each where it looks
\* for it (code_sign.rs:93-144).
Arity == FSVERITY_BLOCK_SIZE \div SHA256_SIZE

Power[k \in Nat] == IF k = 0 THEN 1 ELSE Arity * Power[k - 1]

VerifierPages(data_len, k) ==
  div_ceil(div_ceil(data_len, FSVERITY_BLOCK_SIZE), Power[k])

VerifierFinds(t) ==
  LET depth == Len(t.levels)
      start(k) == FoldSeq(+, 0, [j \in 1 .. depth - k |-> VerifierPages(t.data_len, k + j)])
  IN  /\ VerifierPages(t.data_len, depth) <= 1
      /\ \A k \in 0 .. depth - 1 : VerifierPages(t.data_len, k) > 1
      /\ Len(tree_pages(t)) * FSVERITY_BLOCK_SIZE = t.size
      /\ \A k \in 1 .. depth : \A i \in 1 .. VerifierPages(t.data_len, k) :
           tree_pages(t)[start(k) + i] = <<k, i>>

TreesVerify == pc = "property" => \A i \in DOMAIN code.trees : VerifierFinds(code.trees[i])

\* What align_zip_for_code_sign has written is never refused as misaligned, as
\* still signed or for its entries by collect_code_sign_inputs.
AlignedIsAccepted == error # "structure"

\* Signing loses no entry but the page bitmap of an archive it lays out again.
\* Its block has the new profile and no other, and as many properties as before,
\* or the new one where there is code to sign; rotations of the old block, which
\* vouch for the old signer, are dropped (sign.rs:44-60).
NothingLost ==
  Done =>
    LET names(f) == {e.name : e \in {x \in Range(f.entries) : needs => x.kind # "pages"}}
    IN  /\ names(output) = names(input)
        /\ Len(output.entries) = Cardinality(names(input))
        /\ \E i \in OfType(output, TYPE_PROFILE) :
             /\ OfType(output, TYPE_PROFILE) = {i}
             /\ ReadRow(output, Rows(output)[i]).id = profile.id
        /\ OfType(output, "rotation") = {}
        /\ Cardinality(OfType(output, TYPE_PROPERTY))
             = IF needs THEN 1 ELSE Cardinality(OfType(input, TYPE_PROPERTY))
=============================================================================
