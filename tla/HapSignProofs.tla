---------------------------- MODULE HapSignProofs ----------------------------
(* Theorems about HapSign, for files, profiles and limits of any size.      *)
EXTENDS HapSign, SequenceTheorems, TLAPS

-----------------------------------------------------------------------------
(* Arithmetic. *)

LEMMA Division ==
  ASSUME NEW n \in Nat, NEW a \in Nat \ {0}
  PROVE  n = a * (n \div a) + (n % a) /\ n % a \in 0 .. (a - 1) /\ n \div a \in Nat
OBVIOUS

LEMMA Multiple ==
  ASSUME NEW q \in Nat, NEW a \in Nat \ {0}
  PROVE  (q * a) % a = 0
OBVIOUS

\* round_up gives the next multiple.
LEMMA RoundUp ==
  ASSUME NEW n \in Nat, NEW a \in Nat \ {0}
  PROVE  /\ round_up(n, a) \in Nat /\ round_up(n, a) >= n /\ round_up(n, a) < n + a
         /\ round_up(n, a) % a = 0
<1> DEFINE m == n + a - 1
<1>1. m \in Nat
  OBVIOUS
<1> HIDE DEF m
<1>2. m = a * (m \div a) + (m % a) /\ m % a \in 0 .. (a - 1) /\ m \div a \in Nat
  BY <1>1, Division
<1> DEFINE q == m \div a
<1>3. q \in Nat /\ q * a = m - (m % a)
  BY <1>1, <1>2
<1>4. round_up(n, a) = q * a
  BY DEF round_up, m
<1>5. round_up(n, a) % a = 0
  BY <1>3, <1>4, Multiple
<1> QED BY <1>2, <1>3, <1>4, <1>5 DEF m

\* Products keep the order.
LEMMA TimesOrder ==
  ASSUME NEW p \in Int, NEW q \in Int, NEW a \in Nat \ {0}
  PROVE  /\ p <= q <=> p * a <= q * a
         /\ p < q <=> p * a < q * a
<1>1. ASSUME NEW d \in Nat PROVE d * a \in Nat /\ (d > 0 => d * a > 0)
  OBVIOUS
<1>2. CASE p <= q
  <2>1. (q - p) * a = q * a - p * a /\ q - p \in Nat
    BY <1>2
  <2>2. (q - p) * a \in Nat /\ (q - p > 0 => (q - p) * a > 0)
    BY <1>1, <2>1
  <2> QED BY <2>1, <2>2
<1>3. CASE q < p
  <2>1. (p - q) * a = p * a - q * a /\ p - q \in Nat
    BY <1>3
  <2>2. (p - q) * a \in Nat /\ (p - q > 0 => (p - q) * a > 0)
    BY <1>1, <2>1
  <2> QED BY <1>3, <2>1, <2>2
<1> QED BY <1>2, <1>3

\* No multiple lies between a number and its round_up.
LEMMA RoundUpLeast ==
  ASSUME NEW n \in Nat, NEW a \in Nat \ {0}, NEW k \in Nat, n <= k * a
  PROVE  round_up(n, a) <= k * a
<1> DEFINE q == (n + a - 1) \div a
<1>1. q \in Nat /\ round_up(n, a) = q * a
  BY DEF round_up
<1>2. q * a < n + a
  BY <1>1, RoundUp
<1> HIDE DEF q
<1>3. q * a \in Int /\ k * a \in Int /\ (k + 1) * a = k * a + a
  BY <1>1
<1>4. q * a < (k + 1) * a
  BY <1>2, <1>3
<1>5. q < k + 1
  BY <1>1, <1>4, TimesOrder
<1>6. q * a <= k * a
  BY <1>1, <1>5, TimesOrder
<1> QED BY <1>1, <1>6

LEMMA DivCeil ==
  ASSUME NEW n \in Nat, NEW a \in Nat \ {0}
  PROVE  /\ div_ceil(n, a) \in Nat
         /\ div_ceil(n, a) * a >= n /\ div_ceil(n, a) * a < n + a
         /\ n > 0 => div_ceil(n, a) > 0
<1> DEFINE q == div_ceil(n, a)
<1>1. q \in Nat /\ round_up(n, a) = q * a
  BY DEF div_ceil, round_up
<1>2. q * a >= n /\ q * a < n + a
  BY <1>1, RoundUp
<1> HIDE DEF q
<1>3. q = 0 => q * a = 0
  OBVIOUS
<1>4. n > 0 => q > 0
  BY <1>1, <1>2, <1>3
<1> QED BY <1>1, <1>2, <1>4 DEF q

LEMMA Two ==
  ASSUME NEW a, NEW b
  PROVE  <<a>> \o <<b>> = <<a, b>> /\ Append(<<a>>, b) = <<a, b>>
<1> DEFINE S == {a, b}
<1>1. /\ <<a>> \in Seq(S) /\ <<b>> \in Seq(S) /\ <<a, b>> \in Seq(S) /\ b \in S
      /\ Len(<<a>>) = 1 /\ Len(<<b>>) = 1 /\ Len(<<a, b>>) = 2
      /\ <<a>>[1] = a /\ <<b>>[1] = b /\ <<a, b>>[1] = a /\ <<a, b>>[2] = b
  OBVIOUS
<1> HIDE DEF S
<1>2. ASSUME NEW s \in Seq(S), Len(s) = 2, s[1] = a, s[2] = b PROVE s = <<a, b>>
  <2>1. \A i \in 1 .. Len(s) : i = 1 \/ i = 2
    BY <1>2
  <2>2. \A i \in 1 .. Len(s) : s[i] = <<a, b>>[i]
    BY <1>1, <1>2, <2>1
  <2> QED BY <1>1, <1>2, <2>2, SeqEqual
<1>3. /\ <<a>> \o <<b>> \in Seq(S) /\ Len(<<a>> \o <<b>>) = 2
      /\ (<<a>> \o <<b>>)[1] = a /\ (<<a>> \o <<b>>)[2] = b
  <2>1. \A i \in 1 .. 2 : (<<a>> \o <<b>>)[i] = IF i <= 1 THEN <<a>>[i] ELSE <<b>>[i - 1]
    BY <1>1, ConcatProperties
  <2>2. 1 \in 1 .. 2 /\ 2 \in 1 .. 2 /\ 2 - 1 = 1
    OBVIOUS
  <2> QED BY <1>1, <2>1, <2>2, ConcatProperties
<1>4. /\ Append(<<a>>, b) \in Seq(S) /\ Len(Append(<<a>>, b)) = 2
      /\ Append(<<a>>, b)[1] = a /\ Append(<<a>>, b)[2] = b
  BY <1>1, AppendProperties
<1> QED BY <1>2, <1>3, <1>4

LEMMA One ==
  ASSUME NEW S, NEW s \in Seq(S), Len(s) = 1
  PROVE  s = <<s[1]>>
OBVIOUS

LEMMA Three ==
  ASSUME NEW S, NEW s \in Seq(S), NEW a \in S
  PROVE  Len(s) = 2 =>
           /\ Len(Append(s, a)) = 3
           /\ Append(s, a)[1] = s[1] /\ Append(s, a)[2] = s[2] /\ Append(s, a)[3] = a
<1>1. /\ Len(Append(s, a)) = Len(s) + 1 /\ Append(s, a)[Len(s) + 1] = a
      /\ \A i \in 1 .. Len(s) : Append(s, a)[i] = s[i]
  BY AppendProperties
<1>2. SUFFICES ASSUME Len(s) = 2
               PROVE  /\ Len(Append(s, a)) = 3
                      /\ Append(s, a)[1] = s[1] /\ Append(s, a)[2] = s[2]
                      /\ Append(s, a)[3] = a
  OBVIOUS
<1>3. Len(s) + 1 = 3 /\ 1 \in 1 .. Len(s) /\ 2 \in 1 .. Len(s)
  BY <1>2
<1> QED BY <1>1, <1>3

\* A level is some whole pages.
LEMMA LevelType ==
  ASSUME NEW below \in Nat \ {0}
  PROVE  /\ LevelSize(below) \in Nat \ {0}
         /\ LevelSize(below) % FSVERITY_BLOCK_SIZE = 0
<1> DEFINE pages == div_ceil(below, FSVERITY_BLOCK_SIZE)
           digests == pages * SHA256_SIZE
<1>1. FSVERITY_BLOCK_SIZE \in Nat \ {0} /\ SHA256_SIZE \in Nat \ {0} /\ below > 0
  BY PageAssumption
<1>2. pages \in Nat /\ pages > 0
  BY <1>1, DivCeil
<1>3. LevelSize(below) = round_up(digests, FSVERITY_BLOCK_SIZE)
  BY DEF LevelSize
<1> HIDE DEF pages
<1>4. digests \in Nat /\ digests > 0
  BY <1>1, <1>2
<1> HIDE DEF digests
<1> QED BY <1>1, <1>3, <1>4, RoundUp

\* The loop of generate_merkle_tree ends: the level above one of several pages is
\* smaller (code_sign.rs:113-128).
THEOREM LevelsShrink ==
  ASSUME NEW below \in Nat, below > FSVERITY_BLOCK_SIZE
  PROVE  LevelSize(below) < below
<1> DEFINE P == FSVERITY_BLOCK_SIZE
           S == SHA256_SIZE
           pages == div_ceil(below, P)
<1>1. P \in Nat \ {0} /\ S \in Nat \ {0} /\ P >= 2 * S
  BY PageAssumption
<1>2. pages \in Nat /\ pages * P >= below /\ pages * P < below + P
  BY <1>1, DivCeil
<1>3. LevelSize(below) = round_up(pages * S, P)
  BY DEF LevelSize
<1> HIDE DEF P, S, pages
<1>4. below > P
  BY DEF P
<1>5. pages >= 2
  <2>1. 1 * P < pages * P
    BY <1>1, <1>2, <1>4
  <2> QED BY <1>1, <1>2, <2>1, TimesOrder
<1>6. pages * S <= (pages - 1) * P
  <2>1. pages * S + pages * S = pages * (2 * S) /\ pages * S \in Int
    BY <1>1, <1>2
  <2>2. (2 * S) * pages <= P * pages
    <3> DEFINE twice == 2 * S
    <3>1. twice \in Int /\ P \in Int /\ pages \in Nat \ {0} /\ twice <= P
      BY <1>1, <1>2, <1>5
    <3> HIDE DEF twice
    <3>2. twice * pages <= P * pages
      BY <3>1, TimesOrder
    <3> QED BY <3>2 DEF twice
  <2>3. (pages - 1) * P + (pages - 1) * P = pages * P + (pages - 2) * P
    BY <1>1, <1>2
  <2>4. (pages - 2) * P >= 0 /\ (pages - 2) * P \in Int /\ (pages - 1) * P \in Int
    BY <1>1, <1>2, <1>5
  <2>5. (2 * S) * pages = pages * (2 * S) /\ P * pages = pages * P
    BY <1>1, <1>2
  <2> DEFINE d == pages * S
             e == (pages - 1) * P
             f == pages * P
             g == (pages - 2) * P
  <2>6. d + d <= f
    BY <2>1, <2>2, <2>5
  <2>7. e + e = f + g /\ g >= 0 /\ f \in Int /\ g \in Int /\ e \in Int /\ d \in Int
    BY <1>1, <1>2, <2>1, <2>3, <2>4
  <2> HIDE DEF d, e, f, g
  <2>8. d <= e
    BY <2>6, <2>7
  <2> QED BY <2>8 DEF d, e
<1>7. round_up(pages * S, P) <= (pages - 1) * P
  <2>1. pages * S \in Nat /\ pages - 1 \in Nat
    BY <1>1, <1>2, <1>5
  <2> QED BY <1>1, <1>6, <2>1, RoundUpLeast
<1>8. (pages - 1) * P = pages * P - P
  BY <1>1, <1>2
<1>9. round_up(pages * S, P) \in Nat
  <2>1. pages * S \in Nat
    BY <1>1, <1>2
  <2> QED BY <1>1, <2>1, RoundUp
<1> QED BY <1>1, <1>2, <1>3, <1>7, <1>8, <1>9

-----------------------------------------------------------------------------
(* Types. *)

LEMMA FileFacts ==
  ASSUME NEW f \in File
  PROVE  /\ f.entries \in Seq(Entry) /\ Rows(f) \in Seq(Row)
         /\ f.cd_offset \in U32 /\ f.cd_size \in U32 /\ f.eocd_offset \in Nat
         /\ f.block \in RawBlock
         /\ parse_hap(f) => BlockStart(f) \in Nat
<1>1. f.block \in RawBlock /\ f.cd_offset \in Nat
  BY DEF File, U32
<1>2. Rows(f) \in Seq(Row)
  BY <1>1 DEF Rows, RawBlock
<1>3. parse_hap(f) => BlockStart(f) \in Nat
  BY <1>1 DEF parse_hap, BlockAccepted, BlockStart, RawBlock, SIGNING_TRAILER_SIZE
<1> QED BY <1>1, <1>2, <1>3 DEF File

\* What is read through a row is a value of the row's type.
LEMMA ReadRowType ==
  ASSUME NEW f \in File, NEW row \in Row
  PROVE  ReadRow(f, row) \in BlockValue /\ ReadRow(f, row).block_type = row.block_type
<1> DEFINE found == {j \in DOMAIN f.block.values :
                       /\ f.block.values[j].offset = row.offset
                       /\ f.block.values[j].value.len = row.length}
<1>1. /\ row.block_type \in BlockTypes /\ row.length \in Nat \ {0}
      /\ f.block.values \in Seq(Placed)
  BY DEF File, RawBlock, Row, U32
<1>2. CASE found = {}
  <2>1. ReadRow(f, row) = Garbage(row)
    BY <1>2 DEF ReadRow
  <2>2. "garbage" \in Ids
    BY IdsAssumption
  <2> QED BY <1>1, <2>1, <2>2 DEF Garbage, BlockValue
<1>3. CASE found # {}
  <2> DEFINE j == CHOOSE k \in found : TRUE
  <2>1. j \in found
    BY <1>3, SMTT(30)
  <2>2. ReadRow(f, row) = [f.block.values[j].value EXCEPT !.block_type = row.block_type]
    BY <1>3, ZenonT(30) DEF ReadRow
  <2> HIDE DEF j
  <2>3. f.block.values[j].value \in BlockValue
    <3>1. f.block.values[j] \in Placed
      BY <1>1, <2>1
    <3> QED BY <3>1 DEF Placed
  <2> QED BY <1>1, <2>2, <2>3, SMTT(30) DEF BlockValue
<1> QED BY <1>2, <1>3

LEMMA PaddingType ==
  ASSUME NEW n \in Nat
  PROVE  padding4(n) \in Nat
<1>1. n % 4 \in 0 .. 3
  OBVIOUS
<1>2. 4 - (n % 4) \in Nat
  BY <1>1
<1> DEFINE k == 4 - (n % 4)
<1> HIDE DEF k
<1>3. k \in Nat => k % 4 \in Nat
  OBVIOUS
<1> QED BY <1>2, <1>3 DEF padding4, k

LEMMA SignInfoType ==
  ASSUME NEW n \in Nat, NEW b \in BOOLEAN
  PROVE  SignInfoSize(n, b) \in Nat
BY PaddingType DEF SignInfoSize

LEMMA FirstTreeType ==
  ASSUME NEW n \in Nat
  PROVE  FirstTree(n) \in Tree
<1>1. FSVERITY_BLOCK_SIZE \in Nat \ {0}
  BY PageAssumption
<1>2. CASE n <= FSVERITY_BLOCK_SIZE
  BY <1>2 DEF FirstTree, Tree
<1>3. CASE ~(n <= FSVERITY_BLOCK_SIZE)
  <2>1. LevelSize(n) \in Nat \ {0}
    BY <1>1, <1>3, LevelType
  <2> HIDE DEF LevelSize
  <2>2. <<LevelSize(n)>> \in Seq(Nat \ {0})
    BY <2>1
  <2> QED BY <1>3, <2>1, <2>2 DEF FirstTree, Tree
<1> QED BY <1>2, <1>3

\* While trees are made there is one.
TreesMade == pc \in {"tree", "property"} => code.trees # <<>>

TypeInv == TypeOK /\ TreesMade

LEMMA InitType == Init => TypeInv
<1> SUFFICES ASSUME Init PROVE TypeInv
  OBVIOUS
<1>1. PICK f \in Inputs, p \in Profiles : Begin(f, p)
  BY DEF Init
<1>2. f \in File
  BY InputsAssumption
<1>3. NoArchive \in Archive /\ NoCode \in Code
  BY DEF NoArchive, Archive, NoCode, Code
<1>4. EmptyFile \in File
  BY MaxU32Assumption DEF EmptyFile, File, NoBlock, RawBlock, U32
<1>5. p \in Profiles /\ round = 1
  BY DEF Init
<1> HIDE DEF Init
<1>6. pc \in Stages /\ error \in Errors /\ TreesMade
  BY <1>1 DEF Begin, TreesMade, Stages, Errors
<1>7. input \in File /\ file \in File /\ output \in File /\ profile \in Profiles
  BY <1>1, <1>2, <1>4, <1>5 DEF Begin
<1>8. written \in Archive /\ code \in Code
  BY <1>1, <1>3 DEF Begin
<1>9. /\ needs = FALSE /\ left = {} /\ index = 1
      /\ blocks = <<>> /\ rows = <<>> /\ values = <<>>
  BY <1>1 DEF Begin
<1>10. index \in Nat \ {0} /\ round \in Nat
  BY <1>5, <1>9
<1>11. needs \in BOOLEAN /\ left \subseteq Entry
  BY <1>9
<1>12. blocks \in Seq(BlockValue) /\ rows \in Seq(Row) /\ values \in Seq(Placed)
  BY <1>9
<1> QED BY <1>6, <1>7, <1>8, <1>10, <1>11, <1>12 DEF TypeInv, TypeOK

\* A refusal only ends the call.
LEMMA RefuseType ==
  ASSUME TypeInv, NEW why \in Errors, Refuse(why)
  PROVE  TypeInv'
BY DEF TypeInv, TypeOK, TreesMade, Refuse, call, zip, sealed, Stages

LEMMA PartStart == parse_hap(file) /\ TypeOK => BlockStart(file) \in Nat
BY FileFacts DEF TypeOK

\* The size of an entry that is written again.
LEMMA RepackedIs ==
  ASSUME NEW e \in Entry
  PROVE  Repacked(e) \subseteq Nat
BY InputsAssumption DEF Repacked, Entry

\* Reading the input and laying out the archive.
LEMMA AlignType ==
  ASSUME TypeInv, ParseInput \/ WriteEntry \/ FinishArchive \/ ParseAgain
  PROVE  TypeInv'
<1> USE DEF TypeInv, TypeOK, TreesMade, call, zip, sealed
<1>1. CASE ParseInput
  <2>1. file.entries \in Seq(Entry)
    BY FileFacts
  <2>2. EntryPlans(file.entries) \subseteq Entry
    BY <2>1 DEF EntryPlans, Range
  <2>3. pc' \in Stages /\ left' \subseteq Entry /\ pc' \notin {"tree", "property"}
    BY <1>1, <2>2 DEF ParseInput, Stages
  <2>4. needs' \in BOOLEAN
    BY <1>1 DEF ParseInput, has_runnable_files
  <2> QED BY <1>1, <2>3, <2>4 DEF ParseInput
<1>2. CASE WriteEntry
  <2> DEFINE at(e) == round_up(written.end + 30 + e.name_len, Alignment(e, written.entries))
  <2>1. PICK e \in left, packed \in Nat :
          /\ left' = left \ {e}
          /\ written' = [entries |-> Append(written.entries, Moved(e, at(e), packed)),
                         end |-> at(e) + packed,
                         cd_size |-> written.cd_size + 46 + e.name_len]
    BY <1>2, RepackedIs DEF WriteEntry
  <2>2. e \in Entry /\ packed \in Nat /\ written \in Archive
    OBVIOUS
  <2>3. Alignment(e, written.entries) \in Nat \ {0}
    BY PageAssumption DEF Alignment
  <2>4. at(e) \in Nat
    <3>1. written.end + 30 + e.name_len \in Nat
      BY <2>2 DEF Entry, Archive
    <3> QED BY <2>3, <3>1, RoundUp
  <2> HIDE DEF at
  <2>5. Moved(e, at(e), packed) \in Entry
    BY <2>2, <2>4 DEF Entry, Moved
  <2>6. written' \in Archive
    <3>1. Append(written.entries, Moved(e, at(e), packed)) \in Seq(Entry)
      BY <2>2, <2>5 DEF Archive
    <3>2. at(e) + packed \in Nat
      BY <2>2, <2>4
    <3>3. written.cd_size \in Nat /\ e.name_len \in Nat
      BY <2>2 DEF Entry, Archive
    <3> QED BY <2>1, <3>1, <3>2, <3>3 DEF Archive
  <2> QED BY <1>2, <2>1, <2>6 DEF WriteEntry
<1>3. CASE FinishArchive
  <2>1. file' \in File
    <3>1. written.entries \in Seq(Entry) /\ written.end \in Nat /\ written.cd_size \in Nat
      BY DEF Archive
    <3>2. NoBlock \in RawBlock
      BY DEF NoBlock, RawBlock
    <3> DEFINE field(n) == IF n <= MaxU32 THEN n ELSE MaxU32
    <3>3. field(written.end) \in U32 /\ field(written.cd_size) \in U32
      BY <3>1, MaxU32Assumption DEF U32
    <3>4. file' = [entries |-> written.entries, block |-> NoBlock,
                   cd_offset |-> field(written.end), cd_size |-> field(written.cd_size),
                   eocd_offset |-> written.end + written.cd_size]
      BY <1>3 DEF FinishArchive
    <3> HIDE DEF field
    <3> QED BY <3>1, <3>2, <3>3, <3>4 DEF File
  <2> QED BY <1>3, <2>1 DEF FinishArchive, Stages
<1>4. CASE ParseAgain
  BY <1>4 DEF ParseAgain, Stages
<1> QED BY <1>1, <1>2, <1>3, <1>4

\* The blocks in front of the property.
LEMMA KeepType ==
  ASSUME TypeInv, KeepBlock \/ AddProfile
  PROVE  TypeInv'
<1> USE DEF TypeInv, TypeOK, TreesMade, call, zip, sealed
<1>1. CASE KeepBlock
  <2>1. Rows(file)[index] \in Row
    BY <1>1, FileFacts DEF KeepBlock
  <2>2. ReadRow(file, Rows(file)[index]) \in BlockValue
    BY <2>1, ReadRowType
  <2>3. blocks' \in Seq(BlockValue)
    BY <1>1, <2>2 DEF KeepBlock
  <2> QED BY <1>1, <2>3 DEF KeepBlock
<1>2. CASE AddProfile
  <2>1. profile \in Profile
    BY InputsAssumption
  <2>2. Block(TYPE_PROFILE, profile.id, profile.len) \in BlockValue
    BY <2>1 DEF Block, BlockValue, Profile, BlockTypes
  <2> QED BY <1>2, <2>2 DEF AddProfile, Stages
<1> QED BY <1>1, <1>2

\* The inputs of the property, and the place of its tree.
LEMMA CollectType ==
  ASSUME TypeInv, CollectInputs \/ CollectEntry \/ PlaceTree
  PROVE  TypeInv'
<1> USE DEF TypeInv, TypeOK, TreesMade, call, zip, sealed
<1>1. CASE CollectInputs
  <2>1. CASE Refuse("structure")
    BY <2>1, RefuseType DEF Errors
  <2>2. CASE ~Refuse("structure")
    <3>1. parse_hap(file) /\ code' = [code EXCEPT !.offset = code_sign_offset]
      BY <1>1, <2>2 DEF CollectInputs
    <3>2. code_sign_offset \in Nat
      BY <3>1, PartStart DEF code_sign_offset, ENTRY_SIZE
    <3>3. code' \in Code
      BY <3>1, <3>2 DEF Code
    <3> QED BY <1>1, <2>2, <3>3 DEF CollectInputs, Stages
  <2> QED BY <2>1, <2>2
<1>2. CASE CollectEntry
  <2>1. CASE Refuse("structure")
    BY <2>1, RefuseType DEF Errors
  <2>2. CASE ~Refuse("structure")
    <3> DEFINE e == file.entries[index]
    <3>1. e \in Entry
      BY <1>2, FileFacts DEF CollectEntry
    <3>2. code' = [code EXCEPT
             !.data_size = IF ~code.found /\ ~IsRunnable(e) THEN e.at ELSE @,
             !.found = @ \/ ~IsRunnable(e),
             !.natives = IF ~e.dir /\ is_native_name(e) THEN Append(@, e) ELSE @]
      BY <1>2, <2>2 DEF CollectEntry
    <3> HIDE DEF e
    <3>3. code' \in Code
      <4>1. e.at \in Nat /\ (code.found \/ ~IsRunnable(e)) \in BOOLEAN
        BY <3>1 DEF Entry
      <4>2. /\ (IF ~code.found /\ ~IsRunnable(e) THEN e.at ELSE code.data_size) \in Nat
            /\ (IF ~e.dir /\ is_native_name(e) THEN Append(code.natives, e)
                ELSE code.natives) \in Seq(Entry)
        BY <3>1, <4>1 DEF Code
      <4> QED BY <3>2, <4>1, <4>2 DEF Code
    <3> QED BY <1>2, <2>2, <3>3 DEF CollectEntry, Stages
  <2> QED BY <2>1, <2>2
<1>3. CASE PlaceTree
  <2>1. code.offset + CODE_SIGN_FIXED_HEADER_SIZE \in Nat /\ code.data_size \in Nat
    BY DEF Code, CODE_SIGN_FIXED_HEADER_SIZE
  <2>2. round_up(code.offset + CODE_SIGN_FIXED_HEADER_SIZE, FSVERITY_BLOCK_SIZE) \in Nat
    BY <2>1, RoundUp, PageAssumption
  <2>3. <<FirstTree(code.data_size)>> \in Seq(Tree) /\ <<FirstTree(code.data_size)>> # <<>>
    BY <2>1, FirstTreeType
  <2>4. code' \in Code /\ code'.trees # <<>>
    BY <1>3, <2>2, <2>3 DEF PlaceTree, Code
  <2> QED BY <1>3, <2>4 DEF PlaceTree, Stages
<1> QED BY <1>1, <1>2, <1>3

\* The trees and the property.
LEMMA TreeType ==
  ASSUME TypeInv, AddLevel \/ FinishTree \/ InsertProperty
  PROVE  TypeInv'
<1> USE DEF TypeInv, TypeOK, TreesMade, call, zip, sealed
<1>1. CASE AddLevel
  <2> DEFINE n == Len(code.trees)
             level == LevelSize(TopLevel(tree))
             more == [data_len |-> tree.data_len, levels |-> Append(tree.levels, level),
                      size |-> tree.size + level]
  <2>1. code.trees # <<>> /\ code.trees \in Seq(Tree)
    BY <1>1 DEF AddLevel, Code
  <2>2. n \in 1 .. Len(code.trees) /\ tree \in Tree
    BY <2>1 DEF tree
  <2>3. level \in Nat \ {0}
    <3>1. tree.levels # <<>> /\ tree.levels \in Seq(Nat \ {0})
      BY <1>1, <2>2 DEF AddLevel, TreeDone, Tree
    <3>2. TopLevel(tree) \in Nat \ {0}
      BY <3>1 DEF TopLevel
    <3> QED BY <3>2, LevelType
  <2>4. code' = [code EXCEPT !.trees[n] = more]
    BY <1>1 DEF AddLevel
  <2> HIDE DEF level, n
  <2>5. more \in Tree
    <3>1. tree.levels \in Seq(Nat \ {0}) /\ tree.size \in Nat /\ tree.data_len \in Nat
      BY <2>2 DEF Tree
    <3>2. Append(tree.levels, level) \in Seq(Nat \ {0}) /\ tree.size + level \in Nat
      BY <2>3, <3>1
    <3> QED BY <3>1, <3>2 DEF Tree
  <2> HIDE DEF more
  <2>6. [code.trees EXCEPT ![n] = more] \in Seq(Tree) /\ [code.trees EXCEPT ![n] = more] # <<>>
    BY <2>1, <2>2, <2>5
  <2>7. code' \in Code /\ code'.trees # <<>>
    BY <2>4, <2>6 DEF Code
  <2> QED BY <1>1, <2>7 DEF AddLevel
<1>2. CASE FinishTree
  <2> DEFINE n == Len(code.trees)
             infos(c) == code.infos_size + SignInfoSize(c, n = 1)
  <2>1. PICK c \in CmsSizes :
          IF n <= Len(code.natives)
          THEN /\ code' = [code EXCEPT !.trees = Append(@, FirstTree(code.natives[n].size)),
                             !.names_size = @ + code.natives[n].name_len,
                             !.infos_size = infos(c)]
               /\ pc' = pc
          ELSE code' = [code EXCEPT !.infos_size = infos(c)] /\ pc' = "property"
    BY <1>2 DEF FinishTree
  <2>2. code.trees # <<>> /\ code.trees \in Seq(Tree) /\ code.natives \in Seq(Entry)
    BY <1>2 DEF FinishTree, Code
  <2>3. infos(c) \in Nat
    <3>1. c \in Nat /\ code.infos_size \in Nat
      BY InputsAssumption DEF Code
    <3>2. SignInfoSize(c, n = 1) \in Nat
      BY <3>1, SignInfoType
    <3> QED BY <3>1, <3>2
  <2> HIDE DEF infos
  <2>4. CASE n <= Len(code.natives)
    <3>1. code.natives[n] \in Entry
      BY <2>2, <2>4
    <3>2. code.natives[n].size \in Nat /\ code.natives[n].name_len \in Nat
      BY <3>1 DEF Entry
    <3>3. FirstTree(code.natives[n].size) \in Tree
      BY <3>2, FirstTreeType
    <3> DEFINE next == FirstTree(code.natives[n].size)
               more == Append(code.trees, next)
               names == code.names_size + code.natives[n].name_len
    <3>4. more \in Seq(Tree) /\ more # <<>>
      BY <2>2, <3>3
    <3>5. names \in Nat
      <4>1. code.names_size \in Nat
        BY DEF Code
      <4> QED BY <3>2, <4>1, SMTT(30)
    <3>6. code' = [code EXCEPT !.trees = more, !.names_size = names, !.infos_size = infos(c)]
      BY <2>1, <2>4
    <3> HIDE DEF more, names, next
    <3>7. code' \in Code /\ code'.trees # <<>>
      BY <2>3, <3>4, <3>5, <3>6 DEF Code
    <3> QED BY <1>2, <2>1, <2>4, <3>7 DEF FinishTree
  <2>5. CASE ~(n <= Len(code.natives))
    <3>1. code' \in Code /\ code'.trees # <<>>
      BY <2>1, <2>2, <2>3, <2>5 DEF Code
    <3> QED BY <1>2, <2>1, <2>5, <3>1 DEF FinishTree, Stages
  <2> QED BY <2>4, <2>5
<1>3. CASE InsertProperty
  <2> DEFINE new == [block_type |-> TYPE_PROPERTY, id |-> "code sign",
                     len |-> 12 + CodeSignSize,
                     at |-> code.offset, tree_at |-> code.tree_offset]
  <2>1. CodeSignSize \in Nat
    <3>1. CodeSignSize \in U32
      BY <1>3 DEF InsertProperty, PropertyFits, fits_u32
    <3> HIDE DEF CodeSignSize
    <3> QED BY <3>1, MaxU32Assumption DEF U32
  <2>2. new \in BlockValue
    <3>1. 12 + CodeSignSize \in Nat \ {0} /\ code.offset \in Nat /\ code.tree_offset \in Nat
      BY <2>1 DEF Code
    <3>2. "code sign" \in Ids /\ TYPE_PROPERTY \in BlockTypes
      BY IdsAssumption DEF BlockTypes
    <3> QED BY <3>1, <3>2 DEF BlockValue
  <2>3. blocks' = <<new>> \o blocks
    BY <1>3 DEF InsertProperty
  <2> HIDE DEF new
  <2>4. blocks' \in Seq(BlockValue)
    BY <2>2, <2>3
  <2> QED BY <1>3, <2>4 DEF InsertProperty, Stages
<1> QED BY <1>1, <1>2, <1>3

\* The digest and the block that is written.
LEMMA SealType ==
  ASSUME TypeInv, DigestContent \/ EncodeRow \/ EndTable \/ EncodeValue \/ WriteOutput
  PROVE  TypeInv'
<1> USE DEF TypeInv, TypeOK, TreesMade, call, zip, sealed
<1>1. CASE DigestContent
  <2>1. PICK c \in CmsSizes : blocks' = Append(blocks, Block(TYPE_SIGNER, "cms", c))
    BY <1>1 DEF DigestContent
  <2>2. c \in Nat \ {0} /\ "cms" \in Ids
    BY InputsAssumption, IdsAssumption
  <2>3. Block(TYPE_SIGNER, "cms", c) \in BlockValue
    BY <2>2 DEF Block, BlockValue, BlockTypes
  <2> QED BY <1>1, <2>1, <2>3 DEF DigestContent, Stages
<1>2. CASE EncodeRow
  <2> DEFINE block == blocks[Len(rows) + 1]
             row == [block_type |-> block.block_type, length |-> block.len,
                     offset |-> NextOffset]
  <2>1. block \in BlockValue
    BY <1>2 DEF EncodeRow
  <2>2. block.len \in U32 /\ NextOffset \in U32 /\ rows' = Append(rows, row)
    BY <1>2 DEF EncodeRow, fits_u32
  <2> HIDE DEF block
  <2>3. row \in Row
    BY <2>1, <2>2 DEF BlockValue, Row
  <2> HIDE DEF row
  <2>4. rows' \in Seq(Row)
    BY <2>2, <2>3
  <2> QED BY <1>2, <2>4 DEF EncodeRow
<1>3. CASE EndTable
  BY <1>3 DEF EndTable, Stages
<1>4. CASE EncodeValue
  <2> DEFINE value == [offset |-> Written, value |-> blocks[Len(values) + 1]]
  <2>1. blocks[Len(values) + 1] \in BlockValue
    BY <1>4 DEF EncodeValue
  <2>2. Written \in Nat
    <3>1. CASE values = <<>>
      BY <3>1 DEF Written, TableSize, ENTRY_SIZE
    <3>2. CASE values # <<>>
      <4>1. values[Len(values)] \in Placed
        BY <3>2
      <4>2. values[Len(values)].value \in BlockValue /\ values[Len(values)].offset \in Nat
        BY <4>1 DEF Placed
      <4>3. values[Len(values)].value.len \in Nat
        BY <4>2 DEF BlockValue
      <4> QED BY <3>2, <4>2, <4>3 DEF Written
    <3> QED BY <3>1, <3>2
  <2>3. value \in Placed
    BY <2>1, <2>2 DEF Placed
  <2>4. values' = Append(values, value)
    BY <1>4 DEF EncodeValue
  <2> HIDE DEF value
  <2>5. values' \in Seq(Placed)
    BY <2>3, <2>4
  <2> QED BY <1>4, <2>5 DEF EncodeValue
<1>5. CASE WriteOutput
  <2> DEFINE block == [magic |-> TRUE, size |-> NextOffset + SIGNING_TRAILER_SIZE,
                       rows |-> rows, values |-> values]
  <2>1. NewDirectory \in U32
    BY <1>5 DEF WriteOutput, fits_u32
  <2>2. file.entries \in Seq(Entry) /\ file.cd_size \in U32
    BY FileFacts
  <2>3. NewDirectory + file.cd_size \in Nat
    BY <2>1, <2>2, MaxU32Assumption DEF U32
  <2>4. NextOffset \in Nat
    <3>1. CASE rows = <<>>
      BY <3>1 DEF NextOffset, TableSize, ENTRY_SIZE
    <3>2. CASE rows # <<>>
      <4>1. rows[Len(rows)] \in Row
        BY <3>2
      <4> QED BY <3>2, <4>1, MaxU32Assumption DEF NextOffset, Row, U32
    <3> QED BY <3>1, <3>2
  <2>5. block \in RawBlock
    BY <2>4 DEF RawBlock, SIGNING_TRAILER_SIZE
  <2>6. output' = [entries |-> file.entries, block |-> block,
                   cd_offset |-> NewDirectory, cd_size |-> file.cd_size,
                   eocd_offset |-> NewDirectory + file.cd_size]
    BY <1>5 DEF WriteOutput
  <2> HIDE DEF block
  <2>7. output' \in File
    BY <2>1, <2>2, <2>3, <2>5, <2>6 DEF File
  <2> QED BY <1>5, <2>7 DEF WriteOutput, Stages
<1> QED BY <1>1, <1>2, <1>3, <1>4, <1>5

LEMMA AgainType ==
  ASSUME TypeInv, SignAgain
  PROVE  TypeInv'
<1> USE DEF TypeInv, TypeOK
<1>1. PICK p \in Profiles : profile' = p
  BY DEF SignAgain
<1>2. NoArchive \in Archive /\ NoCode \in Code
  BY DEF NoArchive, Archive, NoCode, Code
<1>3. EmptyFile \in File
  BY MaxU32Assumption DEF EmptyFile, File, NoBlock, RawBlock, U32
<1>4. /\ pc' = "parse" /\ error' = "none" /\ round' = round + 1
      /\ input' = output /\ file' = output /\ output' = EmptyFile
      /\ needs' = FALSE /\ left' = {} /\ written' = NoArchive /\ code' = NoCode
      /\ index' = 1 /\ blocks' = <<>> /\ rows' = <<>> /\ values' = <<>>
  BY DEF SignAgain
<1>5. pc' \in Stages /\ error' \in Errors /\ TreesMade'
  BY <1>4 DEF Stages, Errors, TreesMade
<1>6. input' \in File /\ file' \in File /\ output' \in File /\ profile' \in Profiles
  BY <1>1, <1>3, <1>4
<1>7. index' \in Nat \ {0} /\ round' \in Nat
  BY <1>4
<1>8. needs' \in BOOLEAN /\ left' \subseteq Entry
  BY <1>4
<1>9. blocks' \in Seq(BlockValue) /\ rows' \in Seq(Row) /\ values' \in Seq(Placed)
  BY <1>4
<1> QED BY <1>2, <1>4, <1>5, <1>6, <1>7, <1>8, <1>9

LEMMA StopsType ==
  ASSUME TypeInv,
         Unreadable \/ EntriesRefused \/ CopyFails \/ OwnerMissing \/ PropertyTooLarge
         \/ RowTooLarge \/ OutputTooLarge
  PROVE  TypeInv'
<1>1. PICK why \in Errors : Refuse(why)
  BY DEF Unreadable, EntriesRefused, CopyFails, OwnerMissing, PropertyTooLarge,
         RowTooLarge, OutputTooLarge, Errors
<1> QED BY <1>1, RefuseType

LEMMA TypeStep == TypeInv /\ [Next]_vars => TypeInv'
<1> SUFFICES ASSUME TypeInv, [Next]_vars PROVE TypeInv'
  OBVIOUS
<1>1. CASE UNCHANGED vars
  BY <1>1 DEF vars, call, zip, sealed, TypeInv, TypeOK, TreesMade
<1>2. CASE Next
  BY <1>1, <1>2, StopsType, AlignType, KeepType, CollectType, TreeType, SealType, AgainType
     DEF Next, Rest
<1> QED BY <1>1, <1>2

\* The state keeps its types: no offset or length that is written is wider than
\* its field (TypeOK of HapSign), for files and limits of any size.
THEOREM TypeCorrect == Spec => []TypeOK
<1>1. TypeInv => TypeOK
  BY DEF TypeInv
<1> QED BY <1>1, InitType, TypeStep, PTL DEF Spec

-----------------------------------------------------------------------------
(* The signed file can be read, and what is read is what was signed.  The     *)
(* invariant says how the table and the values follow the blocks while they   *)
(* are written: rows that follow one another without a gap, values where the  *)
(* rows say, and a digest of all blocks but the last.                         *)

Gathering == {"keep", "collect", "entries", "tree", "property", "digest"}
Writing   == {"rows", "values", "done"}

RowsLaid ==
  /\ Len(rows) <= Len(blocks)
  /\ \A i \in 1 .. Len(rows) : /\ rows[i].block_type = blocks[i].block_type
                               /\ rows[i].length = blocks[i].len
                               /\ rows[i].offset >= TableSize(blocks)
  /\ rows # <<>> => rows[1].offset = TableSize(blocks)
  /\ \A i \in 1 .. Len(rows) - 1 : rows[i + 1].offset = rows[i].offset + rows[i].length
  /\ \A i, j \in 1 .. Len(rows) : i < j => rows[i].offset + rows[i].length <= rows[j].offset

ValuesLaid ==
  /\ Len(rows) = Len(blocks)
  /\ Len(values) <= Len(rows)
  /\ \A i \in 1 .. Len(values) : /\ values[i].value = blocks[i]
                                 /\ values[i].offset = rows[i].offset

SignerLast ==
  /\ blocks # <<>>
  /\ \A i \in 1 .. Len(blocks) : blocks[i].block_type = TYPE_SIGNER <=> i = Len(blocks)
  /\ digest = compute_content_digest(file, BlockStart(file), BlockStart(file),
                [i \in 1 .. Len(blocks) - 1 |-> blocks[i]])

Signed ==
  [entries |-> file.entries,
   block |-> [magic |-> TRUE, size |-> NextOffset + SIGNING_TRAILER_SIZE,
              rows |-> rows, values |-> values],
   cd_offset |-> NewDirectory, cd_size |-> file.cd_size,
   eocd_offset |-> NewDirectory + file.cd_size]

LayoutInv ==
  /\ pc \in Gathering \cup Writing => parse_hap(file)
  /\ pc \in {"parse", "align", "place"} => blocks = <<>> /\ index = 1
  /\ pc \in {"parse", "align", "place"} \cup Gathering => rows = <<>> /\ values = <<>>
  /\ pc = "rows" => values = <<>>
  /\ pc \in Gathering => \A i \in 1 .. Len(blocks) : blocks[i].block_type # TYPE_SIGNER
  /\ pc \in Writing => SignerLast /\ RowsLaid
  /\ pc \in {"values", "done"} => ValuesLaid
  /\ pc = "done" => Len(values) = Len(blocks) /\ output = Signed

LEMMA InitLayout == Init => LayoutInv
BY DEF Init, Begin, LayoutInv, Gathering, Writing

\* Up to the digest.
LEMMA GatherLayout ==
  ASSUME TypeInv, LayoutInv,
         ParseInput \/ WriteEntry \/ FinishArchive \/ ParseAgain \/ KeepBlock \/ AddProfile
         \/ CollectInputs \/ CollectEntry \/ PlaceTree \/ AddLevel \/ FinishTree
         \/ InsertProperty
  PROVE  LayoutInv'
<1> USE DEF LayoutInv, Gathering, Writing, call, zip, sealed
<1>1. CASE ParseInput \/ WriteEntry \/ FinishArchive
  BY <1>1 DEF ParseInput, WriteEntry, FinishArchive
<1>2. CASE ParseAgain
  BY <1>2 DEF ParseAgain
<1>3. CASE KeepBlock \/ AddProfile
  <2>1. \A i \in 1 .. Len(blocks') : blocks'[i].block_type # TYPE_SIGNER
    <3>1. \/ blocks' = blocks
          \/ \E b \in BlockValue : blocks' = Append(blocks, b) /\ b.block_type # TYPE_SIGNER
      <4>1. CASE KeepBlock
        <5>1. Rows(file)[index] \in Row
          BY <4>1, FileFacts DEF KeepBlock, TypeInv, TypeOK
        <5>2. /\ ReadRow(file, Rows(file)[index]) \in BlockValue
              /\ ReadRow(file, Rows(file)[index]).block_type = Rows(file)[index].block_type
          BY <5>1, ReadRowType DEF TypeInv, TypeOK
        <5>3. CASE IsPreserved(Rows(file)[index])
          BY <4>1, <5>2, <5>3 DEF KeepBlock, IsPreserved, TYPE_PROPERTY, TYPE_SIGNER
        <5>4. CASE ~IsPreserved(Rows(file)[index])
          BY <4>1, <5>4 DEF KeepBlock
        <5> QED BY <5>3, <5>4
      <4>2. CASE AddProfile
        <5>1. profile \in Profile
          BY InputsAssumption DEF TypeInv, TypeOK
        <5>2. Block(TYPE_PROFILE, profile.id, profile.len) \in BlockValue
          BY <5>1 DEF Block, BlockValue, Profile, BlockTypes
        <5> QED BY <4>2, <5>2 DEF AddProfile, Block, TYPE_PROFILE, TYPE_SIGNER
      <4> QED BY <1>3, <4>1, <4>2
    <3>2. /\ blocks \in Seq(BlockValue)
          /\ \A i \in 1 .. Len(blocks) : blocks[i].block_type # TYPE_SIGNER
      BY <1>3 DEF TypeInv, TypeOK, KeepBlock, AddProfile
    <3> QED BY <3>1, <3>2
  <2> QED BY <1>3, <2>1 DEF KeepBlock, AddProfile
<1>4. CASE CollectInputs \/ CollectEntry \/ PlaceTree \/ AddLevel \/ FinishTree
  <2>1. /\ pc' \in {"entries", "tree", "property", "refused"}
        /\ pc \in {"collect", "entries", "tree"}
        /\ UNCHANGED <<file, blocks, rows, values, output, digest>>
    BY <1>4 DEF CollectInputs, CollectEntry, PlaceTree, AddLevel, FinishTree, Refuse
  <2> QED BY <2>1, SMTT(30)
<1>5. CASE InsertProperty
  <2> DEFINE new == [block_type |-> TYPE_PROPERTY, id |-> "code sign",
                     len |-> 12 + CodeSignSize,
                     at |-> code.offset, tree_at |-> code.tree_offset]
  <2>1. blocks \in Seq(BlockValue) /\ blocks' = <<new>> \o blocks
    BY <1>5 DEF InsertProperty, TypeInv, TypeOK
  <2>2. new.block_type # TYPE_SIGNER
    BY DEF TYPE_PROPERTY, TYPE_SIGNER
  <2> HIDE DEF new
  <2>3. \A i \in 1 .. Len(blocks) : blocks[i].block_type # TYPE_SIGNER
    BY <1>5 DEF InsertProperty
  <2>4. \A i \in 1 .. Len(blocks') : blocks'[i].block_type # TYPE_SIGNER
    BY <2>1, <2>2, <2>3
  <2> QED BY <1>5, <2>4 DEF InsertProperty
<1> QED BY <1>1, <1>2, <1>3, <1>4, <1>5

\* The digest, when the signer is put behind the blocks it is about.
LEMMA DigestLayout ==
  ASSUME TypeInv, LayoutInv, DigestContent
  PROVE  LayoutInv'
<1> USE DEF LayoutInv, Gathering, Writing, zip
<1>1. PICK c \in CmsSizes : blocks' = Append(blocks, Block(TYPE_SIGNER, "cms", c))
  BY DEF DigestContent
<1>2. /\ blocks \in Seq(BlockValue)
      /\ \A i \in 1 .. Len(blocks) : blocks[i].block_type # TYPE_SIGNER
  BY DEF TypeInv, TypeOK, DigestContent
<1>3. Block(TYPE_SIGNER, "cms", c).block_type = TYPE_SIGNER
  BY DEF Block
<1>4. /\ blocks' # <<>> /\ Len(blocks') = Len(blocks) + 1
      /\ \A i \in 1 .. Len(blocks) : blocks'[i] = blocks[i]
      /\ blocks'[Len(blocks')] = Block(TYPE_SIGNER, "cms", c)
  BY <1>1, <1>2
<1>5. \A i \in 1 .. Len(blocks') : blocks'[i].block_type = TYPE_SIGNER <=> i = Len(blocks')
  BY <1>2, <1>3, <1>4
<1>6. blocks = [i \in 1 .. Len(blocks') - 1 |-> blocks'[i]]
  BY <1>2, <1>4
<1>7. SignerLast'
  BY <1>4, <1>5, <1>6 DEF SignerLast, DigestContent
<1>8. RowsLaid'
  BY <1>2, <1>4 DEF RowsLaid, DigestContent
<1> QED BY <1>7, <1>8 DEF DigestContent

\* A row of the table.
LEMMA RowLayout ==
  ASSUME TypeInv, LayoutInv, EncodeRow
  PROVE  LayoutInv'
<1> USE DEF LayoutInv, Gathering, Writing, zip
<1> DEFINE n == Len(rows)
           row == [block_type |-> blocks[n + 1].block_type, length |-> blocks[n + 1].len,
                   offset |-> NextOffset]
<1>1. /\ rows \in Seq(Row) /\ blocks \in Seq(BlockValue) /\ RowsLaid
      /\ n < Len(blocks) /\ rows' = Append(rows, row)
      /\ UNCHANGED <<file, blocks, digest, values, output, pc>> /\ pc = "rows"
  BY DEF TypeInv, TypeOK, EncodeRow
<1>2. /\ row.block_type = blocks[n + 1].block_type /\ row.length = blocks[n + 1].len
      /\ row.offset = NextOffset
  OBVIOUS
<1>3. row.length \in Nat /\ TableSize(blocks) \in Nat
  <2>1. blocks[n + 1] \in BlockValue
    BY <1>1
  <2>2. blocks[n + 1].len \in Nat
    BY <2>1 DEF BlockValue
  <2> QED BY <1>1, <2>2 DEF TableSize, ENTRY_SIZE
<1>4. \A i \in 1 .. n : rows[i].offset \in Nat /\ rows[i].length \in Nat
  <2>1. \A r \in Row : r.offset \in Nat /\ r.length \in Nat
    BY MaxU32Assumption DEF Row, U32
  <2> QED BY <1>1, <2>1
<1>5. /\ n = 0 => NextOffset = TableSize(blocks)
      /\ n > 0 => NextOffset = rows[n].offset + rows[n].length
  BY <1>1 DEF NextOffset
<1>6. NextOffset \in Nat /\ NextOffset >= TableSize(blocks)
  BY <1>1, <1>3, <1>4, <1>5, SMTT(30) DEF RowsLaid
<1>7. \A i \in 1 .. n : rows[i].offset + rows[i].length <= NextOffset
  BY <1>1, <1>4, <1>5, SMTT(30) DEF RowsLaid
<1> HIDE DEF row
<1>8. /\ Len(rows') = n + 1 /\ rows'[n + 1] = row
      /\ \A i \in 1 .. n : rows'[i] = rows[i]
  BY <1>1
<1> HIDE DEF n
<1>9. n \in Nat /\ n = Len(rows)
  BY <1>1 DEF n
<1>10. /\ Len(rows') <= Len(blocks)
       /\ \A i \in 1 .. Len(rows') : /\ rows'[i].block_type = blocks[i].block_type
                                     /\ rows'[i].length = blocks[i].len
                                     /\ rows'[i].offset >= TableSize(blocks)
  <2>1. \A i \in 1 .. Len(rows') : i \in 1 .. n \/ i = n + 1
    BY <1>8, <1>9
  <2>2. \A i \in 1 .. n : /\ rows[i].block_type = blocks[i].block_type
                          /\ rows[i].length = blocks[i].len
                          /\ rows[i].offset >= TableSize(blocks)
    BY <1>1, <1>9 DEF RowsLaid
  <2> QED BY <1>1, <1>2, <1>6, <1>8, <1>9, <2>1, <2>2
<1>11. rows'[1].offset = TableSize(blocks)
  BY <1>1, <1>2, <1>5, <1>8, <1>9 DEF RowsLaid
<1>12. \A i \in 1 .. Len(rows') - 1 : rows'[i + 1].offset = rows'[i].offset + rows'[i].length
  <2>1. \A i \in 1 .. Len(rows') - 1 : i \in 1 .. n /\ (i = n \/ (i \in 1 .. n - 1 /\ i + 1 \in 1 .. n))
    BY <1>8, <1>9
  <2>2. \A i \in 1 .. n - 1 : rows[i + 1].offset = rows[i].offset + rows[i].length
    BY <1>1, <1>9 DEF RowsLaid
  <2> QED BY <1>2, <1>5, <1>8, <1>9, <2>1, <2>2
<1>13. \A i, j \in 1 .. Len(rows') : i < j => rows'[i].offset + rows'[i].length <= rows'[j].offset
  <2>1. \A i, j \in 1 .. Len(rows') : i < j =>
          i \in 1 .. n /\ (j = n + 1 \/ j \in 1 .. n)
    BY <1>8, <1>9
  <2>2. \A i, j \in 1 .. n : i < j => rows[i].offset + rows[i].length <= rows[j].offset
    BY <1>1, <1>9 DEF RowsLaid
  <2> QED BY <1>2, <1>7, <1>8, <1>9, <2>1, <2>2
<1>14. RowsLaid'
  BY <1>1, <1>10, <1>11, <1>12, <1>13 DEF RowsLaid, TableSize
<1>15. SignerLast'
  BY <1>1 DEF SignerLast, BlockStart, HasSigningBlock, compute_content_digest
<1> QED BY <1>1, <1>14, <1>15

\* A value, behind those that are written.
LEMMA ValueLayout ==
  ASSUME TypeInv, LayoutInv, EncodeValue
  PROVE  LayoutInv'
<1> USE DEF LayoutInv, Gathering, Writing, zip
<1> DEFINE n == Len(values)
           value == [offset |-> Written, value |-> blocks[n + 1]]
<1>1. /\ rows \in Seq(Row) /\ blocks \in Seq(BlockValue) /\ values \in Seq(Placed)
      /\ RowsLaid /\ ValuesLaid /\ n < Len(blocks) /\ values' = Append(values, value)
      /\ UNCHANGED <<file, blocks, digest, rows, output, pc>> /\ pc = "values"
  BY DEF TypeInv, TypeOK, EncodeValue
<1>2. /\ value.offset = Written /\ value.value = blocks[n + 1]
  OBVIOUS
<1>3. Written = rows[n + 1].offset
  <2>1. CASE n = 0
    <3>1. Written = TableSize(rows)
      BY <1>1, <2>1 DEF Written
    <3>2. rows # <<>> /\ TableSize(rows) = TableSize(blocks)
      BY <1>1, <2>1 DEF ValuesLaid, TableSize
    <3> QED BY <2>1, <3>1, <3>2, <1>1 DEF RowsLaid
  <2>2. CASE n > 0
    <3>1. Written = values[n].offset + values[n].value.len
      BY <1>1, <2>2 DEF Written
    <3>2. n \in 1 .. Len(values) /\ n \in 1 .. Len(rows) - 1
      BY <1>1, <2>2 DEF ValuesLaid
    <3>3. values[n].offset = rows[n].offset /\ values[n].value = blocks[n]
      BY <1>1, <3>2 DEF ValuesLaid
    <3>4. rows[n].length = blocks[n].len /\ rows[n + 1].offset = rows[n].offset + rows[n].length
      BY <1>1, <3>2 DEF RowsLaid
    <3> QED BY <3>1, <3>3, <3>4
  <2> QED BY <1>1, <2>1, <2>2
<1> HIDE DEF value
<1>4. /\ Len(values') = n + 1 /\ values'[n + 1] = value
      /\ \A i \in 1 .. n : values'[i] = values[i]
  BY <1>1
<1>5. ValuesLaid'
  <2>1. \A i \in 1 .. Len(values') : i \in 1 .. n \/ i = n + 1
    BY <1>1, <1>4
  <2>2. \A i \in 1 .. n : values[i].value = blocks[i] /\ values[i].offset = rows[i].offset
    BY <1>1 DEF ValuesLaid
  <2>3. Len(rows) = Len(blocks) /\ Len(values') <= Len(rows)
    BY <1>1, <1>4 DEF ValuesLaid
  <2> QED BY <1>1, <1>2, <1>3, <1>4, <2>1, <2>2, <2>3 DEF ValuesLaid
<1>6. RowsLaid' /\ SignerLast'
  BY <1>1 DEF RowsLaid, SignerLast, BlockStart, HasSigningBlock, compute_content_digest
<1> QED BY <1>1, <1>5, <1>6

\* The other steps of writing, and the next call.
LEMMA WriteLayout ==
  ASSUME TypeInv, LayoutInv, EndTable \/ WriteOutput \/ SignAgain \/ UNCHANGED vars
  PROVE  LayoutInv'
<1> USE DEF LayoutInv, Gathering, Writing, zip, call, sealed
<1> DEFINE Same == /\ RowsLaid' = RowsLaid /\ SignerLast' = SignerLast
                   /\ ValuesLaid' = ValuesLaid
<1>1. UNCHANGED <<file, blocks, digest, rows, values>> => Same
  BY DEF RowsLaid, SignerLast, ValuesLaid, BlockStart, HasSigningBlock,
         compute_content_digest
<1>2. CASE EndTable
  <2>1. ValuesLaid
    <3>1. values = <<>> /\ Len(rows) = Len(blocks) /\ rows \in Seq(Row)
      BY <1>2 DEF EndTable, TypeInv, TypeOK
    <3> QED BY <3>1 DEF ValuesLaid
  <2> QED BY <1>1, <1>2, <2>1 DEF EndTable
<1>3. CASE WriteOutput
  <2>1. output' = Signed'
    BY <1>3 DEF WriteOutput, Signed, NewDirectory, Written, NextOffset, BlockStart,
                HasSigningBlock
  <2> QED BY <1>1, <1>3, <2>1 DEF WriteOutput
<1>4. CASE SignAgain
  BY <1>4 DEF SignAgain
<1>5. CASE UNCHANGED vars
  <2>1. UNCHANGED Signed
    BY <1>5 DEF vars, Signed, NewDirectory, Written, NextOffset, BlockStart, HasSigningBlock
  <2> QED BY <1>1, <1>5, <2>1 DEF vars
<1> QED BY <1>2, <1>3, <1>4, <1>5

LEMMA StopsLayout ==
  ASSUME LayoutInv,
         Unreadable \/ EntriesRefused \/ CopyFails \/ OwnerMissing \/ PropertyTooLarge
         \/ RowTooLarge \/ OutputTooLarge
  PROVE  LayoutInv'
<1>1. pc' = "refused"
  BY DEF Unreadable, EntriesRefused, CopyFails, OwnerMissing, PropertyTooLarge,
         RowTooLarge, OutputTooLarge, Refuse
<1> QED BY <1>1 DEF LayoutInv, Gathering, Writing

LEMMA LayoutStep == TypeInv /\ LayoutInv /\ [Next]_vars => LayoutInv'
<1> SUFFICES ASSUME TypeInv, LayoutInv, [Next]_vars PROVE LayoutInv'
  OBVIOUS
<1>1. CASE UNCHANGED vars
  BY <1>1, WriteLayout
<1>2. CASE Next
  BY <1>2, StopsLayout, GatherLayout, DigestLayout, RowLayout, ValueLayout, WriteLayout
     DEF Next, Rest
<1> QED BY <1>1, <1>2

\* What a reader of the signed file finds through its rows is what was put in.
LEMMA SignedFacts ==
  ASSUME TypeInv, LayoutInv, Done
  PROVE  /\ HasSigningBlock(output) /\ BlockStart(output) = BlockStart(file)
         /\ BlockAccepted(output.block, output.cd_offset)
         /\ Rows(output) = rows /\ Len(rows) = Len(blocks)
         /\ \A i \in 1 .. Len(rows) : ReadRow(output, rows[i]) = blocks[i]
         /\ Len(blocks) > 0
         /\ output.cd_offset = BlockStart(file) + rows[Len(rows)].offset
                               + rows[Len(rows)].length + SIGNING_TRAILER_SIZE
<1> DEFINE n == Len(rows)
<1>1. /\ rows \in Seq(Row) /\ blocks \in Seq(BlockValue) /\ values \in Seq(Placed)
      /\ RowsLaid /\ ValuesLaid /\ SignerLast
      /\ Len(values) = Len(blocks) /\ output = Signed /\ parse_hap(file)
  BY DEF TypeInv, TypeOK, LayoutInv, Done, Gathering, Writing
<1>2. n \in Nat /\ n > 0 /\ n = Len(blocks) /\ n = Len(values)
  BY <1>1 DEF ValuesLaid, SignerLast
<1>3. BlockStart(file) \in Nat
  BY <1>1, PartStart DEF TypeInv
<1>4. \A i \in 1 .. n : rows[i].offset \in Nat /\ rows[i].length \in Nat \ {0}
  <2>1. \A r \in Row : r.offset \in Nat /\ r.length \in Nat \ {0}
    BY MaxU32Assumption DEF Row, U32
  <2> QED BY <1>1, <2>1
<1> DEFINE end == rows[n].offset + rows[n].length
<1>5. NextOffset = end
  BY <1>1, <1>2 DEF NextOffset
<1>6. Written = end
  <2>1. Written = values[n].offset + values[n].value.len
    BY <1>1, <1>2 DEF Written
  <2>2. values[n].offset = rows[n].offset /\ values[n].value = blocks[n]
    BY <1>2, <1>1 DEF ValuesLaid
  <2>3. rows[n].length = blocks[n].len
    BY <1>2, <1>1 DEF RowsLaid
  <2> QED BY <2>1, <2>2, <2>3
<1>7. end \in Nat /\ end >= 12 * n
  <2>1. rows[n].offset >= TableSize(blocks)
    BY <1>1, <1>2 DEF RowsLaid
  <2> QED BY <1>2, <1>4, <2>1 DEF TableSize, ENTRY_SIZE
<1> HIDE DEF end, n
<1>8. /\ output.cd_offset = BlockStart(file) + end + 32
      /\ output.block.magic = TRUE /\ output.block.size = end + 32
      /\ output.block.rows = rows /\ output.block.values = values
  BY <1>1, <1>5, <1>6 DEF Signed, NewDirectory, SIGNING_TRAILER_SIZE
<1>9. HasSigningBlock(output)
  BY <1>3, <1>7, <1>8 DEF HasSigningBlock, SIGNING_TRAILER_SIZE
<1>10. BlockStart(output) = BlockStart(file) /\ Rows(output) = rows
  BY <1>3, <1>7, <1>8, <1>9 DEF BlockStart, Rows
<1>11. \A i \in 1 .. n : /\ rows[i].offset >= 12 * n
                         /\ rows[i].offset + rows[i].length <= end
  <2> SUFFICES ASSUME NEW i \in 1 .. n
               PROVE  /\ rows[i].offset >= 12 * n
                      /\ rows[i].offset + rows[i].length <= end
    OBVIOUS
  <2>1. rows[i].offset >= 12 * n
    BY <1>1, <1>2 DEF RowsLaid, TableSize, ENTRY_SIZE, n
  <2>2. i < n => rows[i].offset + rows[i].length <= rows[n].offset
    BY <1>1, <1>2 DEF RowsLaid, n
  <2>3. i \in Nat /\ (i = n \/ i < n) /\ n \in 1 .. n
    BY <1>2
  <2>4. /\ rows[i].offset \in Nat /\ rows[i].length \in Nat
        /\ rows[n].offset \in Nat /\ rows[n].length \in Nat
    BY <1>4, <2>3
  <2>5. rows[n].offset + rows[n].length = end
    BY DEF end
  <2>6. CASE i = n
    BY <2>1, <2>5, <2>6, <1>7
  <2>7. CASE i < n
    <3>1. rows[i].offset + rows[i].length <= rows[n].offset
      BY <2>2, <2>7
    <3>2. rows[n].offset <= end
      BY <2>4, <2>5
    <3> QED BY <2>1, <2>4, <3>1, <3>2, <1>7
  <2> QED BY <2>3, <2>6, <2>7
<1>12. BlockAccepted(output.block, output.cd_offset)
  <2>1. DOMAIN rows = 1 .. n /\ TableSize(rows) = 12 * n
    BY <1>1, <1>2 DEF n, TableSize, ENTRY_SIZE
  <2>2. output.block.size \in 32 .. output.cd_offset
    BY <1>3, <1>7, <1>8
  <2> QED BY <1>7, <1>8, <1>11, <2>1, <2>2 DEF BlockAccepted, SIGNING_TRAILER_SIZE
<1>13. ASSUME NEW i \in 1 .. n PROVE ReadRow(output, rows[i]) = blocks[i]
  <2> DEFINE found == {j \in DOMAIN values : /\ values[j].offset = rows[i].offset
                                             /\ values[j].value.len = rows[i].length}
  <2>1. DOMAIN values = 1 .. n
    BY <1>1, <1>2 DEF n
  <2>2. \A j \in 1 .. n : /\ values[j].offset = rows[j].offset
                          /\ values[j].value = blocks[j]
                          /\ blocks[j].len = rows[j].length
                          /\ blocks[j].block_type = rows[j].block_type
    BY <1>1, <1>2 DEF ValuesLaid, RowsLaid, n
  <2>3. i \in found
    BY <2>1, <2>2
  <2>4. ASSUME NEW j \in found PROVE j = i
    <3>1. j \in 1 .. n /\ rows[j].offset = rows[i].offset
      BY <2>1, <2>2
    <3>2. j < i => rows[j].offset + rows[j].length <= rows[i].offset
      BY <1>1, <1>2, <3>1 DEF RowsLaid, n
    <3>3. i < j => rows[i].offset + rows[i].length <= rows[j].offset
      BY <1>1, <1>2, <3>1 DEF RowsLaid, n
    <3> QED BY <1>2, <1>4, <3>1, <3>2, <3>3
  <2>5. (CHOOSE k \in found : TRUE) = i
    BY <2>3, <2>4
  <2>6. ReadRow(output, rows[i]) = [values[i].value EXCEPT !.block_type = rows[i].block_type]
    BY <1>8, <2>3, <2>5 DEF ReadRow
  <2>7. blocks[i] \in BlockValue
    BY <1>1, <1>2
  <2> QED BY <2>2, <2>6, <2>7 DEF BlockValue
<1>14. end = rows[Len(rows)].offset + rows[Len(rows)].length
  BY DEF end, n
<1>15. /\ n = Len(rows) /\ Len(rows) = Len(blocks) /\ Len(blocks) > 0
  BY <1>2 DEF n
<1>16. \A i \in 1 .. Len(rows) : ReadRow(output, rows[i]) = blocks[i]
  BY <1>13, <1>15
<1>17. output.cd_offset = BlockStart(file) + rows[Len(rows)].offset
                          + rows[Len(rows)].length + SIGNING_TRAILER_SIZE
  <2>1. /\ rows[Len(rows)].offset \in Nat /\ rows[Len(rows)].length \in Nat
    BY <1>2, <1>4, <1>15
  <2> QED BY <1>3, <1>8, <1>14, <2>1, SMTT(30) DEF SIGNING_TRAILER_SIZE
<1> QED BY <1>9, <1>10, <1>12, <1>15, <1>16, <1>17

LEMMA ReadableLemma == TypeInv /\ LayoutInv => OutputReadable
<1> SUFFICES ASSUME TypeInv, LayoutInv, Done
             PROVE  /\ parse_hap(output) /\ HasSigningBlock(output)
                    /\ BlockStart(output) = BlockStart(file)
  BY DEF OutputReadable
<1>1. output = Signed
  BY DEF LayoutInv, Done
<1>2. output.cd_offset + output.cd_size = output.eocd_offset
  BY <1>1 DEF Signed
<1> QED BY <1>2, SignedFacts DEF parse_hap

LEMMA AcceptLemma == TypeInv /\ LayoutInv => VerifierAccepts
<1> SUFFICES ASSUME TypeInv, LayoutInv, Done
             PROVE  LET start == BlockStart(output)
                        last  == Len(Rows(output))
                    IN  /\ OfType(output, TYPE_SIGNER) = {last}
                        /\ digest = compute_content_digest(output, start, start,
                             [i \in 1 .. last - 1 |-> ReadRow(output, Rows(output)[i])])
  BY DEF VerifierAccepts
<1>1. /\ SignerLast /\ RowsLaid /\ output = Signed /\ rows \in Seq(Row)
      /\ blocks \in Seq(BlockValue)
  BY DEF LayoutInv, Done, Writing, TypeInv, TypeOK
<1>2. /\ BlockStart(output) = BlockStart(file) /\ Rows(output) = rows
      /\ Len(rows) = Len(blocks) /\ Len(blocks) > 0
      /\ \A i \in 1 .. Len(rows) : ReadRow(output, rows[i]) = blocks[i]
  BY SignedFacts
<1>3. OfType(output, TYPE_SIGNER) = {Len(rows)}
  <2>1. \A i \in 1 .. Len(rows) : rows[i].block_type = TYPE_SIGNER <=> i = Len(rows)
    BY <1>1, <1>2 DEF SignerLast, RowsLaid
  <2> QED BY <1>1, <1>2, <2>1 DEF OfType
<1>4. [i \in 1 .. Len(rows) - 1 |-> ReadRow(output, rows[i])]
        = [i \in 1 .. Len(blocks) - 1 |-> blocks[i]]
  BY <1>1, <1>2
<1>5. output.entries = file.entries /\ output.cd_size = file.cd_size
  BY <1>1 DEF Signed
<1>6. digest = compute_content_digest(file, BlockStart(file), BlockStart(file),
                 [i \in 1 .. Len(blocks) - 1 |-> blocks[i]])
  BY <1>1 DEF SignerLast
<1> QED BY <1>2, <1>3, <1>4, <1>5, <1>6 DEF compute_content_digest

\* The signed file can be read again, and its block begins where the old one did.
THEOREM SignedFilesCanBeRead == Spec => []OutputReadable
<1> QED BY InitType, TypeStep, InitLayout, LayoutStep, ReadableLemma, PTL DEF Spec

\* A verifier that reads the signed file through its table comes to the digest that
\* was signed, for any archive, blocks and lengths.
THEOREM VerifiersAccept == Spec => []VerifierAccepts
<1> QED BY InitType, TypeStep, InitLayout, LayoutStep, AcceptLemma, PTL DEF Spec
-----------------------------------------------------------------------------
(* The code-sign property is where the offsets in it point.  The invariant    *)
(* follows it from the place that is computed for it before any block exists  *)
(* to the first row of the table.                                             *)

Coding == {"collect", "entries", "tree", "property"}
Sealing == {"digest"} \cup Writing

OffsetTold == code.offset = BlockStart(file) + 3 * ENTRY_SIZE + 12

TreeTold ==
  /\ OffsetTold
  /\ code.trees # <<>>
  /\ code.tree_offset = round_up(code.offset + CODE_SIGN_FIXED_HEADER_SIZE,
                                 FSVERITY_BLOCK_SIZE)

\* The property among the blocks: the new one, or the one of the old file.
PropertyLeads ==
  /\ blocks[1].block_type = TYPE_PROPERTY
  /\ \A i \in 2 .. Len(blocks) : blocks[i].block_type # TYPE_PROPERTY
  /\ needs => blocks[1].at = code.offset /\ blocks[1].len = 12 + CodeSignSize
  /\ ~needs => blocks[1] = ReadRow(file, Rows(file)[1])

PlaceInv ==
  /\ ~needs => file = input
  /\ pc = "parse" => ~needs
  /\ pc = "align" => needs
  /\ needs /\ pc \in {"place"} \cup Gathering \cup Writing => file.block = NoBlock
  /\ pc \in Coding => needs /\ Len(blocks) = 1 /\ blocks[1].block_type = TYPE_PROFILE
  /\ pc = "keep" /\ needs => blocks = <<>>
  /\ pc = "keep" /\ ~needs /\ OneInFront(file) =>
       blocks = IF index = 1 THEN <<>> ELSE <<ReadRow(file, Rows(file)[1])>>
  /\ pc = "entries" => OffsetTold
  /\ pc \in {"tree", "property"} => TreeTold
  /\ pc \in Sealing /\ needs => TreeTold
  /\ pc \in Sealing /\ (needs \/ OneInFront(file)) =>
       PropertyLeads /\ Len(blocks) = IF pc = "digest" THEN 2 ELSE 3

\* What is said of the file stays true while the file stays.
LEMMA SameFile ==
  ASSUME UNCHANGED file
  PROVE  /\ UNCHANGED OneInFront(file)
         /\ UNCHANGED BlockStart(file)
         /\ UNCHANGED Rows(file)
         /\ UNCHANGED ReadRow(file, Rows(file)[1])
BY DEF OneInFront, BlockStart, HasSigningBlock, Rows, OfType, ReadRow, Garbage

LEMMA InitPlace == Init => PlaceInv
BY DEF Init, Begin, PlaceInv, Gathering, Writing, Coding, Sealing

LEMMA StopsPlace ==
  ASSUME PlaceInv,
         Unreadable \/ EntriesRefused \/ CopyFails \/ OwnerMissing \/ PropertyTooLarge
         \/ RowTooLarge \/ OutputTooLarge
  PROVE  PlaceInv'
<1>1. pc' = "refused" /\ UNCHANGED <<needs, file, input>>
  BY DEF Unreadable, EntriesRefused, CopyFails, OwnerMissing, PropertyTooLarge,
         RowTooLarge, OutputTooLarge, Refuse, zip, call
<1> QED BY <1>1 DEF PlaceInv, Gathering, Writing, Coding, Sealing

\* Until the old blocks are kept.
LEMMA OldPlace ==
  ASSUME TypeInv, LayoutInv, PlaceInv,
         ParseInput \/ WriteEntry \/ FinishArchive \/ ParseAgain \/ KeepBlock \/ AddProfile
  PROVE  PlaceInv'
<1> USE DEF PlaceInv, Gathering, Writing, Coding, Sealing, call, zip, sealed
<1>1. CASE ParseInput \/ WriteEntry
  BY <1>1 DEF ParseInput, WriteEntry
<1>2. CASE FinishArchive
  <2>1. file'.block = NoBlock /\ pc' = "place" /\ needs /\ needs' = needs
    BY <1>2 DEF FinishArchive
  <2> QED BY <2>1
<1>3. CASE ParseAgain
  <2>1. blocks = <<>> /\ index = 1 /\ pc = "place" /\ pc' = "keep"
        /\ UNCHANGED <<file, input, needs, blocks, index>>
    BY <1>3 DEF ParseAgain, LayoutInv
  <2> QED BY <2>1
<1>4. needs /\ pc = "keep" => Rows(file) = <<>>
  BY DEF NoBlock, Rows, HasSigningBlock
<1>5. CASE KeepBlock
  <2>1. /\ pc = "keep" /\ pc' = "keep" /\ index \in 1 .. Len(Rows(file))
        /\ index' = index + 1 /\ ~needs
        /\ UNCHANGED <<file, input, needs>>
    BY <1>4, <1>5 DEF KeepBlock, TypeInv, TypeOK
  <2>2. ASSUME OneInFront(file) PROVE blocks' = <<ReadRow(file, Rows(file)[1])>>
    <3>1. \A i \in 1 .. Len(Rows(file)) : IsPreserved(Rows(file)[i]) <=> i = 1
      <4>1. Rows(file) \in Seq(Row)
        BY FileFacts DEF TypeInv, TypeOK
      <4> QED BY <2>2, <4>1 DEF OneInFront, OfType, IsPreserved
    <3>2. CASE index = 1
      BY <1>5, <2>1, <2>2, <3>1, <3>2 DEF KeepBlock
    <3>3. CASE index # 1
      BY <1>5, <2>1, <2>2, <3>1, <3>3 DEF KeepBlock
    <3> QED BY <3>2, <3>3
  <2>3. index' # 1
    BY <2>1
  <2> QED BY <2>1, <2>2, <2>3, SameFile
<1>6. CASE AddProfile
  <2> DEFINE new == Block(TYPE_PROFILE, profile.id, profile.len)
  <2>1. /\ pc = "keep" /\ index > Len(Rows(file)) /\ blocks' = Append(blocks, new)
        /\ pc' = (IF needs THEN "collect" ELSE "digest")
        /\ UNCHANGED <<file, input, needs, code>>
    BY <1>6 DEF AddProfile
  <2>2. new.block_type = TYPE_PROFILE /\ TYPE_PROFILE # TYPE_PROPERTY
    BY DEF Block, TYPE_PROFILE, TYPE_PROPERTY
  <2> HIDE DEF new
  <2>3. CASE needs
    <3>1. blocks' = <<new>>
      BY <2>1, <2>3
    <3> QED BY <2>1, <2>2, <2>3, <3>1, SameFile
  <2>4. CASE ~needs
    <3> DEFINE old == ReadRow(file, Rows(file)[1])
    <3>1. OneInFront(file) => blocks = <<old>>
      <4>1. OneInFront(file) => index # 1
        BY <2>1 DEF OneInFront
      <4> QED BY <2>1, <2>4, <4>1
    <3>2. OneInFront(file) => old.block_type = TYPE_PROPERTY
      <4>1. Rows(file) \in Seq(Row)
        BY FileFacts DEF TypeInv, TypeOK
      <4>2. OneInFront(file) => 1 \in OfType(file, TYPE_PROPERTY)
        BY DEF OneInFront
      <4>3. OneInFront(file) => /\ Rows(file)[1] \in Row
                                /\ Rows(file)[1].block_type = TYPE_PROPERTY
        BY <4>1, <4>2 DEF OfType
      <4> QED BY <4>3, ReadRowType DEF TypeInv, TypeOK
    <3> HIDE DEF old
    <3>3. OneInFront(file) => Len(blocks') = 2 /\ blocks'[1] = old /\ blocks'[2] = new
      <4>1. OneInFront(file) => blocks' = <<old, new>>
        BY <2>1, <3>1, Two
      <4> QED BY <4>1
    <3>4. OneInFront(file) => PropertyLeads'
      BY <2>1, <2>2, <2>4, <3>2, <3>3, SameFile DEF PropertyLeads, old
    <3> QED BY <2>1, <2>4, <3>3, <3>4, SameFile
  <2> QED BY <2>3, <2>4
<1> QED BY <1>1, <1>2, <1>3, <1>5, <1>6
\* While the property is built: its place is told before its size is known.
LEMMA CodePlace ==
  ASSUME TypeInv, TypeInv', LayoutInv, PlaceInv,
         CollectInputs \/ CollectEntry \/ PlaceTree \/ AddLevel \/ FinishTree
         \/ InsertProperty
  PROVE  PlaceInv'
<1> USE DEF PlaceInv, Gathering, Writing, Coding, Sealing, call, zip, sealed
<1>1. CASE CollectInputs
  <2>1. pc = "collect" /\ UNCHANGED <<file, input, needs, blocks>>
    BY <1>1 DEF CollectInputs, Refuse
  <2>2. CASE pc' = "refused"
    BY <2>1, <2>2
  <2>3. CASE pc' # "refused"
    <3>1. pc' = "entries" /\ code'.offset = code_sign_offset
      BY <1>1, <2>3 DEF CollectInputs, Refuse, TypeInv, TypeOK, Code
    <3>2. code_sign_offset = BlockStart(file) + 3 * ENTRY_SIZE + 12
      <4>1. Len(blocks) = 1
        BY <2>1
      <4>2. Len(blocks) + 2 = 3
        BY <4>1
      <4> QED BY <4>2 DEF code_sign_offset
    <3>3. OffsetTold'
      BY <2>1, <3>1, <3>2, SameFile DEF OffsetTold
    <3> QED BY <2>1, <3>1, <3>3
  <2> QED BY <2>2, <2>3
<1>2. CASE CollectEntry
  <2>1. pc = "entries" /\ UNCHANGED <<file, input, needs, blocks>>
    BY <1>2 DEF CollectEntry, Refuse
  <2>2. CASE pc' = "refused"
    BY <2>1, <2>2
  <2>3. CASE pc' # "refused"
    <3>1. pc' = "entries" /\ code'.offset = code.offset
      BY <1>2, <2>3 DEF CollectEntry, Refuse, TypeInv, TypeOK, Code
    <3> QED BY <2>1, <3>1, SameFile DEF OffsetTold
  <2> QED BY <2>2, <2>3
<1>3. CASE PlaceTree
  <2>1. /\ pc = "entries" /\ pc' = "tree" /\ code'.offset = code.offset
        /\ code'.tree_offset = round_up(code.offset + CODE_SIGN_FIXED_HEADER_SIZE,
                                        FSVERITY_BLOCK_SIZE)
        /\ UNCHANGED <<file, input, needs, blocks>>
    BY <1>3 DEF PlaceTree, TypeInv, TypeOK, Code
  <2>2. code'.trees # <<>>
    BY <2>1 DEF TypeInv, TreesMade
  <2>3. TreeTold'
    BY <2>1, <2>2, SameFile DEF TreeTold, OffsetTold
  <2> QED BY <2>1, <2>3
<1>4. CASE AddLevel \/ FinishTree
  <2>1. /\ pc = "tree" /\ pc' \in {"tree", "property"}
        /\ UNCHANGED <<file, input, needs, blocks>>
    BY <1>4 DEF AddLevel, FinishTree
  <2>2. code'.offset = code.offset /\ code'.tree_offset = code.tree_offset
    BY <1>4 DEF AddLevel, FinishTree, TypeInv, TypeOK, Code
  <2>3. code'.trees # <<>>
    BY <2>1 DEF TypeInv, TreesMade
  <2>4. TreeTold'
    BY <2>1, <2>2, <2>3, SameFile DEF TreeTold, OffsetTold
  <2> QED BY <2>1, <2>4
<1>5. CASE InsertProperty
  <2> DEFINE new == [block_type |-> TYPE_PROPERTY, id |-> "code sign",
                     len |-> 12 + CodeSignSize,
                     at |-> code.offset, tree_at |-> code.tree_offset]
  <2>1. /\ pc = "property" /\ pc' = "digest" /\ blocks' = <<new>> \o blocks
        /\ UNCHANGED <<file, input, needs, code>>
    BY <1>5 DEF InsertProperty
  <2>2. UNCHANGED CodeSignSize
    BY <2>1 DEF CodeSignSize, ZeroPadding, NativeSegmentSize
  <2>3. /\ new.block_type = TYPE_PROPERTY /\ new.len = 12 + CodeSignSize
        /\ new.at = code.offset
    OBVIOUS
  <2> HIDE DEF new
  <2>4. Len(blocks') = 2 /\ blocks'[1] = new /\ blocks'[2] = blocks[1]
    <3>1. blocks \in Seq(BlockValue) /\ Len(blocks) = 1
      BY <2>1 DEF TypeInv, TypeOK
    <3>2. blocks = <<blocks[1]>>
      BY <3>1, One
    <3>3. blocks' = <<new, blocks[1]>>
      BY <2>1, <3>2, Two
    <3> QED BY <3>3
  <2>5. blocks'[2].block_type # TYPE_PROPERTY
    BY <2>1, <2>4 DEF TYPE_PROFILE, TYPE_PROPERTY
  <2>6. PropertyLeads'
    BY <2>1, <2>2, <2>3, <2>4, <2>5 DEF PropertyLeads
  <2>7. TreeTold'
    BY <2>1, SameFile DEF TreeTold, OffsetTold
  <2> QED BY <2>1, <2>4, <2>6, <2>7
<1> QED BY <1>1, <1>2, <1>3, <1>4, <1>5

\* While the block is written.
LEMMA SealPlace ==
  ASSUME TypeInv, LayoutInv, PlaceInv,
         DigestContent \/ EncodeRow \/ EndTable \/ EncodeValue \/ WriteOutput
         \/ SignAgain \/ UNCHANGED vars
  PROVE  PlaceInv'
<1> USE DEF PlaceInv, Gathering, Writing, Coding, Sealing, call, zip, sealed
<1>1. UNCHANGED code => UNCHANGED CodeSignSize
  BY DEF CodeSignSize, ZeroPadding, NativeSegmentSize
<1>2. CASE DigestContent
  <2>1. PICK len \in CmsSizes : blocks' = Append(blocks, Block(TYPE_SIGNER, "cms", len))
    BY <1>2 DEF DigestContent
  <2> DEFINE new == Block(TYPE_SIGNER, "cms", len)
  <2>2. /\ new.block_type # TYPE_PROPERTY /\ new \in BlockValue
        /\ blocks' = Append(blocks, new)
    <3>1. len \in Nat \ {0} /\ "cms" \in Ids
      BY InputsAssumption, IdsAssumption
    <3> QED BY <2>1, <3>1 DEF Block, TYPE_SIGNER, TYPE_PROPERTY, BlockValue, BlockTypes
  <2> HIDE DEF new
  <2>3. pc = "digest" /\ pc' = "rows" /\ UNCHANGED <<file, input, needs, code>>
    BY <1>2 DEF DigestContent
  <2>4. Len(blocks) = 2 =>
          /\ Len(blocks') = 3 /\ blocks'[1] = blocks[1] /\ blocks'[2] = blocks[2]
          /\ blocks'[3].block_type # TYPE_PROPERTY
    BY <2>2, Three DEF TypeInv, TypeOK
  <2>5. Len(blocks) = 2 /\ PropertyLeads => PropertyLeads'
    <3> SUFFICES ASSUME Len(blocks) = 2, PropertyLeads PROVE PropertyLeads'
      OBVIOUS
    <3>1. \A i \in 2 .. Len(blocks') : blocks'[i].block_type # TYPE_PROPERTY
      <4>1. Len(blocks') = 3
        BY <2>4
      <4>2. \A i \in 2 .. 3 : i = 2 \/ i = 3
        OBVIOUS
      <4>3. blocks[2].block_type # TYPE_PROPERTY
        BY DEF PropertyLeads
      <4> QED BY <2>4, <4>1, <4>2, <4>3
    <3> QED BY <1>1, <2>3, <2>4, <3>1, SameFile DEF PropertyLeads
  <2>6. TreeTold => TreeTold'
    BY <2>3, SameFile DEF TreeTold, OffsetTold
  <2> QED BY <2>3, <2>4, <2>5, <2>6, SameFile
<1>3. CASE EncodeRow \/ EndTable \/ EncodeValue \/ WriteOutput
  <2>1. pc \in Writing /\ pc' \in Writing /\ UNCHANGED <<file, input, needs, code, blocks>>
    BY <1>3 DEF EncodeRow, EndTable, EncodeValue, WriteOutput
  <2>2. UNCHANGED PropertyLeads /\ UNCHANGED TreeTold
    BY <1>1, <2>1, SameFile DEF PropertyLeads, TreeTold, OffsetTold
  <2> QED BY <2>1, <2>2, SameFile
<1>4. CASE SignAgain
  BY <1>4 DEF SignAgain
<1>5. CASE UNCHANGED vars
  <2>1. UNCHANGED <<pc, index, file, input, needs, code, blocks>>
    BY <1>5 DEF vars
  <2>2. UNCHANGED PropertyLeads /\ UNCHANGED TreeTold /\ UNCHANGED OffsetTold
    BY <1>1, <2>1, SameFile DEF PropertyLeads, TreeTold, OffsetTold
  <2> QED BY <2>1, <2>2, SameFile
<1> QED BY <1>2, <1>3, <1>4, <1>5

LEMMA PlaceStep == TypeInv /\ LayoutInv /\ PlaceInv /\ [Next]_vars => PlaceInv'
<1> SUFFICES ASSUME TypeInv, LayoutInv, PlaceInv, [Next]_vars PROVE PlaceInv'
  OBVIOUS
<1>1. CASE UNCHANGED vars
  BY <1>1, SealPlace
<1>2. CASE Next
  BY <1>2, TypeStep, StopsPlace, OldPlace, CodePlace, SealPlace DEF Next, Rest
<1> QED BY <1>1, <1>2

LEMMA NativeType ==
  ASSUME TypeOK
  PROVE  NativeSegmentSize(Len(code.natives), code.names_size, code.infos_size) \in Nat
<1>1. /\ Len(code.natives) \in Nat /\ code.names_size \in Nat /\ code.infos_size \in Nat
  BY DEF TypeOK, Code
<1>2. padding4(code.names_size) \in Nat
  BY <1>1, PaddingType
<1> QED BY <1>1, <1>2 DEF NativeSegmentSize

LEMMA FirstSize ==
  ASSUME TypeOK, code.trees # <<>>
  PROVE  code.trees[1].size \in Nat
<1>1. code.trees[1] \in Tree
  BY DEF TypeOK, Code
<1> QED BY <1>1 DEF Tree

\* The row of the property, in a file that has been signed.
LEMMA LeadingRow ==
  ASSUME TypeInv, LayoutInv, PlaceInv, Done, needs \/ OneInFront(file)
  PROVE  /\ Len(blocks) = 3 /\ PropertyLeads
         /\ OneInFront(output) /\ Rows(output)[1].offset = 3 * ENTRY_SIZE
         /\ ReadRow(output, Rows(output)[1]) = blocks[1]
         /\ BlockStart(output) = BlockStart(file)
<1>1. Len(blocks) = 3 /\ PropertyLeads
  BY DEF PlaceInv, Done, Sealing, Writing
<1>2. /\ Rows(output) = rows /\ Len(rows) = Len(blocks)
      /\ BlockStart(output) = BlockStart(file)
      /\ \A i \in 1 .. Len(rows) : ReadRow(output, rows[i]) = blocks[i]
  BY SignedFacts
<1>3. RowsLaid /\ rows \in Seq(Row)
  BY DEF LayoutInv, Done, Writing, TypeInv, TypeOK
<1>4. \A i \in 1 .. 3 : rows[i].block_type = blocks[i].block_type
  BY <1>1, <1>2, <1>3 DEF RowsLaid
<1>5. \A i \in 1 .. 3 : rows[i].block_type = TYPE_PROPERTY <=> i = 1
  <2>1. \A i \in 1 .. 3 : i = 1 \/ i \in 2 .. Len(blocks)
    BY <1>1
  <2>2. \A i \in 2 .. Len(blocks) : i # 1 /\ blocks[i].block_type # TYPE_PROPERTY
    BY <1>1 DEF PropertyLeads
  <2> QED BY <1>1, <1>4, <2>1, <2>2 DEF PropertyLeads
<1>6. DOMAIN rows = 1 .. 3
  BY <1>1, <1>2, <1>3
<1>7. OfType(output, TYPE_PROPERTY) = {1}
  BY <1>2, <1>5, <1>6 DEF OfType
<1>8. rows[1].offset = TableSize(blocks) /\ TableSize(blocks) = 3 * ENTRY_SIZE
  <2>1. rows # <<>>
    BY <1>1, <1>2
  <2> QED BY <1>1, <1>3, <2>1 DEF RowsLaid, TableSize
<1>9. TableSize(rows) = 3 * ENTRY_SIZE
  BY <1>1, <1>2 DEF TableSize
<1>10. OneInFront(output)
  BY <1>1, <1>2, <1>7, <1>8, <1>9 DEF OneInFront
<1>11. 1 \in 1 .. Len(rows)
  BY <1>1, <1>2
<1> QED BY <1>1, <1>2, <1>8, <1>10, <1>11

LEMMA ResignLemma == TypeInv /\ LayoutInv /\ PlaceInv => ResignKeepsPlace
<1> SUFFICES ASSUME TypeInv, LayoutInv, PlaceInv, Done, ~needs, OneInFront(input)
             PROVE  /\ OneInFront(output)
                    /\ ReadRow(output, Rows(output)[1]) = ReadRow(input, Rows(input)[1])
                    /\ InPlace(input, Rows(input)[1]) => InPlace(output, Rows(output)[1])
  BY DEF ResignKeepsPlace
<1>1. file = input
  BY DEF PlaceInv
<1>2. /\ PropertyLeads
      /\ OneInFront(output) /\ Rows(output)[1].offset = 3 * ENTRY_SIZE
      /\ ReadRow(output, Rows(output)[1]) = blocks[1]
      /\ BlockStart(output) = BlockStart(file)
  BY <1>1, LeadingRow
<1>3. blocks[1] = ReadRow(input, Rows(input)[1])
  BY <1>1, <1>2 DEF PropertyLeads
<1>4. Rows(input)[1].offset = 3 * ENTRY_SIZE
  BY DEF OneInFront, TableSize
<1> QED BY <1>1, <1>2, <1>3, <1>4 DEF InPlace

LEMMA InPlaceLemma == TypeInv /\ LayoutInv /\ PlaceInv => CodeSignInPlace
<1> SUFFICES ASSUME TypeInv, LayoutInv, PlaceInv, Done, needs
             PROVE  /\ OneInFront(output)
                    /\ InPlace(output, Rows(output)[1])
                    /\ code.tree_offset % FSVERITY_BLOCK_SIZE = 0
                    /\ code.tree_offset >= code.offset + CODE_SIGN_FIXED_HEADER_SIZE
                    /\ code.tree_offset + code.trees[1].size <= output.cd_offset
  BY DEF CodeSignInPlace
<1>1. /\ PropertyLeads /\ Len(blocks) = 3
      /\ OneInFront(output) /\ Rows(output)[1].offset = 3 * ENTRY_SIZE
      /\ ReadRow(output, Rows(output)[1]) = blocks[1]
      /\ BlockStart(output) = BlockStart(file)
  BY LeadingRow
<1>2. TreeTold /\ OffsetTold
  BY DEF PlaceInv, Done, Sealing, Writing, TreeTold
<1>3. BlockStart(file) \in Nat
  BY PartStart DEF TypeInv, LayoutInv, Done, Writing
<1>4. blocks[1].at = code.offset /\ blocks[1].len = 12 + CodeSignSize
  BY <1>1 DEF PropertyLeads
<1>5. InPlace(output, Rows(output)[1])
  BY <1>1, <1>2, <1>4 DEF InPlace, OffsetTold
<1>6. code.offset = BlockStart(file) + 48 /\ code.offset \in Nat
  BY <1>2, <1>3 DEF OffsetTold, ENTRY_SIZE
<1> DEFINE header == code.offset + CODE_SIGN_FIXED_HEADER_SIZE
<1>7. header \in Nat /\ header = code.offset + 68
  BY <1>6 DEF CODE_SIGN_FIXED_HEADER_SIZE
<1>8. code.tree_offset = round_up(header, FSVERITY_BLOCK_SIZE)
  BY <1>2 DEF TreeTold
<1> HIDE DEF header
<1>9. /\ code.tree_offset \in Nat /\ code.tree_offset >= header
      /\ code.tree_offset % FSVERITY_BLOCK_SIZE = 0
  <2>1. FSVERITY_BLOCK_SIZE \in Nat \ {0}
    BY PageAssumption
  <2>2. /\ round_up(header, FSVERITY_BLOCK_SIZE) \in Nat
        /\ round_up(header, FSVERITY_BLOCK_SIZE) >= header
        /\ round_up(header, FSVERITY_BLOCK_SIZE) % FSVERITY_BLOCK_SIZE = 0
    BY <1>7, <2>1, RoundUp
  <2> QED BY <1>8, <2>2
<1>10. code.tree_offset + code.trees[1].size <= output.cd_offset
  <2> DEFINE natives == NativeSegmentSize(Len(code.natives), code.names_size, code.infos_size)
             size == code.trees[1].size
  <2>1. natives \in Nat
    BY NativeType DEF TypeInv
  <2>2. size \in Nat
    BY <1>2, FirstSize DEF TypeInv, TreeTold
  <2>3. CodeSignSize = 68 + (code.tree_offset - header) + size + 68 + natives
    <3>1. ZeroPadding = code.tree_offset - header
      BY DEF ZeroPadding, header
    <3>2. CodeSignSize = CODE_SIGN_FIXED_HEADER_SIZE + ZeroPadding + size
                         + FSVERITY_SEGMENT_SIZE + 4 + natives
      BY DEF CodeSignSize
    <3> HIDE DEF natives, size
    <3> QED BY <1>7, <1>9, <2>1, <2>2, <3>1, <3>2
            DEF FSVERITY_SEGMENT_SIZE, CODE_SIGN_FIXED_HEADER_SIZE
  <2> HIDE DEF natives, size
  <2>4. code.offset + CodeSignSize >= code.tree_offset + size
    BY <1>6, <1>7, <1>9, <2>1, <2>2, <2>3
  <2>5. /\ output.cd_offset = BlockStart(file) + rows[3].offset + rows[3].length + 32
        /\ Len(rows) = 3 /\ Rows(output) = rows
    BY <1>1, SignedFacts DEF SIGNING_TRAILER_SIZE
  <2>6. rows \in Seq(Row) /\ RowsLaid
    BY DEF LayoutInv, Done, Writing, TypeInv, TypeOK
  <2>7. \A r \in Row : r.offset \in Nat /\ r.length \in Nat
    BY MaxU32Assumption DEF Row, U32
  <2>8. /\ rows[1].offset = 36 /\ rows[1].length = 12 + CodeSignSize
        /\ rows[1].offset + rows[1].length <= rows[3].offset
    BY <1>1, <1>4, <2>5, <2>6 DEF RowsLaid, ENTRY_SIZE
  <2>9. rows[1].length \in Nat /\ rows[3].offset \in Nat /\ rows[3].length \in Nat
    <3>1. 1 \in 1 .. 3 /\ 3 \in 1 .. 3
      OBVIOUS
    <3>2. rows[1] \in Row /\ rows[3] \in Row
      BY <2>5, <2>6, <3>1, ElementOfSeq
    <3> QED BY <2>7, <3>2
  <2>10. CodeSignSize \in Int
    BY <1>7, <1>9, <2>1, <2>2, <2>3
  <2>11. BlockStart(file) + 48 + CodeSignSize <= output.cd_offset
    BY <1>3, <2>5, <2>8, <2>9, <2>10
  <2> QED BY <1>3, <1>6, <1>9, <2>2, <2>4, <2>5, <2>9, <2>10, <2>11 DEF size
<1> QED BY <1>1, <1>5, <1>7, <1>9, <1>10 DEF header

\* A property is where the offsets in it point, in every file that sign_hap lays
\* out: the place told before the block exists is the place it gets.
THEOREM CodeSignStaysInPlace == Spec => []CodeSignInPlace
<1> QED BY InitType, TypeStep, InitLayout, LayoutStep, InitPlace, PlaceStep, InPlaceLemma,
           PTL DEF Spec

\* A property that sign_hap laid out stays where its offsets point when its file
\* is signed again.
THEOREM ResigningKeepsPlace == Spec => []ResignKeepsPlace
<1> QED BY InitType, TypeStep, InitLayout, LayoutStep, InitPlace, PlaceStep, ResignLemma,
           PTL DEF Spec
=============================================================================
