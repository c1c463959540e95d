---------------------------- MODULE HapCoverProofs ----------------------------
(***************************************************************************)
(* The Merkle tree of a HAP covers all of its code, in archives of any     *)
(* entries: the layout of align_zip_for_code_sign puts code in front, and  *)
(* collect_code_sign_inputs reads off where it ends.                       *)
(***************************************************************************)
EXTENDS HapSignProofs, FoldTheorems

(* Entries one behind the other, code in front and on pages. *)
ArchiveLaid(es, end) ==
  /\ \A i \in 1 .. Len(es) :
       /\ es[i].at + es[i].packed <= end
       /\ IsRunnable(es[i]) => es[i].at % FSVERITY_BLOCK_SIZE = 0
  /\ \A i, j \in 1 .. Len(es) : i < j =>
       /\ es[i].at + es[i].packed <= es[j].at
       /\ IsRunnable(es[j]) => IsRunnable(es[i])

\* While there is code left, code alone has been written.
CodeInFront ==
  \A e \in left : IsRunnable(e) =>
    \A i \in 1 .. Len(written.entries) : IsRunnable(written.entries[i])

LaidOut ==
  /\ ArchiveLaid(file.entries, written.end)
  /\ parse_hap(file) => written.end <= BlockStart(file)

\* What the loop of collect_code_sign_inputs knows of the entries before `n`.
Collected(n) ==
  /\ code.found => \E k \in 1 .. Len(file.entries) :
       ~IsRunnable(file.entries[k]) /\ code.data_size = file.entries[k].at
  /\ ~code.found => /\ code.data_size = 0
                    /\ \A i \in 1 .. Len(file.entries) : i < n => IsRunnable(file.entries[i])
  /\ \A i \in 1 .. Len(file.entries) :
       i < n /\ ~file.entries[i].dir /\ is_native_name(file.entries[i]) =>
         \E j \in 1 .. Len(code.natives) : code.natives[j] = file.entries[i]

\* A tree for each native file, in their order behind the tree of the HAP.
TreesOfNatives ==
  /\ Len(code.trees) <= Len(code.natives) + 1
  /\ \A j \in 1 .. Len(code.natives) :
       j < Len(code.trees) => code.trees[j + 1].data_len = code.natives[j].size

CodeKnown == Collected(Len(file.entries) + 1) /\ TreesOfNatives

CoverInv ==
  /\ pc = "parse" => written = NoArchive
  /\ pc \in {"parse", "align", "place", "keep", "collect"} => code = NoCode
  /\ pc = "collect" => index = 1
  /\ pc = "align" => ArchiveLaid(written.entries, written.end) /\ CodeInFront
  /\ needs /\ pc \in {"place"} \cup Gathering \cup Writing => LaidOut
  /\ pc = "entries" => Collected(index) /\ code.trees = <<>>
  /\ pc \in {"tree", "property"} \cup Sealing /\ needs => CodeKnown
  /\ pc \in {"property"} \cup Sealing /\ needs => Len(code.trees) = Len(code.natives) + 1

LEMMA InitCover == Init => CoverInv
BY DEF Init, Begin, CoverInv, Gathering, Writing, Sealing

\* The facts about an entry that are used.
LEMMA EntryFacts ==
  ASSUME NEW es \in Seq(Entry), NEW i \in 1 .. Len(es)
  PROVE  es[i] \in Entry /\ es[i].at \in Nat /\ es[i].packed \in Nat
<1>1. es[i] \in Entry
  OBVIOUS
<1> QED BY <1>1 DEF Entry

\* Nothing is laid out in an empty archive.
LEMMA NothingLaid == ArchiveLaid(<<>>, 0)
BY DEF ArchiveLaid

\* What is known of the archive and of its code depends on these alone.
LEMMA CoverSame ==
  /\ UNCHANGED <<file, written>> => UNCHANGED LaidOut
  /\ UNCHANGED <<file, code>> => UNCHANGED CodeKnown
<1>1. UNCHANGED <<file, written>> => UNCHANGED LaidOut
  BY DEF LaidOut, ArchiveLaid, parse_hap, BlockStart, HasSigningBlock
<1>2. UNCHANGED <<file, code>> => UNCHANGED CodeKnown
  BY DEF CodeKnown, Collected, TreesOfNatives
<1> QED BY <1>1, <1>2

\* An entry is written behind the others.
LEMMA WriteCover ==
  ASSUME TypeInv, CoverInv, WriteEntry
  PROVE  ArchiveLaid(written'.entries, written'.end) /\ CodeInFront'
<1> DEFINE es == written.entries
           n  == Len(es)
<1>1. /\ es \in Seq(Entry) /\ n \in Nat /\ written.end \in Nat /\ left \subseteq Entry
      /\ ArchiveLaid(es, written.end) /\ CodeInFront
  BY DEF TypeInv, TypeOK, Archive, CoverInv, WriteEntry
<1>2. PICK e \in left, packed \in Nat :
        LET at == round_up(written.end + 30 + e.name_len, Alignment(e, written.entries))
        IN  /\ IsNext(e)
            /\ left' = left \ {e}
            /\ written' = [entries |-> Append(written.entries, Moved(e, at, packed)),
                           end |-> at + packed,
                           cd_size |-> written.cd_size + 46 + e.name_len]
  BY <1>1, RepackedIs DEF WriteEntry
<1> DEFINE at == round_up(written.end + 30 + e.name_len, Alignment(e, written.entries))
           new == Moved(e, at, packed)
<1>3. e \in Entry /\ e.name_len \in Nat /\ packed \in Nat
  BY <1>1 DEF Entry
<1>4. /\ at \in Nat /\ at >= written.end
      /\ IsRunnable(e) => at % FSVERITY_BLOCK_SIZE = 0
  <2>1. Alignment(e, written.entries) \in Nat \ {0}
    BY PageAssumption DEF Alignment
  <2>2. IsRunnable(e) => Alignment(e, written.entries) = FSVERITY_BLOCK_SIZE
    BY DEF Alignment
  <2> DEFINE from == written.end + 30 + e.name_len
             a == Alignment(e, written.entries)
  <2>3. from \in Nat /\ from >= written.end
    BY <1>1, <1>3
  <2> HIDE DEF from, a
  <2>4. /\ round_up(from, a) \in Nat /\ round_up(from, a) >= from
        /\ round_up(from, a) % a = 0
    BY <2>1, <2>3, RoundUp DEF a
  <2> QED BY <1>1, <2>2, <2>3, <2>4 DEF from, a
<1> HIDE DEF at
<1>5. /\ new \in Entry /\ new.at = at /\ new.packed = packed
      /\ IsRunnable(new) <=> IsRunnable(e)
  BY <1>3, <1>4 DEF Moved, Entry, IsRunnable, is_runnable_name, is_native_name
<1>6. written'.entries = Append(es, new) /\ written'.end = at + packed
  BY <1>2 DEF at
<1> HIDE DEF new, es
<1>7. /\ Len(written'.entries) = n + 1 /\ written'.entries[n + 1] = new
      /\ \A i \in 1 .. n : written'.entries[i] = es[i]
  BY <1>1, <1>5, <1>6
<1> HIDE DEF n
<1>8. /\ \A i \in 1 .. n : /\ es[i].at \in Nat /\ es[i].packed \in Nat
                           /\ es[i].at + es[i].packed <= written.end
                           /\ IsRunnable(es[i]) => es[i].at % FSVERITY_BLOCK_SIZE = 0
      /\ \A i, j \in 1 .. n : i < j =>
           /\ es[i].at + es[i].packed <= es[j].at
           /\ IsRunnable(es[j]) => IsRunnable(es[i])
  BY <1>1, EntryFacts DEF ArchiveLaid, n
<1>9. IsRunnable(e) => \A i \in 1 .. n : IsRunnable(es[i])
  BY <1>1 DEF CodeInFront, es, n
<1>10. \A i \in 1 .. n + 1 : i \in 1 .. n \/ i = n + 1
  BY <1>1 DEF n
<1>11. ArchiveLaid(written'.entries, written'.end)
  <2>1. ASSUME NEW i \in 1 .. n + 1
        PROVE  /\ written'.entries[i].at + written'.entries[i].packed <= written'.end
               /\ IsRunnable(written'.entries[i]) =>
                    written'.entries[i].at % FSVERITY_BLOCK_SIZE = 0
    <3>1. CASE i \in 1 .. n
      <4>1. /\ es[i].at \in Nat /\ es[i].packed \in Nat
            /\ es[i].at + es[i].packed <= written.end
            /\ IsRunnable(es[i]) => es[i].at % FSVERITY_BLOCK_SIZE = 0
        BY <1>8, <3>1
      <4>2. written'.end \in Nat /\ written.end <= written'.end
        BY <1>1, <1>3, <1>4, <1>6
      <4>3. es[i].at + es[i].packed <= written'.end
        BY <1>1, <4>1, <4>2
      <4>4. written'.entries[i] = es[i]
        BY <1>7, <3>1
      <4> QED BY <4>1, <4>3, <4>4
    <3>2. CASE i = n + 1
      BY <1>3, <1>4, <1>5, <1>6, <1>7, <3>2
    <3> QED BY <1>10, <3>1, <3>2
  <2>2. ASSUME NEW i \in 1 .. n + 1, NEW j \in 1 .. n + 1, i < j
        PROVE  /\ written'.entries[i].at + written'.entries[i].packed <= written'.entries[j].at
               /\ IsRunnable(written'.entries[j]) => IsRunnable(written'.entries[i])
    <3>1. i \in 1 .. n
      BY <1>1, <2>2 DEF n
    <3>2. CASE j \in 1 .. n
      BY <1>7, <1>8, <2>2, <3>1, <3>2
    <3>3. CASE j = n + 1
      <4>1. /\ es[i].at \in Nat /\ es[i].packed \in Nat
            /\ es[i].at + es[i].packed <= written.end
        BY <1>8, <3>1
      <4>2. written'.entries[i] = es[i] /\ written'.entries[j] = new
        BY <1>7, <3>1, <3>3
      <4>3. es[i].at + es[i].packed <= new.at
        BY <1>1, <1>4, <1>5, <4>1
      <4>4. IsRunnable(new) => IsRunnable(es[i])
        BY <1>5, <1>9, <3>1
      <4> QED BY <4>2, <4>3, <4>4
    <3> QED BY <1>10, <3>2, <3>3
  <2> QED BY <1>7, <2>1, <2>2 DEF ArchiveLaid
<1>12. CodeInFront'
  <2>1. SUFFICES ASSUME NEW o \in left', IsRunnable(o), NEW i \in 1 .. n + 1
                 PROVE  IsRunnable(written'.entries[i])
    BY <1>7 DEF CodeInFront
  <2>2. o \in left \ {e}
    BY <1>2
  <2>3. CASE i \in 1 .. n
    BY <1>1, <1>7, <2>1, <2>2, <2>3 DEF CodeInFront, es, n
  <2>4. CASE i = n + 1
    <3>1. Precedes(e, o)
      BY <1>2, <2>2 DEF IsNext
    <3>2. IsRunnable(e)
      BY <2>1, <3>1 DEF Precedes, entry_rank
    <3> QED BY <1>5, <1>7, <2>4, <3>2
  <2> QED BY <1>10, <2>3, <2>4
<1> QED BY <1>11, <1>12

\* Up to the profile's block.
LEMMA AlignCover ==
  ASSUME TypeInv, LayoutInv, PlaceInv, CoverInv,
         ParseInput \/ WriteEntry \/ FinishArchive \/ ParseAgain \/ KeepBlock \/ AddProfile
  PROVE  CoverInv'
<1> USE DEF CoverInv, Gathering, Writing, Sealing, zip
<1>1. CASE ParseInput
  <2>1. /\ pc = "parse" /\ pc' \in {"align", "place"} /\ UNCHANGED <<written, code>>
        /\ pc' = "place" => ~needs'
    BY <1>1 DEF ParseInput
  <2>2. pc' = "align" => ArchiveLaid(written'.entries, written'.end) /\ CodeInFront'
    BY <2>1, NothingLaid DEF NoArchive, CodeInFront
  <2> QED BY <2>1, <2>2
<1>2. CASE WriteEntry
  <2>1. pc = "align" /\ UNCHANGED <<pc, code>>
    BY <1>2 DEF WriteEntry
  <2> QED BY <1>2, <2>1, WriteCover
<1>3. CASE FinishArchive
  <2>1. /\ pc = "align" /\ pc' = "place" /\ UNCHANGED <<code, written>>
        /\ written \in Archive
    BY <1>3 DEF FinishArchive, TypeInv, TypeOK
  <2> DEFINE field(k) == IF k <= MaxU32 THEN k ELSE MaxU32
  <2>2. /\ file'.entries = written.entries /\ file'.block = NoBlock
        /\ file'.cd_offset = field(written.end) /\ file'.cd_size = field(written.cd_size)
        /\ file'.eocd_offset = written.end + written.cd_size
    BY <1>3 DEF FinishArchive
  <2>3. BlockStart(file)' = file'.cd_offset
    BY <2>2 DEF BlockStart, HasSigningBlock, NoBlock
  <2>4. parse_hap(file)' => written.end <= file'.cd_offset
    <3>1. written.end \in Nat /\ written.cd_size \in Nat
      BY <2>1 DEF Archive
    <3>2. parse_hap(file)' => file'.cd_offset + file'.cd_size = file'.eocd_offset
      BY DEF parse_hap
    <3> QED BY <2>2, <3>1, <3>2, MaxU32Assumption
  <2>5. LaidOut'
    BY <2>1, <2>2, <2>3, <2>4 DEF LaidOut, ArchiveLaid
  <2> QED BY <2>1, <2>5
<1>4. CASE ParseAgain \/ KeepBlock
  <2>1. /\ pc \in {"place", "keep"} /\ pc' = "keep" /\ UNCHANGED <<needs, file, written, code>>
    BY <1>4 DEF ParseAgain, KeepBlock
  <2> QED BY <2>1, CoverSame
<1>5. CASE AddProfile
  <2>1. /\ pc = "keep" /\ pc' = (IF needs THEN "collect" ELSE "digest") /\ index' = 1
        /\ UNCHANGED <<needs, file, written, code>>
    BY <1>5 DEF AddProfile
  <2> QED BY <2>1, CoverSame
<1> QED BY <1>1, <1>2, <1>3, <1>4, <1>5

\* The loop over the entries.
LEMMA CollectCover ==
  ASSUME TypeInv, LayoutInv, PlaceInv, CoverInv, CollectEntry, pc' = "entries"
  PROVE  Collected(index)' /\ code'.trees = <<>>
<1> DEFINE e == file.entries[index]
<1>1. /\ pc = "entries" /\ index \in 1 .. Len(file.entries) /\ index' = index + 1
      /\ UNCHANGED file /\ Collected(index) /\ code.trees = <<>> /\ code \in Code
      /\ file.entries \in Seq(Entry) /\ index \in Nat
      /\ code' = [code EXCEPT
           !.data_size = IF ~code.found /\ ~IsRunnable(e) THEN e.at ELSE @,
           !.found = @ \/ ~IsRunnable(e),
           !.natives = IF ~e.dir /\ is_native_name(e) THEN Append(@, e) ELSE @]
  BY FileFacts DEF CollectEntry, Refuse, CoverInv, TypeInv, TypeOK, zip
<1>2. /\ code'.data_size = IF ~code.found /\ ~IsRunnable(e) THEN e.at ELSE code.data_size
      /\ code'.found = (code.found \/ ~IsRunnable(e))
      /\ code'.natives = IF ~e.dir /\ is_native_name(e) THEN Append(code.natives, e)
                         ELSE code.natives
      /\ code'.trees = code.trees /\ code.natives \in Seq(Entry) /\ e \in Entry
  BY <1>1 DEF Code
<1>3. \A i \in 1 .. Len(file.entries) : i < index' => i < index \/ i = index
  BY <1>1
<1>4. code'.found => \E k \in 1 .. Len(file.entries) :
        ~IsRunnable(file.entries[k]) /\ code'.data_size = file.entries[k].at
  <2>1. CASE code.found
    BY <1>1, <1>2, <2>1 DEF Collected
  <2>2. CASE ~code.found
    BY <1>1, <1>2, <2>2
  <2> QED BY <2>1, <2>2
<1>5. ~code'.found =>
        /\ code'.data_size = 0
        /\ \A i \in 1 .. Len(file.entries) : i < index' => IsRunnable(file.entries[i])
  BY <1>1, <1>2, <1>3 DEF Collected
<1>6. ASSUME NEW i \in 1 .. Len(file.entries), i < index', ~file.entries[i].dir,
             is_native_name(file.entries[i])
      PROVE  \E j \in 1 .. Len(code'.natives) : code'.natives[j] = file.entries[i]
  <2> HIDE DEF e
  <2>1. /\ Len(code'.natives) >= Len(code.natives)
        /\ \A j \in 1 .. Len(code.natives) : code'.natives[j] = code.natives[j]
    BY <1>2
  <2>2. CASE i < index
    <3>1. PICK j \in 1 .. Len(code.natives) : code.natives[j] = file.entries[i]
      BY <1>1, <1>6, <2>2 DEF Collected
    <3>2. j \in 1 .. Len(code'.natives)
      BY <1>2, <2>1
    <3> QED BY <2>1, <3>1, <3>2
  <2>3. CASE i = index
    <3>1. code'.natives = Append(code.natives, e) /\ e = file.entries[i]
      BY <1>2, <1>6, <2>3 DEF e
    <3>2. /\ Len(code'.natives) = Len(code.natives) + 1
          /\ code'.natives[Len(code.natives) + 1] = e
      BY <1>2, <3>1
    <3>3. Len(code.natives) + 1 \in 1 .. Len(code'.natives)
      BY <1>2, <3>2
    <3> QED BY <3>1, <3>2, <3>3
  <2> QED BY <1>3, <1>6, <2>2, <2>3
<1>7. Collected(index)'
  BY <1>1, <1>4, <1>5, <1>6, SMTT(30) DEF Collected
<1> QED BY <1>1, <1>2, <1>7

\* The trees of the native files: one after the other.
LEMMA TreeCover ==
  ASSUME TypeInv, CoverInv, AddLevel \/ FinishTree, needs
  PROVE  CodeKnown' /\ (pc' = "property" => Len(code'.trees) = Len(code'.natives) + 1)
<1> DEFINE n == Len(code.trees)
<1>1. /\ pc = "tree" /\ UNCHANGED file /\ code \in Code
      /\ Collected(Len(file.entries) + 1) /\ TreesOfNatives
      /\ code.trees \in Seq(Tree) /\ code.natives \in Seq(Entry)
      /\ n \in Nat /\ n > 0
  <2>1. /\ pc = "tree" /\ UNCHANGED file
    BY DEF AddLevel, FinishTree, zip
  <2>2. code.trees # <<>>
    BY <2>1 DEF TypeInv, TreesMade
  <2> QED BY <2>1, <2>2 DEF TypeInv, TypeOK, Code, CoverInv, CodeKnown
<1>2. ASSUME UNCHANGED <<code.found, code.data_size, code.natives>>
      PROVE  Collected(Len(file.entries) + 1)'
  BY <1>1, <1>2 DEF Collected
<1>3. CASE AddLevel
  <2> DEFINE level == LevelSize(TopLevel(tree))
             new == [data_len |-> tree.data_len, levels |-> Append(tree.levels, level),
                     size |-> tree.size + level]
  <2>1. code' = [code EXCEPT !.trees[Len(code.trees)] = new] /\ UNCHANGED pc
    BY <1>3 DEF AddLevel
  <2>2. new.data_len = code.trees[n].data_len
    BY DEF tree
  <2> HIDE DEF new
  <2>3. /\ UNCHANGED <<code.found, code.data_size, code.natives>>
        /\ code'.trees = [code.trees EXCEPT ![n] = new]
    BY <1>1, <2>1 DEF Code
  <2>4. /\ Len(code'.trees) = n
        /\ \A i \in 1 .. n : code'.trees[i].data_len = code.trees[i].data_len
    BY <1>1, <2>2, <2>3
  <2>5. ASSUME NEW j \in 1 .. Len(code.natives), j < n
        PROVE  code'.trees[j + 1].data_len = code.natives[j].size
    <3>1. j + 1 \in 1 .. n
      BY <1>1, <2>5
    <3>2. code.trees[j + 1].data_len = code.natives[j].size
      BY <1>1, <2>5 DEF TreesOfNatives
    <3> QED BY <2>4, <3>1, <3>2
  <2>6. TreesOfNatives'
    BY <1>1, <2>3, <2>4, <2>5 DEF TreesOfNatives
  <2> QED BY <1>1, <1>2, <2>1, <2>3, <2>6 DEF CodeKnown
<1>4. CASE FinishTree
  <2>1. CASE n <= Len(code.natives)
    <3> DEFINE new == FirstTree(code.natives[n].size)
    <3>1. /\ pc' = "tree" /\ UNCHANGED <<code.found, code.data_size, code.natives>>
          /\ code'.trees = Append(code.trees, new)
      BY <1>1, <1>4, <2>1 DEF FinishTree, Code
    <3>2. new.data_len = code.natives[n].size
      BY DEF FirstTree
    <3>3. new \in Tree
      <4>1. n \in 1 .. Len(code.natives)
        BY <1>1, <2>1
      <4>2. code.natives[n] \in Entry
        BY <1>1, <4>1
      <4> QED BY <4>2, FirstTreeType DEF Entry
    <3> HIDE DEF new
    <3>4. /\ Len(code'.trees) = n + 1 /\ code'.trees[n + 1] = new
          /\ \A i \in 1 .. n : code'.trees[i] = code.trees[i]
      BY <1>1, <3>1, <3>3
    <3>5. ASSUME NEW j \in 1 .. Len(code.natives), j < n + 1
          PROVE  code'.trees[j + 1].data_len = code.natives[j].size
      <4>1. CASE j = n
        BY <3>2, <3>4, <4>1
      <4>2. CASE j < n
        <5>1. j + 1 \in 1 .. n
          BY <1>1, <4>2
        <5>2. code.trees[j + 1].data_len = code.natives[j].size
          BY <1>1, <4>2 DEF TreesOfNatives
        <5> QED BY <3>4, <5>1, <5>2
      <4> QED BY <1>1, <3>5, <4>1, <4>2
    <3>6. TreesOfNatives'
      BY <1>1, <2>1, <3>1, <3>4, <3>5 DEF TreesOfNatives
    <3> QED BY <1>1, <1>2, <3>1, <3>6 DEF CodeKnown
  <2>2. CASE ~(n <= Len(code.natives))
    <3>1. UNCHANGED <<code.found, code.data_size, code.natives, code.trees>>
      BY <1>1, <1>4, <2>2 DEF FinishTree, Code
    <3>2. n = Len(code.natives) + 1
      BY <1>1, <2>2, SMTT(30) DEF TreesOfNatives
    <3> QED BY <1>1, <1>2, <3>1, <3>2 DEF CodeKnown, TreesOfNatives
  <2> QED BY <2>1, <2>2
<1> QED BY <1>3, <1>4

\* While the property is built.
LEMMA CodeCover ==
  ASSUME TypeInv, LayoutInv, PlaceInv, CoverInv,
         CollectInputs \/ CollectEntry \/ PlaceTree \/ AddLevel \/ FinishTree
         \/ InsertProperty
  PROVE  CoverInv'
<1> USE DEF CoverInv, Gathering, Writing, Sealing, zip
<1>0. UNCHANGED <<needs, file, written>>
  BY DEF CollectInputs, CollectEntry, PlaceTree, AddLevel, FinishTree, InsertProperty, Refuse
<1>1. CASE CollectInputs
  <2>1. pc = "collect" /\ code = NoCode /\ index = 1
    BY <1>1 DEF CollectInputs
  <2>2. CASE pc' = "refused"
    BY <2>2
  <2>3. CASE pc' # "refused"
    <3>1. /\ pc' = "entries" /\ UNCHANGED index
          /\ code' = [NoCode EXCEPT !.offset = code_sign_offset]
      BY <1>1, <2>1, <2>3 DEF CollectInputs, Refuse
    <3>2. ~code'.found /\ code'.data_size = 0 /\ code'.trees = <<>>
      BY <3>1 DEF NoCode
    <3>3. Collected(index)'
      BY <1>0, <2>1, <3>1, <3>2 DEF Collected
    <3> QED BY <1>0, <2>1, <3>1, <3>2, <3>3, CoverSame
  <2> QED BY <2>2, <2>3
<1>2. CASE CollectEntry
  <2>1. pc = "entries" /\ pc' \in {"refused", "entries"}
    BY <1>2 DEF CollectEntry, Refuse
  <2>2. CASE pc' = "refused"
    BY <2>2
  <2>3. CASE pc' = "entries"
    BY <1>0, <1>2, <2>1, <2>3, CollectCover, CoverSame
  <2> QED BY <2>1, <2>2, <2>3
<1>3. CASE PlaceTree
  <2>1. /\ pc = "entries" /\ pc' = "tree" /\ Collected(index) /\ code \in Code
        /\ ~(index <= Len(file.entries)) /\ index \in Nat /\ Len(file.entries) \in Nat
        /\ UNCHANGED <<code.found, code.data_size, code.natives>>
        /\ code'.trees = <<FirstTree(code.data_size)>>
    BY <1>3, FileFacts, SMTT(30) DEF PlaceTree, TypeInv, TypeOK, Code
  <2>2. \A i \in 1 .. Len(file.entries) : i < index
    BY <2>1
  <2>3. Collected(Len(file.entries) + 1)'
    BY <1>0, <2>1, <2>2 DEF Collected
  <2>4. TreesOfNatives'
    <3>1. Len(code'.trees) = 1 /\ code.natives \in Seq(Entry)
      BY <2>1 DEF Code
    <3> QED BY <2>1, <3>1 DEF TreesOfNatives
  <2> QED BY <1>0, <2>1, <2>3, <2>4, CoverSame DEF CodeKnown
<1>4. CASE AddLevel \/ FinishTree
  <2>1. pc = "tree" /\ pc' \in {"tree", "property"} /\ needs
    BY <1>4 DEF AddLevel, FinishTree, PlaceInv, Coding
  <2> QED BY <1>0, <1>4, <2>1, CoverSame, TreeCover
<1>5. CASE InsertProperty
  <2>1. pc = "property" /\ pc' = "digest" /\ UNCHANGED code
    BY <1>5 DEF InsertProperty
  <2> QED BY <1>0, <2>1, CoverSame
<1> QED BY <1>1, <1>2, <1>3, <1>4, <1>5

\* Nothing changes while the block is written.
LEMMA SealCover ==
  ASSUME TypeInv, CoverInv,
         DigestContent \/ EncodeRow \/ EndTable \/ EncodeValue \/ WriteOutput
         \/ SignAgain \/ UNCHANGED vars
  PROVE  CoverInv'
<1> USE DEF CoverInv, Gathering, Writing, Sealing, zip
<1>1. CASE DigestContent \/ EncodeRow \/ EndTable \/ EncodeValue \/ WriteOutput
  <2>1. /\ pc \in Sealing /\ pc' \in Writing /\ UNCHANGED <<needs, file, written, code>>
    BY <1>1 DEF DigestContent, EncodeRow, EndTable, EncodeValue, WriteOutput
  <2> QED BY <2>1, CoverSame
<1>2. CASE SignAgain
  BY <1>2 DEF SignAgain
<1>3. CASE UNCHANGED vars
  <2>1. /\ UNCHANGED <<pc, needs, file, left, written, code, index>>
    BY <1>3 DEF vars
  <2>2. UNCHANGED CodeInFront /\ UNCHANGED Collected(index)
        /\ UNCHANGED ArchiveLaid(written.entries, written.end)
    BY <2>1 DEF CodeInFront, Collected, ArchiveLaid
  <2> QED BY <2>1, <2>2, CoverSame
<1> QED BY <1>1, <1>2, <1>3

LEMMA StopsCover ==
  ASSUME CoverInv, pc' = "refused"
  PROVE  CoverInv'
BY DEF CoverInv, Gathering, Writing, Sealing

LEMMA CoverStep == TypeInv /\ LayoutInv /\ PlaceInv /\ CoverInv /\ [Next]_vars => CoverInv'
<1> SUFFICES ASSUME TypeInv, LayoutInv, PlaceInv, CoverInv, [Next]_vars PROVE CoverInv'
  OBVIOUS
<1>1. CASE UNCHANGED vars
  BY <1>1, SealCover
<1>2. CASE Next
  <2>1. Unreadable \/ EntriesRefused \/ CopyFails \/ OwnerMissing \/ PropertyTooLarge
        \/ RowTooLarge \/ OutputTooLarge => pc' = "refused"
    BY DEF Unreadable, EntriesRefused, CopyFails, OwnerMissing, PropertyTooLarge,
           RowTooLarge, OutputTooLarge, Refuse
  <2> QED BY <1>2, <2>1, AlignCover, CodeCover, SealCover, StopsCover DEF Next, Rest
<1> QED BY <1>1, <1>2

LEMMA CoverLemma == TypeInv /\ LayoutInv /\ CoverInv => CodeCovered
<1> SUFFICES ASSUME TypeInv, LayoutInv, CoverInv, Done, needs PROVE CodeCovered
  BY DEF CodeCovered
<1> DEFINE es == file.entries
<1>1. /\ LaidOut /\ CodeKnown /\ Len(code.trees) = Len(code.natives) + 1
      /\ parse_hap(file) /\ output = Signed
  BY DEF CoverInv, LayoutInv, Done, Gathering, Writing, Sealing
<1>2. /\ output.entries = es /\ BlockStart(output) = BlockStart(file)
      /\ es \in Seq(Entry) /\ Len(es) \in Nat /\ DOMAIN es = 1 .. Len(es)
      /\ BlockStart(file) \in Nat /\ written.end \in Nat
      /\ code.natives \in Seq(Entry)
  <2>1. file \in File /\ written \in Archive /\ code \in Code /\ TypeOK
    BY DEF TypeInv, TypeOK
  <2>2. output.entries = es
    BY <1>1 DEF Signed
  <2>3. es \in Seq(Entry)
    BY <2>1, FileFacts
  <2>4. BlockStart(output) = BlockStart(file) /\ BlockStart(file) \in Nat
    BY <1>1, <2>1, SignedFacts, PartStart
  <2>5. written.end \in Nat /\ code.natives \in Seq(Entry)
    BY <2>1 DEF Archive, Code
  <2> HIDE DEF es
  <2> QED BY <2>2, <2>3, <2>4, <2>5
<1> HIDE DEF es
<1>3. ArchiveLaid(es, written.end) /\ written.end <= BlockStart(file)
  BY <1>1 DEF LaidOut, es
<1>4. /\ code.found => \E k \in 1 .. Len(es) : ~IsRunnable(es[k]) /\ code.data_size = es[k].at
      /\ ~code.found => /\ code.data_size = 0
                        /\ \A i \in 1 .. Len(es) : IsRunnable(es[i])
      /\ \A i \in 1 .. Len(es) : ~es[i].dir /\ is_native_name(es[i]) =>
           \E j \in 1 .. Len(code.natives) : code.natives[j] = es[i]
  <2>1. Collected(Len(es) + 1)
    BY <1>1 DEF CodeKnown, es
  <2>2. \A i \in 1 .. Len(es) : i < Len(es) + 1
    BY <1>2
  <2> QED BY <2>1, <2>2 DEF Collected, es
<1>5. code.data_size <= BlockStart(output)
  <2>1. CASE code.found
    <3>1. PICK k \in 1 .. Len(es) : code.data_size = es[k].at
      BY <1>4, <2>1
    <3>2. /\ es[k].at \in Nat /\ es[k].packed \in Nat
          /\ es[k].at + es[k].packed <= written.end
      BY <1>2, <1>3, EntryFacts DEF ArchiveLaid
    <3> QED BY <1>2, <1>3, <3>1, <3>2
  <2>2. CASE ~code.found
    BY <1>2, <1>4, <2>2
  <2> QED BY <2>1, <2>2
<1>6. ASSUME Resources(es) # {}, NEW i \in DOMAIN es, IsRunnable(es[i])
      PROVE  es[i].at % FSVERITY_BLOCK_SIZE = 0 /\ es[i].at + es[i].packed <= code.data_size
  <2>1. i \in 1 .. Len(es)
    BY <1>2
  <2>2. code.found
    BY <1>2, <1>4, <1>6 DEF Resources
  <2>3. PICK k \in 1 .. Len(es) : ~IsRunnable(es[k]) /\ code.data_size = es[k].at
    BY <1>4, <2>2
  <2>4. i < k
    <3>1. k < i => IsRunnable(es[k])
      BY <1>3, <1>6, <2>1, <2>3 DEF ArchiveLaid
    <3> QED BY <1>6, <2>1, <2>3, <3>1
  <2>5. es[i].at + es[i].packed <= es[k].at
    BY <1>3, <2>1, <2>3, <2>4 DEF ArchiveLaid
  <2>6. es[i].at % FSVERITY_BLOCK_SIZE = 0
    BY <1>3, <1>6, <2>1 DEF ArchiveLaid
  <2> QED BY <2>3, <2>5, <2>6
<1>7. ASSUME NEW i \in DOMAIN es, IsRunnable(es[i]), is_native_name(es[i])
      PROVE  \E j \in DOMAIN code.natives : /\ code.natives[j] = es[i]
                                            /\ code.trees[j + 1].data_len = es[i].size
  <2>1. i \in 1 .. Len(es) /\ ~es[i].dir
    BY <1>2, <1>7 DEF IsRunnable
  <2>2. PICK j \in 1 .. Len(code.natives) : code.natives[j] = es[i]
    BY <1>4, <1>7, <2>1
  <2>3. j < Len(code.trees) /\ DOMAIN code.natives = 1 .. Len(code.natives)
    BY <1>1, <1>2, <2>2
  <2>4. code.trees[j + 1].data_len = code.natives[j].size
    BY <1>1, <2>2, <2>3 DEF CodeKnown, TreesOfNatives
  <2> QED BY <2>2, <2>3, <2>4
<1> QED BY <1>2, <1>5, <1>6, <1>7 DEF CodeCovered

\* The part of a signed file that lies under the Merkle tree of the HAP is all of
\* its code and nothing that signing moves, and every native file has a tree of
\* its own, for archives of any size and order (code_sign.rs:200-258, 376-418).
THEOREM CodeIsCovered == Spec => []CodeCovered
<1> QED BY InitType, TypeStep, InitLayout, LayoutStep, InitPlace, PlaceStep,
           InitCover, CoverStep, CoverLemma, PTL DEF Spec

-----------------------------------------------------------------------------
(* What is written again is accepted: no entry that is refused, and no more    *)
(* bytes than the archive had, though each entry is looked at again from the   *)
(* start.  The entries are taken from a set, in an order of their own: the     *)
(* invariant adds up the sizes of those written and of those left.             *)

Sizes == [e \in Entry |-> e.size]

Supported(es) == \A i \in 1 .. Len(es) : ~EntryRefused(es[i])

\* Code, and the first entry behind it, is on pages.
FirstOnPage(es) ==
  \A i \in 1 .. Len(es) : (\A j \in 1 .. Len(es) : j < i => IsRunnable(es[j])) =>
    es[i].at % FSVERITY_BLOCK_SIZE = 0

Acceptable(es) == ~ArchiveRefused(es) /\ FirstOnPage(es)

\* The sizes written and left together keep the limit, and so does the archive that is
\* looked at again.
AcceptInv ==
  /\ pc = "align" =>
       /\ IsFiniteSet(left) /\ \A e \in left : ~EntryRefused(e)
       /\ Supported(written.entries) /\ FirstOnPage(written.entries)
       /\ SizesOf(written.entries) + Total(Sizes, left) <= MAX_TOTAL_UNCOMPRESSED_SIZE
  /\ needs /\ pc \in {"place", "keep", "collect", "entries"} => Acceptable(file.entries)
  /\ AlignedIsAccepted

LEMMA InitAccept == Init => AcceptInv
BY DEF Init, Begin, AcceptInv, AlignedIsAccepted

LEMMA SizesOfSeq ==
  ASSUME NEW es \in Seq(Entry)
  PROVE  /\ IsFiniteSet(DOMAIN es)
         /\ \A i \in DOMAIN es : es[i] \in Entry /\ es[i].size \in Nat /\ Sizes[es[i]] = es[i].size
         /\ SizesOf(es) = Upto([i \in DOMAIN es |-> es[i].size], Len(es))
         /\ SizesOf(es) \in Nat
<1> DEFINE n == Len(es)
<1>1. n \in Nat /\ DOMAIN es = 1 .. n
  OBVIOUS
<1>2. IsFiniteSet(DOMAIN es)
  BY <1>1, FS_Interval
<1>3. \A i \in DOMAIN es : es[i] \in Entry /\ es[i].size \in Nat /\ Sizes[es[i]] = es[i].size
  <2>1. \A i \in DOMAIN es : es[i] \in Entry
    OBVIOUS
  <2>2. \A e \in Entry : e.size \in Nat /\ Sizes[e] = e.size
    BY DEF Entry, Sizes
  <2> QED BY <2>1, <2>2
<1>4. SizesOf(es) = Upto([i \in DOMAIN es |-> es[i].size], n)
  BY <1>1, <1>2, <1>3, SizesAreTotal DEF Upto
<1> DEFINE w == [i \in DOMAIN es |-> es[i].size]
<1>5. w \in [1 .. n -> Nat]
  BY <1>1, <1>3
<1> HIDE DEF w, n
<1>6. Upto(w, n) \in Nat
  BY <1>1, <1>5, UptoStep
<1> QED BY <1>2, <1>3, <1>4, <1>6 DEF w, n

LEMMA SizesAppend ==
  ASSUME NEW es \in Seq(Entry), NEW e \in Entry
  PROVE  SizesOf(Append(es, e)) = SizesOf(es) + e.size
<1> DEFINE n == Len(es)
           as == Append(es, e)
           v == [i \in DOMAIN es |-> es[i].size]
           w == [i \in DOMAIN as |-> as[i].size]
<1>1. /\ n \in Nat /\ DOMAIN es = 1 .. n /\ as \in Seq(Entry)
      /\ Len(as) = n + 1 /\ DOMAIN as = 1 .. n + 1 /\ as[n + 1] = e
      /\ \A i \in 1 .. n : as[i] = es[i]
  OBVIOUS
<1>2. /\ SizesOf(es) = Upto(v, n) /\ SizesOf(as) = Upto(w, n + 1)
      /\ v \in [1 .. n -> Nat] /\ w \in [1 .. n + 1 -> Nat]
  BY <1>1, SizesOfSeq
<1>3. w[n + 1] = e.size /\ \A i \in 1 .. n : w[i] = v[i]
  BY <1>1
<1> HIDE DEF v, w, as, n
<1>4. Upto(w, n + 1) = w[n + 1] + Upto(w, (n + 1) - 1)
  <2>1. n + 1 \in Nat /\ n + 1 \in 1 .. n + 1
    BY <1>1
  <2> QED BY <1>2, <2>1, UptoStep
<1>5. Upto(w, n) = Upto(v, n) /\ Upto(v, n) \in Nat
  <2>1. Weighs(v, 1 .. n)
    <3>1. IsFiniteSet(1 .. n)
      BY <1>1, FS_Interval
    <3> QED BY <1>2, <3>1 DEF Weighs
  <2> QED BY <1>3, <2>1, TotalSame, TotalIs, ZenonT(30) DEF Upto
<1>6. e.size \in Nat /\ (n + 1) - 1 = n
  BY <1>1 DEF Entry
<1> QED BY <1>2, <1>3, <1>4, <1>5, <1>6 DEF as

LEMMA RefusesArchive ==
  ASSUME NEW es \in Seq(Entry)
  PROVE  ArchiveRefused(es) <=>
           ~Supported(es) \/ SizesOf(es) > MAX_TOTAL_UNCOMPRESSED_SIZE
<1>1. DOMAIN es = 1 .. Len(es)
  OBVIOUS
<1> QED BY <1>1, Zenon DEF ArchiveRefused, Supported, SizesOf

\* What is refused of an entry does not depend on its place or its packed size.
LEMMA SameRefusal ==
  ASSUME NEW e \in Entry, NEW at \in Nat, NEW packed \in Nat
  PROVE  /\ Moved(e, at, packed) \in Entry
         /\ Moved(e, at, packed).size = e.size /\ Moved(e, at, packed).at = at
         /\ EntryRefused(Moved(e, at, packed)) <=> EntryRefused(e)
         /\ IsRunnable(Moved(e, at, packed)) <=> IsRunnable(e)
         /\ Moved(e, at, packed).name = e.name /\ Moved(e, at, packed).kind = e.kind
BY DEF Entry, EntryRefused, IsRunnable, is_runnable_name, is_native_name, Moved

\* All entries are left to be written.
LEMMA PlanAccept ==
  ASSUME TypeInv, ParseInput, pc' = "align"
  PROVE  /\ IsFiniteSet(left') /\ \A e \in left' : ~EntryRefused(e)
         /\ Total(Sizes, left') <= MAX_TOTAL_UNCOMPRESSED_SIZE
<1> DEFINE es == file.entries
<1>1. /\ es \in Seq(Entry) /\ ~ArchiveRefused(es) /\ left' = EntryPlans(es)
  BY FileFacts DEF ParseInput, TypeInv, TypeOK
<1> HIDE DEF es
<1>2. Supported(es) /\ SizesOf(es) <= MAX_TOTAL_UNCOMPRESSED_SIZE /\ SizesOf(es) \in Nat
  <2>1. Supported(es) /\ ~(SizesOf(es) > MAX_TOTAL_UNCOMPRESSED_SIZE)
    BY <1>1, RefusesArchive
  <2>2. SizesOf(es) \in Nat
    BY <1>1, SizesOfSeq
  <2> QED BY <2>1, <2>2, LimitsAssumption
<1>3. left' \in SUBSET Range(es)
  BY <1>1 DEF EntryPlans
<1>4. \A e \in Range(es) : ~EntryRefused(e)
  <2>1. DOMAIN es = 1 .. Len(es)
    BY <1>1
  <2> QED BY <1>2, <2>1 DEF Supported, Range
<1>5. /\ Weighs(Sizes, Range(es))
      /\ Total(Sizes, Range(es)) <= Total([i \in DOMAIN es |-> Sizes[es[i]]], DOMAIN es)
  <2>1. IsFiniteSet(DOMAIN es) /\ \A i \in DOMAIN es : Sizes[es[i]] \in Nat
    BY <1>1, SizesOfSeq
  <2> QED BY <2>1, TotalRange
<1>6. Total([i \in DOMAIN es |-> Sizes[es[i]]], DOMAIN es) = SizesOf(es)
  <2>1. [i \in DOMAIN es |-> Sizes[es[i]]] = [i \in DOMAIN es |-> es[i].size]
    BY <1>1, SizesOfSeq
  <2>2. DOMAIN es = 1 .. Len(es)
    BY <1>1
  <2> QED BY <1>1, <2>1, <2>2, SizesOfSeq DEF Upto
<1>7. Total(Sizes, left') <= Total(Sizes, Range(es)) /\ IsFiniteSet(left')
  BY <1>3, <1>5, TotalPart, WeighsPart DEF Weighs
<1>8. Total(Sizes, left') \in Nat /\ Total(Sizes, Range(es)) \in Nat
  BY <1>3, <1>5, TotalIs, WeighsPart
<1>9. Total(Sizes, left') <= MAX_TOTAL_UNCOMPRESSED_SIZE
  BY <1>2, <1>5, <1>6, <1>7, <1>8, LimitsAssumption
<1> QED BY <1>3, <1>4, <1>7, <1>9

LEMMA WriteAccept ==
  ASSUME TypeInv, CoverInv, AcceptInv, WriteEntry
  PROVE  AcceptInv'
<1> DEFINE es == written.entries
           n  == Len(es)
           max == MAX_TOTAL_UNCOMPRESSED_SIZE
<1>1. /\ es \in Seq(Entry) /\ n \in Nat /\ written.end \in Nat /\ left \subseteq Entry
      /\ IsFiniteSet(left) /\ \A e \in left : ~EntryRefused(e)
      /\ Supported(es) /\ FirstOnPage(es)
      /\ SizesOf(es) + Total(Sizes, left) <= max
      /\ pc = "align" /\ UNCHANGED <<pc, error, file, needs>>
  BY DEF TypeInv, TypeOK, Archive, AcceptInv, WriteEntry
<1>2. PICK e \in left, packed \in Nat :
        LET at == round_up(written.end + 30 + e.name_len, Alignment(e, written.entries))
        IN  /\ left' = left \ {e}
            /\ written' = [entries |-> Append(written.entries, Moved(e, at, packed)),
                           end |-> at + packed,
                           cd_size |-> written.cd_size + 46 + e.name_len]
  BY <1>1, RepackedIs DEF WriteEntry
<1> DEFINE at == round_up(written.end + 30 + e.name_len, Alignment(e, written.entries))
           new == Moved(e, at, packed)
<1>3. e \in Entry /\ e.name_len \in Nat /\ packed \in Nat
  BY <1>1 DEF Entry
<1>4. /\ at \in Nat
      /\ (\A i \in 1 .. n : IsRunnable(es[i])) => at % FSVERITY_BLOCK_SIZE = 0
  <2>1. Alignment(e, written.entries) \in Nat \ {0}
    BY PageAssumption DEF Alignment
  <2>2. (\A i \in 1 .. n : IsRunnable(es[i])) =>
          Alignment(e, written.entries) = FSVERITY_BLOCK_SIZE
    <3>1. DOMAIN es = 1 .. n
      BY <1>1
    <3> QED BY <3>1 DEF Alignment
  <2> DEFINE from == written.end + 30 + e.name_len
             a == Alignment(e, written.entries)
  <2>3. from \in Nat
    BY <1>1, <1>3
  <2> HIDE DEF from, a, n, es
  <2>4. round_up(from, a) \in Nat /\ round_up(from, a) % a = 0
    BY <2>1, <2>3, RoundUp DEF a
  <2> QED BY <2>2, <2>4 DEF from, a
<1>5. written'.entries = Append(es, new)
  BY <1>2
<1> HIDE DEF at
<1>6. /\ new \in Entry /\ new.size = e.size /\ new.at = at
      /\ EntryRefused(new) <=> EntryRefused(e)
  BY <1>3, <1>4, SameRefusal, ZenonT(30)
<1> HIDE DEF new, es
<1>7. /\ Len(written'.entries) = n + 1 /\ written'.entries[n + 1] = new
      /\ \A i \in 1 .. n : written'.entries[i] = es[i]
  BY <1>1, <1>5, <1>6
<1> HIDE DEF n
<1>8. \A i \in 1 .. n + 1 : i \in 1 .. n \/ i = n + 1
  BY <1>1
<1>9. Supported(written'.entries)
  BY <1>1, <1>2, <1>6, <1>7, <1>8 DEF Supported, n
<1>10. FirstOnPage(written'.entries)
  <2> SUFFICES ASSUME NEW i \in 1 .. n + 1,
                      \A j \in 1 .. n + 1 : j < i => IsRunnable(written'.entries[j])
               PROVE  written'.entries[i].at % FSVERITY_BLOCK_SIZE = 0
    BY <1>7 DEF FirstOnPage
  <2>1. \A j \in 1 .. n : j \in 1 .. n + 1 /\ j < n + 1
    BY <1>1
  <2>2. CASE i \in 1 .. n
    <3>1. \A j \in 1 .. n : j < i => IsRunnable(es[j])
      BY <1>7, <2>1
    <3> QED BY <1>1, <1>7, <2>2, <3>1 DEF FirstOnPage, n
  <2>3. CASE i = n + 1
    <3>1. \A j \in 1 .. n : IsRunnable(es[j])
      BY <1>7, <2>1, <2>3
    <3> QED BY <1>4, <1>6, <1>7, <2>3, <3>1
  <2> QED BY <1>8, <2>2, <2>3
<1>11. SizesOf(written'.entries) + Total(Sizes, left') <= max
  <2>1. Weighs(Sizes, left)
    <3>1. \A o \in Entry : Sizes[o] = o.size /\ o.size \in Nat
      BY DEF Sizes, Entry
    <3> QED BY <1>1, <3>1 DEF Weighs
  <2>2. Total(Sizes, left) = Sizes[e] + Total(Sizes, left \ {e}) /\ Sizes[e] = e.size
    BY <1>3, <2>1, TotalRemove DEF Sizes
  <2>3. SizesOf(written'.entries) = SizesOf(es) + e.size
    BY <1>1, <1>5, <1>6, SizesAppend
  <2>4. SizesOf(es) \in Nat /\ e.size \in Nat
    BY <1>1, <1>3, SizesOfSeq DEF Entry
  <2>5. Total(Sizes, left \ {e}) \in Nat
    <3>1. left \ {e} \in SUBSET left
      OBVIOUS
    <3>2. Weighs(Sizes, left \ {e})
      BY <2>1, <3>1, WeighsPart
    <3> QED BY <3>2, TotalIs
  <2>6. left' = left \ {e}
    BY <1>2
  <2> QED BY <1>1, <2>2, <2>3, <2>4, <2>5, <2>6, LimitsAssumption
<1>12. IsFiniteSet(left') /\ \A o \in left' : ~EntryRefused(o)
  BY <1>1, <1>2, FS_Subset
<1>13. error' # "structure"
  BY <1>1 DEF AcceptInv, AlignedIsAccepted
<1> QED BY <1>1, <1>9, <1>10, <1>11, <1>12, <1>13 DEF AcceptInv, AlignedIsAccepted

\* Nothing is written yet.
LEMMA EmptyAccept ==
  /\ Supported(<<>>) /\ FirstOnPage(<<>>) /\ SizesOf(<<>>) = 0
<1>1. <<>> \in Seq(Entry) /\ Len(<<>>) = 0
  OBVIOUS
<1>2. Supported(<<>>) /\ FirstOnPage(<<>>)
  BY <1>1 DEF Supported, FirstOnPage
<1> DEFINE w == [i \in DOMAIN <<>> |-> <<>>[i].size]
<1>3. SizesOf(<<>>) = Upto(w, 0)
  BY <1>1, SizesOfSeq
<1>4. 1 .. 0 = {}
  OBVIOUS
<1> HIDE DEF w
<1>5. SizesOf(<<>>) = 0
  BY <1>3, <1>4, TotalEmpty DEF Upto
<1> QED BY <1>2, <1>5

\* The archive is laid out and read again.
LEMMA AlignAccept ==
  ASSUME TypeInv, CoverInv, AcceptInv,
         ParseInput \/ FinishArchive \/ ParseAgain \/ KeepBlock \/ AddProfile
  PROVE  AcceptInv'
<1> USE DEF AcceptInv, AlignedIsAccepted
<1>1. CASE ParseInput
  <2>1. /\ pc' \in {"align", "place"} /\ (pc' = "place" => ~needs')
        /\ pc = "parse" /\ UNCHANGED <<error, written>>
    BY <1>1 DEF ParseInput
  <2>2. ASSUME pc' = "align"
        PROVE  /\ Supported(written'.entries) /\ FirstOnPage(written'.entries)
               /\ SizesOf(written'.entries) + Total(Sizes, left')
                    <= MAX_TOTAL_UNCOMPRESSED_SIZE
               /\ IsFiniteSet(left') /\ \A e \in left' : ~EntryRefused(e)
    <3>1. written'.entries = <<>>
      BY <2>1 DEF CoverInv, NoArchive
    <3>2. /\ IsFiniteSet(left') /\ \A e \in left' : ~EntryRefused(e)
          /\ Total(Sizes, left') <= MAX_TOTAL_UNCOMPRESSED_SIZE
      BY <1>1, <2>2, PlanAccept
    <3>3. left' \subseteq Entry
      BY <1>1, AlignType DEF TypeInv, TypeOK
    <3>4. Total(Sizes, left') \in Nat
      <4>1. \A o \in Entry : Sizes[o] = o.size /\ o.size \in Nat
        BY DEF Sizes, Entry
      <4>2. Weighs(Sizes, left')
        BY <3>2, <3>3, <4>1 DEF Weighs
      <4> QED BY <4>2, TotalIs
    <3>5. 0 + Total(Sizes, left') = Total(Sizes, left')
      BY <3>4
    <3> QED BY <3>1, <3>2, <3>5, EmptyAccept
  <2> QED BY <2>1, <2>2
<1>2. CASE FinishArchive
  <2>1. /\ pc = "align" /\ pc' = "place" /\ left = {} /\ UNCHANGED error
        /\ file'.entries = written.entries
    BY <1>2 DEF FinishArchive
  <2> DEFINE es == written.entries
  <2>2. es \in Seq(Entry)
    BY DEF TypeInv, TypeOK, Archive
  <2>3. /\ Supported(es) /\ FirstOnPage(es)
        /\ SizesOf(es) + Total(Sizes, left) <= MAX_TOTAL_UNCOMPRESSED_SIZE
    BY <2>1
  <2> HIDE DEF es
  <2>4. ~(SizesOf(es) > MAX_TOTAL_UNCOMPRESSED_SIZE)
    <3>1. SizesOf(es) \in Nat /\ Total(Sizes, left) = 0
      BY <2>1, <2>2, SizesOfSeq, TotalEmpty
    <3> QED BY <2>3, <3>1, LimitsAssumption
  <2>5. Acceptable(es)
    BY <2>2, <2>3, <2>4, RefusesArchive DEF Acceptable
  <2> QED BY <2>1, <2>5 DEF es
<1>3. CASE ParseAgain \/ KeepBlock \/ AddProfile
  <2>1. /\ pc \in {"place", "keep"} /\ pc' \in {"keep", "collect", "digest"}
        /\ UNCHANGED <<error, needs, file>>
    BY <1>3 DEF ParseAgain, KeepBlock, AddProfile, zip
  <2> QED BY <2>1
<1> QED BY <1>1, <1>2, <1>3

\* The archive is looked at again, and nothing is found.
LEMMA CollectAccept ==
  ASSUME TypeInv, LayoutInv, PlaceInv, CoverInv, AcceptInv, CollectInputs \/ CollectEntry
  PROVE  AcceptInv'
<1> USE DEF AcceptInv, AlignedIsAccepted
<1>1. CASE CollectInputs
  <2>1. pc = "collect" /\ UNCHANGED <<needs, file>>
    BY <1>1 DEF CollectInputs, Refuse, zip
  <2>2. parse_hap(file) /\ needs /\ file.block = NoBlock
    BY <2>1 DEF LayoutInv, PlaceInv, Gathering, Coding
  <2>3. ~HasSigningBlock(file)
    BY <2>2 DEF HasSigningBlock, NoBlock
  <2>4. Acceptable(file.entries)
    BY <2>1, <2>2
  <2>5. pc' = "entries" /\ UNCHANGED error
    BY <1>1, <2>2, <2>3, <2>4 DEF CollectInputs, Acceptable
  <2> QED BY <2>1, <2>4, <2>5
<1>2. CASE CollectEntry
  <2> DEFINE e == file.entries[index]
  <2>1. /\ pc = "entries" /\ index <= Len(file.entries) /\ UNCHANGED <<needs, file>>
        /\ index \in Nat \ {0} /\ Len(file.entries) \in Nat
    BY <1>2, FileFacts DEF CollectEntry, Refuse, zip, TypeInv, TypeOK
  <2>2. needs /\ Collected(index) /\ Acceptable(file.entries)
    BY <2>1 DEF PlaceInv, CoverInv, Coding
  <2>3. ~code.found => e.at % FSVERITY_BLOCK_SIZE = 0
    <3>1. index \in 1 .. Len(file.entries)
      BY <2>1
    <3> QED BY <2>2, <3>1 DEF Collected, Acceptable, FirstOnPage
  <2>4. pc' = "entries" /\ UNCHANGED error
    BY <1>2, <2>1, <2>3 DEF CollectEntry
  <2> QED BY <2>1, <2>2, <2>4
<1> QED BY <1>1, <1>2

LEMMA AcceptStep ==
  TypeInv /\ LayoutInv /\ PlaceInv /\ CoverInv /\ AcceptInv /\ [Next]_vars => AcceptInv'
<1> SUFFICES ASSUME TypeInv, LayoutInv, PlaceInv, CoverInv, AcceptInv, [Next]_vars
             PROVE  AcceptInv'
  OBVIOUS
<1>1. CASE UNCHANGED vars
  BY <1>1 DEF vars, zip, AcceptInv, AlignedIsAccepted
<1>2. CASE \/ Unreadable \/ EntriesRefused \/ CopyFails \/ OwnerMissing
           \/ PropertyTooLarge \/ RowTooLarge \/ OutputTooLarge
  <2>1. pc' = "refused" /\ error' \in {"format", "entries", "profile", "size"}
    BY <1>2 DEF Unreadable, EntriesRefused, CopyFails, OwnerMissing, PropertyTooLarge,
                RowTooLarge, OutputTooLarge, Refuse
  <2> QED BY <2>1 DEF AcceptInv, AlignedIsAccepted
<1>3. CASE \/ PlaceTree \/ AddLevel \/ FinishTree \/ InsertProperty \/ DigestContent
           \/ EncodeRow \/ EndTable \/ EncodeValue \/ WriteOutput
  <2>1. /\ pc' \in {"tree", "property", "digest", "rows", "values", "done"}
        /\ UNCHANGED error
    BY <1>3 DEF PlaceTree, AddLevel, FinishTree, InsertProperty, DigestContent,
                EncodeRow, EndTable, EncodeValue, WriteOutput
  <2> QED BY <2>1 DEF AcceptInv, AlignedIsAccepted
<1>4. CASE SignAgain
  BY <1>4 DEF SignAgain, AcceptInv, AlignedIsAccepted
<1>5. CASE Next
  BY <1>1, <1>2, <1>3, <1>4, <1>5, WriteAccept, AlignAccept, CollectAccept DEF Next, Rest
<1> QED BY <1>1, <1>5

\* What align_zip_for_code_sign has written is never refused afterwards: neither as
\* misaligned nor for the kinds or the sizes of its entries, in archives of any
\* number of entries (code_sign.rs:200-258, 376-418).
THEOREM AlignedIsNotRefused == Spec => []AlignedIsAccepted
<1>1. AcceptInv => AlignedIsAccepted
  BY DEF AcceptInv
<1> QED BY <1>1, InitType, TypeStep, InitLayout, LayoutStep, InitPlace, PlaceStep,
           InitCover, CoverStep, InitAccept, AcceptStep, PTL DEF Spec

-----------------------------------------------------------------------------
(* Nothing is lost.  The entries: the names of those written and of those left *)
(* are the names the archive is to have.  The blocks: as many properties as    *)
(* rows of the old table were properties, then one profile, then the signer.   *)

NamesOf(S) == {e.name : e \in S}

\* The entries of the input that an archive laid out again is to have.
Planned == NamesOf(EntryPlans(input.entries))

NamesWritten ==
  /\ NamesOf(Range(written.entries)) \cup NamesOf(left) = Planned
  /\ NamesOf(Range(written.entries)) \cap NamesOf(left) = {}
  /\ UniqueNames(written.entries)
  /\ \A e, o \in left : e.name = o.name => e = o
  /\ \A e \in left \cup Range(written.entries) : e.kind # "pages"

NamesKept ==
  /\ NamesOf(Range(file.entries)) = Planned
  /\ UniqueNames(file.entries)
  /\ \A e \in Range(file.entries) : e.kind # "pages"

\* Every planned name is written or left, and none is both, so each is written once.
NamesInv ==
  /\ UniqueNames(input.entries)
  /\ pc = "align" => NamesWritten
  /\ needs /\ pc \in {"place"} \cup Gathering \cup Writing => NamesKept

LEMMA InitNames == Init => NamesInv
<1> SUFFICES ASSUME Init PROVE NamesInv
  OBVIOUS
<1>1. UniqueNames(input.entries)
  BY InputsAssumption DEF Init, Begin
<1> QED BY <1>1 DEF Init, Begin, NamesInv

LEMMA RangeAppend ==
  ASSUME NEW S, NEW s \in Seq(S), NEW e \in S
  PROVE  Range(Append(s, e)) = Range(s) \cup {e}
<1> DEFINE n == Len(s)
           t == Append(s, e)
<1>1. /\ n \in Nat /\ DOMAIN s = 1 .. n /\ DOMAIN t = 1 .. n + 1
      /\ t[n + 1] = e /\ \A i \in 1 .. n : t[i] = s[i]
  OBVIOUS
<1> HIDE DEF n, t
<1>2. \A i \in 1 .. n + 1 : i \in 1 .. n \/ i = n + 1
  BY <1>1
<1>3. n + 1 \in 1 .. n + 1 /\ \A i \in 1 .. n : i \in 1 .. n + 1
  BY <1>1
<1>4. Range(t) = Range(s) \cup {e}
  <2>1. ASSUME NEW x \in Range(t) PROVE x \in Range(s) \cup {e}
    BY <1>1, <1>2 DEF Range
  <2>2. ASSUME NEW x \in Range(s) PROVE x \in Range(t)
    BY <1>1, <1>3 DEF Range
  <2>3. e \in Range(t)
    BY <1>1, <1>3 DEF Range
  <2> QED BY <2>1, <2>2, <2>3
<1> QED BY <1>4 DEF t

\* A name that was not there stays unique.
LEMMA UniqueAppend ==
  ASSUME NEW s \in Seq(Entry), NEW e \in Entry, UniqueNames(s),
         e.name \notin NamesOf(Range(s))
  PROVE  UniqueNames(Append(s, e))
<1> DEFINE n == Len(s)
           t == Append(s, e)
<1>1. /\ n \in Nat /\ DOMAIN s = 1 .. n /\ DOMAIN t = 1 .. n + 1
      /\ t[n + 1] = e /\ \A i \in 1 .. n : t[i] = s[i]
  OBVIOUS
<1> HIDE DEF n, t
<1>2. \A i \in 1 .. n + 1 : i \in 1 .. n \/ i = n + 1
  BY <1>1
<1>3. \A i \in 1 .. n : s[i].name # e.name
  BY <1>1 DEF NamesOf, Range
<1>4. \A i, j \in 1 .. n : s[i].name = s[j].name => i = j
  BY <1>1 DEF UniqueNames
<1>5. UniqueNames(t)
  BY <1>1, <1>2, <1>3, <1>4 DEF UniqueNames
<1> QED BY <1>5 DEF t

LEMMA PlanNames ==
  ASSUME TypeInv, PlaceInv, CoverInv, NamesInv, ParseInput, pc' = "align"
  PROVE  NamesWritten'
<1> DEFINE es == file.entries
<1>1. /\ pc = "parse" /\ file = input /\ UNCHANGED <<input, written>>
      /\ left' = EntryPlans(es) /\ UniqueNames(es) /\ written.entries = <<>>
  BY DEF ParseInput, PlaceInv, CoverInv, NamesInv, NoArchive, call
<1> HIDE DEF es
<1>2. Range(<<>>) = {} /\ UniqueNames(<<>>)
  BY DEF Range, UniqueNames
<1>3. Planned' = NamesOf(left')
  BY <1>1 DEF Planned, es
<1>4. \A e \in left' : e.kind # "pages"
  BY <1>1 DEF EntryPlans
<1>5. ASSUME NEW e \in left', NEW o \in left', e.name = o.name PROVE e = o
  <2>1. PICK i \in DOMAIN es : e = es[i]
    BY <1>1 DEF EntryPlans, Range
  <2>2. PICK j \in DOMAIN es : o = es[j]
    BY <1>1 DEF EntryPlans, Range
  <2> QED BY <1>1, <1>5, <2>1, <2>2 DEF UniqueNames
<1>6. NamesOf({}) = {}
  BY DEF NamesOf
<1> QED BY <1>1, <1>2, <1>3, <1>4, <1>5, <1>6 DEF NamesWritten

LEMMA WriteNames ==
  ASSUME TypeInv, NamesInv, WriteEntry
  PROVE  NamesWritten'
<1> DEFINE es == written.entries
<1>1. /\ es \in Seq(Entry) /\ left \subseteq Entry /\ written.end \in Nat
      /\ NamesWritten /\ UNCHANGED input
  BY DEF TypeInv, TypeOK, Archive, NamesInv, WriteEntry, call
<1>2. PICK e \in left, packed \in Nat :
        LET at == round_up(written.end + 30 + e.name_len, Alignment(e, written.entries))
        IN  /\ left' = left \ {e}
            /\ written' = [entries |-> Append(written.entries, Moved(e, at, packed)),
                           end |-> at + packed,
                           cd_size |-> written.cd_size + 46 + e.name_len]
  BY <1>1, RepackedIs DEF WriteEntry
<1> DEFINE at == round_up(written.end + 30 + e.name_len, Alignment(e, written.entries))
           new == Moved(e, at, packed)
<1>3. at \in Nat
  <2>1. e \in Entry
    BY <1>1
  <2>2. written.end + 30 + e.name_len \in Nat
    BY <1>1, <2>1 DEF Entry
  <2>3. Alignment(e, written.entries) \in Nat \ {0}
    BY PageAssumption DEF Alignment
  <2> QED BY <2>2, <2>3, RoundUp
<1>4. written'.entries = Append(es, new)
  BY <1>2
<1> HIDE DEF at
<1>5. new \in Entry /\ new.name = e.name /\ new.kind = e.kind
  <2>1. e \in Entry
    BY <1>1
  <2> QED BY <1>3, <2>1, SameRefusal, ZenonT(30)
<1> HIDE DEF new, es
<1>6. Range(written'.entries) = Range(es) \cup {new}
  BY <1>1, <1>4, <1>5, RangeAppend
<1>7. /\ NamesOf(Range(es)) \cup NamesOf(left) = Planned
      /\ NamesOf(Range(es)) \cap NamesOf(left) = {}
      /\ UniqueNames(es)
      /\ \A x, o \in left : x.name = o.name => x = o
      /\ \A x \in left \cup Range(es) : x.kind # "pages"
  BY <1>1 DEF NamesWritten, es
<1>8. NamesOf(Range(written'.entries)) = NamesOf(Range(es)) \cup {e.name}
  BY <1>5, <1>6 DEF NamesOf
<1>9. NamesOf(left') = NamesOf(left) \ {e.name} /\ e.name \in NamesOf(left)
  BY <1>2, <1>7 DEF NamesOf
<1>10. UNCHANGED Planned
  BY <1>1 DEF Planned
<1>11. UniqueNames(written'.entries)
  <2>1. new.name \notin NamesOf(Range(es))
    BY <1>5, <1>7, <1>9
  <2> QED BY <1>1, <1>4, <1>5, <1>7, <2>1, UniqueAppend
<1>12. \A x \in left' \cup Range(written'.entries) : x.kind # "pages"
  BY <1>2, <1>5, <1>6, <1>7
<1>13. \A x, o \in left' : x.name = o.name => x = o
  BY <1>2, <1>7
<1> QED BY <1>7, <1>8, <1>9, <1>10, <1>11, <1>12, <1>13 DEF NamesWritten

LEMMA NamesStep ==
  TypeInv /\ LayoutInv /\ PlaceInv /\ CoverInv /\ NamesInv /\ [Next]_vars => NamesInv'
<1> SUFFICES ASSUME TypeInv, LayoutInv, PlaceInv, CoverInv, NamesInv, [Next]_vars
             PROVE  NamesInv'
  OBVIOUS
<1> USE DEF NamesInv, Gathering, Writing
<1>0. ASSUME UNCHANGED <<input, file>> PROVE UNCHANGED <<NamesKept, UniqueNames(input.entries)>>
  BY <1>0 DEF NamesKept, Planned, UniqueNames
<1>1. CASE UNCHANGED vars
  <2>1. /\ UNCHANGED <<pc, input, file, needs, left, written>>
    BY <1>1 DEF vars, call, zip
  <2>2. UNCHANGED NamesWritten
    BY <2>1 DEF NamesWritten, Planned, UniqueNames
  <2> QED BY <1>0, <2>1, <2>2
<1>2. CASE ParseInput
  <2>1. /\ pc' \in {"align", "place"} /\ (pc' = "place" => ~needs')
        /\ UNCHANGED <<input, file>>
    BY <1>2 DEF ParseInput, call
  <2> QED BY <1>0, <1>2, <2>1, PlanNames
<1>3. CASE WriteEntry
  <2>1. pc' = "align" /\ UNCHANGED <<input, file>>
    BY <1>3 DEF WriteEntry, call
  <2> QED BY <1>0, <1>3, <2>1, WriteNames
<1>4. CASE FinishArchive
  <2>1. /\ pc = "align" /\ pc' = "place" /\ left = {} /\ UNCHANGED input
        /\ file'.entries = written.entries
    BY <1>4 DEF FinishArchive, call
  <2>2. NamesWritten /\ NamesOf(left) = {} /\ UNCHANGED Planned
    BY <2>1 DEF NamesOf, Planned
  <2>3. NamesKept'
    BY <2>1, <2>2 DEF NamesWritten, NamesKept
  <2>4. UniqueNames(input.entries)'
    BY <2>1 DEF UniqueNames
  <2> QED BY <2>1, <2>3, <2>4
<1>5. CASE \/ Unreadable \/ EntriesRefused \/ CopyFails \/ OwnerMissing
           \/ PropertyTooLarge \/ RowTooLarge \/ OutputTooLarge
  <2>1. pc' = "refused" /\ UNCHANGED <<input, file>>
    BY <1>5 DEF Unreadable, EntriesRefused, CopyFails, OwnerMissing, PropertyTooLarge,
                RowTooLarge, OutputTooLarge, Refuse, call, zip
  <2> QED BY <1>0, <2>1
<1>6. CASE \/ ParseAgain \/ KeepBlock \/ AddProfile \/ CollectInputs \/ CollectEntry
           \/ PlaceTree \/ AddLevel \/ FinishTree \/ InsertProperty \/ DigestContent
           \/ EncodeRow \/ EndTable \/ EncodeValue \/ WriteOutput
  <2>1. /\ pc \in {"place"} \cup Gathering \cup Writing
        /\ pc' \in {"refused"} \cup Gathering \cup Writing
        /\ UNCHANGED <<input, file, needs>>
    BY <1>6 DEF ParseAgain, KeepBlock, AddProfile, CollectInputs, CollectEntry,
                PlaceTree, AddLevel, FinishTree, InsertProperty, DigestContent,
                EncodeRow, EndTable, EncodeValue, WriteOutput, Refuse, call, zip
  <2> QED BY <1>0, <2>1, SMTT(30)
<1>7. CASE SignAgain
  <2>1. pc = "done" /\ pc' = "parse" /\ input' = output /\ output = Signed
    BY <1>7 DEF SignAgain, LayoutInv
  <2>2. output.entries = file.entries
    BY <2>1 DEF Signed
  <2>3. UniqueNames(file.entries)
    BY <2>1 DEF NamesKept, PlaceInv
  <2>4. UniqueNames(input'.entries)
    BY <2>1, <2>2, <2>3
  <2> QED BY <2>1, <2>4
<1>8. CASE Next
  BY <1>1, <1>2, <1>3, <1>4, <1>5, <1>6, <1>7, <1>8 DEF Next, Rest
<1> QED BY <1>1, <1>8

PropertyRows(n) == {i \in OfType(file, TYPE_PROPERTY) : i < n}

\* How many properties the signed file is to have.
Kept == IF needs THEN 1 ELSE Cardinality(OfType(file, TYPE_PROPERTY))

\* The properties, the profile and n - 1 blocks behind it.
BlocksKept(n) ==
  /\ Len(blocks) = n + Kept
  /\ \A i \in 1 .. Kept : blocks[i].block_type = TYPE_PROPERTY
  /\ blocks[Kept + 1].block_type = TYPE_PROFILE
  /\ blocks[Kept + 1].id = profile.id

\* As many properties are kept as rows of one were passed, in front of the profile.
BlocksInv ==
  /\ pc = "keep" =>
       /\ \A i \in 1 .. Len(blocks) : blocks[i].block_type = TYPE_PROPERTY
       /\ Len(blocks) = Cardinality(PropertyRows(index))
  /\ pc \in Coding => blocks[1].id = profile.id
  /\ pc = "digest" => BlocksKept(1)
  /\ pc \in Writing => BlocksKept(2)

LEMMA InitBlocks == Init => BlocksInv
BY DEF Init, Begin, BlocksInv, Coding, Writing

LEMMA PropertyRowsFinite ==
  ASSUME TypeInv
  PROVE  /\ IsFiniteSet(OfType(file, TYPE_PROPERTY)) /\ Kept \in Nat
         /\ \A n : IsFiniteSet(PropertyRows(n))
<1>1. Rows(file) \in Seq(Row)
  BY FileFacts DEF TypeInv, TypeOK
<1>2. OfType(file, TYPE_PROPERTY) \in SUBSET (1 .. Len(Rows(file))) /\ Len(Rows(file)) \in Nat
  BY <1>1 DEF OfType
<1>3. IsFiniteSet(1 .. Len(Rows(file)))
  BY <1>2, FS_Interval
<1>4. IsFiniteSet(OfType(file, TYPE_PROPERTY))
  BY <1>2, <1>3, FS_Subset
<1>5. Cardinality(OfType(file, TYPE_PROPERTY)) \in Nat
  BY <1>4, FS_CardinalityType
<1>6. \A n : PropertyRows(n) \in SUBSET OfType(file, TYPE_PROPERTY)
  BY DEF PropertyRows
<1>7. \A n : IsFiniteSet(PropertyRows(n))
  BY <1>4, <1>6, FS_Subset
<1> QED BY <1>4, <1>5, <1>7 DEF Kept

LEMMA KeepBlocks ==
  ASSUME TypeInv, LayoutInv, BlocksInv, KeepBlock
  PROVE  BlocksInv'
<1> DEFINE row == Rows(file)[index]
<1>1. /\ pc = "keep" /\ pc' = "keep" /\ UNCHANGED file /\ index' = index + 1
      /\ blocks' = IF IsPreserved(row) THEN Append(blocks, ReadRow(file, row)) ELSE blocks
      /\ index \in Nat \ {0} /\ index <= Len(Rows(file)) /\ Rows(file) \in Seq(Row)
      /\ file \in File /\ blocks \in Seq(BlockValue)
  BY FileFacts DEF KeepBlock, zip, TypeInv, TypeOK
<1>2. /\ \A i \in 1 .. Len(blocks) : blocks[i].block_type = TYPE_PROPERTY
      /\ Len(blocks) = Cardinality(PropertyRows(index))
  BY <1>1 DEF BlocksInv
<1>3. index \in DOMAIN Rows(file) /\ row \in Row /\ OfType(file, TYPE_PROPERTY) \subseteq Nat
  <2>1. index \in 1 .. Len(Rows(file))
    BY <1>1
  <2> QED BY <1>1, <2>1 DEF OfType
<1>4. index \in OfType(file, TYPE_PROPERTY) <=> IsPreserved(row)
  BY <1>3 DEF OfType, IsPreserved
<1>5. PropertyRows(index + 1)
      = IF IsPreserved(row) THEN PropertyRows(index) \cup {index} ELSE PropertyRows(index)
  <2>1. \A i \in OfType(file, TYPE_PROPERTY) : i < index + 1 <=> i < index \/ i = index
    BY <1>1, <1>3
  <2> HIDE DEF row
  <2> QED BY <1>4, <2>1 DEF PropertyRows
<1>6. PropertyRows(index)' = PropertyRows(index + 1)
  BY <1>1 DEF PropertyRows, OfType, Rows, HasSigningBlock
<1>7. index \notin PropertyRows(index) /\ IsFiniteSet(PropertyRows(index))
  <2>1. IsFiniteSet(PropertyRows(index))
    BY PropertyRowsFinite
  <2>2. ~(index < index)
    BY <1>1
  <2> QED BY <2>1, <2>2 DEF PropertyRows
<1>8. CASE IsPreserved(row)
  <2> DEFINE value == ReadRow(file, row)
  <2>1. value \in BlockValue /\ value.block_type = TYPE_PROPERTY
    BY <1>1, <1>3, <1>8, ReadRowType DEF IsPreserved
  <2>2. blocks' = Append(blocks, value)
    BY <1>1, <1>8
  <2> HIDE DEF value
  <2>3. /\ Len(blocks') = Len(blocks) + 1 /\ Len(blocks) \in Nat
        /\ blocks'[Len(blocks) + 1] = value
        /\ \A i \in 1 .. Len(blocks) : blocks'[i] = blocks[i]
    BY <1>1, <2>1, <2>2
  <2>4. \A i \in 1 .. Len(blocks) + 1 : i \in 1 .. Len(blocks) \/ i = Len(blocks) + 1
    BY <2>3
  <2>5. \A i \in 1 .. Len(blocks') : blocks'[i].block_type = TYPE_PROPERTY
    BY <1>2, <2>1, <2>3, <2>4
  <2>6. Cardinality(PropertyRows(index) \cup {index}) = Cardinality(PropertyRows(index)) + 1
    BY <1>7, FS_AddElement
  <2>7. Len(blocks') = Cardinality(PropertyRows(index)')
    BY <1>2, <1>5, <1>6, <1>8, <2>3, <2>6
  <2> QED BY <1>1, <2>5, <2>7 DEF BlocksInv, Coding, Writing
<1>9. CASE ~IsPreserved(row)
  BY <1>1, <1>2, <1>5, <1>6, <1>9 DEF BlocksInv, Coding, Writing
<1> QED BY <1>8, <1>9

LEMMA ProfileBlocks ==
  ASSUME TypeInv, PlaceInv, BlocksInv, AddProfile
  PROVE  BlocksInv'
<1> DEFINE value == Block(TYPE_PROFILE, profile.id, profile.len)
<1>1. /\ pc = "keep" /\ pc' = (IF needs THEN "collect" ELSE "digest")
      /\ UNCHANGED <<file, needs, profile>> /\ index > Len(Rows(file))
      /\ blocks' = Append(blocks, value) /\ blocks \in Seq(BlockValue)
      /\ index \in Nat /\ Rows(file) \in Seq(Row)
  BY FileFacts DEF AddProfile, zip, call, TypeInv, TypeOK
<1>2. /\ value \in BlockValue /\ value.block_type = TYPE_PROFILE /\ value.id = profile.id
  <2>1. profile \in Profile
    BY InputsAssumption DEF TypeInv, TypeOK
  <2> QED BY <2>1 DEF Block, BlockValue, Profile, BlockTypes
<1> HIDE DEF value
<1>3. /\ Len(blocks') = Len(blocks) + 1 /\ Len(blocks) \in Nat
      /\ blocks'[Len(blocks) + 1] = value
      /\ \A i \in 1 .. Len(blocks) : blocks'[i] = blocks[i]
  BY <1>1, <1>2
<1>4. CASE needs
  <2>1. pc' = "collect" /\ blocks = <<>>
    BY <1>1, <1>4 DEF PlaceInv
  <2>2. blocks'[1] = value
    BY <1>3, <2>1
  <2> QED BY <1>1, <1>2, <2>1, <2>2 DEF BlocksInv, Coding, Writing
<1>5. CASE ~needs
  <2>1. PropertyRows(index) = OfType(file, TYPE_PROPERTY)
    <3>1. \A i \in DOMAIN Rows(file) : i < index
      BY <1>1
    <3> QED BY <3>1 DEF PropertyRows, OfType
  <2>2. Len(blocks) = Kept /\ \A i \in 1 .. Len(blocks) : blocks[i].block_type = TYPE_PROPERTY
    BY <1>1, <1>5, <2>1 DEF BlocksInv, Kept
  <2>3. UNCHANGED Kept
    BY <1>1 DEF Kept, OfType, Rows, HasSigningBlock
  <2>4. BlocksKept(1)'
    BY <1>1, <1>2, <1>3, <2>2, <2>3 DEF BlocksKept
  <2> QED BY <1>1, <1>5, <2>4 DEF BlocksInv, Coding, Writing
<1> QED BY <1>4, <1>5

LEMMA PropertyBlocks ==
  ASSUME TypeInv, PlaceInv, BlocksInv, InsertProperty
  PROVE  BlocksInv'
<1> DEFINE value == [block_type |-> TYPE_PROPERTY, id |-> "code sign",
                     len |-> 12 + CodeSignSize,
                     at |-> code.offset, tree_at |-> code.tree_offset]
<1>1. /\ pc = "property" /\ pc' = "digest" /\ UNCHANGED <<file, needs, profile>>
      /\ blocks' = <<value>> \o blocks /\ value.block_type = TYPE_PROPERTY
  BY DEF InsertProperty, zip, call
<1>2. /\ needs /\ Len(blocks) = 1 /\ blocks \in Seq(BlockValue)
      /\ blocks[1].block_type = TYPE_PROFILE /\ blocks[1].id = profile.id
  BY <1>1 DEF PlaceInv, BlocksInv, Coding, TypeInv, TypeOK
<1> HIDE DEF value
<1>3. blocks' = <<value, blocks[1]>>
  BY <1>1, <1>2, One, Two
<1>4. Kept' = 1
  BY <1>1, <1>2 DEF Kept
<1>5. BlocksKept(1)'
  <2>1. Len(blocks') = 2 /\ blocks'[1] = value /\ blocks'[2] = blocks[1]
    BY <1>3
  <2> QED BY <1>1, <1>2, <1>4, <2>1 DEF BlocksKept
<1> QED BY <1>1, <1>5 DEF BlocksInv, Coding, Writing

LEMMA SignerBlocks ==
  ASSUME TypeInv, BlocksInv, DigestContent
  PROVE  BlocksInv'
<1>1. PICK cms_len \in CmsSizes : blocks' = Append(blocks, Block(TYPE_SIGNER, "cms", cms_len))
  BY DEF DigestContent
<1> DEFINE value == Block(TYPE_SIGNER, "cms", cms_len)
<1>2. /\ pc = "digest" /\ pc' = "rows" /\ UNCHANGED <<file, needs, profile>>
      /\ blocks' = Append(blocks, value) /\ blocks \in Seq(BlockValue) /\ BlocksKept(1)
  BY <1>1 DEF DigestContent, zip, call, TypeInv, TypeOK, BlocksInv
<1>3. value \in BlockValue
  BY InputsAssumption, IdsAssumption DEF Block, BlockValue, BlockTypes
<1> HIDE DEF value
<1>4. /\ Len(blocks') = Len(blocks) + 1 /\ Len(blocks) \in Nat
      /\ \A i \in 1 .. Len(blocks) : blocks'[i] = blocks[i]
  BY <1>2, <1>3
<1>5. UNCHANGED Kept /\ Kept \in Nat
  BY <1>2, PropertyRowsFinite DEF Kept, OfType, Rows, HasSigningBlock
<1>6. BlocksKept(2)'
  BY <1>2, <1>4, <1>5 DEF BlocksKept
<1> QED BY <1>2, <1>6 DEF BlocksInv, Coding, Writing

LEMMA BlocksStep ==
  TypeInv /\ LayoutInv /\ PlaceInv /\ BlocksInv /\ [Next]_vars => BlocksInv'
<1> SUFFICES ASSUME TypeInv, LayoutInv, PlaceInv, BlocksInv, [Next]_vars PROVE BlocksInv'
  OBVIOUS
<1>0. ASSUME UNCHANGED <<file, needs, blocks, profile>>
      PROVE  UNCHANGED <<BlocksKept(1), BlocksKept(2)>>
  BY <1>0 DEF BlocksKept, Kept, OfType, Rows, HasSigningBlock
<1>1. CASE UNCHANGED vars
  <2>1. UNCHANGED <<pc, file, needs, blocks, profile, index>>
    BY <1>1 DEF vars, zip, call
  <2>2. UNCHANGED PropertyRows(index)
    BY <2>1 DEF PropertyRows, OfType, Rows, HasSigningBlock
  <2> QED BY <1>0, <2>1, <2>2 DEF BlocksInv
<1>2. CASE \/ Unreadable \/ EntriesRefused \/ CopyFails \/ OwnerMissing
           \/ PropertyTooLarge \/ RowTooLarge \/ OutputTooLarge
           \/ ParseInput \/ WriteEntry \/ FinishArchive \/ SignAgain
  <2>1. pc' \in {"refused", "align", "place", "parse"}
    BY <1>2 DEF Unreadable, EntriesRefused, CopyFails, OwnerMissing, PropertyTooLarge,
                RowTooLarge, OutputTooLarge, Refuse, ParseInput, WriteEntry, FinishArchive,
                SignAgain
  <2> QED BY <2>1 DEF BlocksInv, Coding, Writing
<1>3. CASE ParseAgain
  <2>1. pc = "place" /\ pc' = "keep" /\ blocks' = <<>> /\ index' = 1 /\ file' = file
    BY <1>3 DEF ParseAgain, LayoutInv, zip
  <2>2. PropertyRows(index)' = {}
    <3>1. \A i \in OfType(file', TYPE_PROPERTY) : ~(i < 1)
      <4>1. Rows(file) \in Seq(Row)
        BY FileFacts DEF TypeInv, TypeOK
      <4>2. \A i \in DOMAIN Rows(file) : ~(i < 1)
        BY <4>1
      <4> QED BY <2>1, <4>2 DEF OfType
    <3> QED BY <2>1, <3>1 DEF PropertyRows
  <2>3. Cardinality({}) = 0 /\ Len(<<>>) = 0
    BY FS_EmptySet
  <2> QED BY <2>1, <2>2, <2>3 DEF BlocksInv, Coding, Writing
<1>4. CASE CollectInputs \/ CollectEntry \/ PlaceTree \/ AddLevel \/ FinishTree
  <2>1. /\ pc \in Coding /\ pc' \in {"refused"} \cup Coding /\ UNCHANGED <<blocks, profile>>
    BY <1>4 DEF CollectInputs, CollectEntry, PlaceTree, AddLevel, FinishTree, Refuse,
                Coding, call
  <2> QED BY <2>1 DEF BlocksInv, Coding, Writing
<1>5. CASE EncodeRow \/ EndTable \/ EncodeValue \/ WriteOutput
  <2>1. /\ pc \in Writing /\ pc' \in Writing /\ UNCHANGED <<file, needs, blocks, profile>>
    BY <1>5 DEF EncodeRow, EndTable, EncodeValue, WriteOutput, Writing, zip, call
  <2> QED BY <1>0, <2>1 DEF BlocksInv, Coding, Writing
<1>6. CASE Next
  BY <1>1, <1>2, <1>3, <1>4, <1>5, <1>6, KeepBlocks, ProfileBlocks, PropertyBlocks,
     SignerBlocks DEF Next, Rest
<1> QED BY <1>1, <1>6

\* A name for each entry.
LEMMA NamesCounted ==
  ASSUME NEW es \in Seq(Entry), UniqueNames(es)
  PROVE  Cardinality(NamesOf(Range(es))) = Len(es)
<1> DEFINE n == Len(es)
           T == NamesOf(Range(es))
           f == [i \in 1 .. n |-> es[i].name]
<1>1. n \in Nat /\ DOMAIN es = 1 .. n
  OBVIOUS
<1>2. \A i \in 1 .. n : es[i].name \in T
  BY <1>1 DEF NamesOf, Range
<1>3. \A t \in T : \E i \in 1 .. n : es[i].name = t
  BY <1>1 DEF NamesOf, Range
<1>4. \A i, j \in 1 .. n : es[i].name = es[j].name => i = j
  BY <1>1 DEF UniqueNames
<1> HIDE DEF n, T
<1>5. f \in Bijection(1 .. n, T)
  BY <1>2, <1>3, <1>4 DEF Bijection, Injection, Surjection, IsInjective
<1>6. ExistsBijection(1 .. n, T)
  BY <1>5 DEF ExistsBijection
<1>7. IsFiniteSet(1 .. n) /\ Cardinality(1 .. n) = n
  <2>1. IsFiniteSet(1 .. n) /\ Cardinality(1 .. n) = IF 1 > n THEN 0 ELSE n - 1 + 1
    BY <1>1, FS_Interval
  <2> QED BY <1>1, <2>1
<1>8. Cardinality(T) = n
  BY <1>6, <1>7, FS_Bijection
<1> QED BY <1>8 DEF n, T

LEMMA EntriesKept ==
  ASSUME TypeInv, LayoutInv, PlaceInv, NamesInv, Done
  PROVE  LET names(f) == {e.name : e \in {x \in Range(f.entries) : needs => x.kind # "pages"}}
         IN  /\ names(output) = names(input)
             /\ Len(output.entries) = Cardinality(names(input))
<1> DEFINE names(f) == {e.name : e \in {x \in Range(f.entries) : needs => x.kind # "pages"}}
<1>1. /\ output.entries = file.entries /\ pc = "done" /\ file.entries \in Seq(Entry)
      /\ UniqueNames(input.entries)
  BY FileFacts DEF Done, LayoutInv, Signed, TypeInv, TypeOK, NamesInv
<1>2. CASE needs
  <2>1. NamesKept
    BY <1>1, <1>2 DEF NamesInv, Writing
  <2>2. names(output) = NamesOf(Range(file.entries))
    BY <1>1, <2>1 DEF NamesKept, NamesOf
  <2>3. names(input) = Planned
    BY <1>2 DEF Planned, NamesOf, EntryPlans
  <2>4. Cardinality(NamesOf(Range(file.entries))) = Len(file.entries)
    BY <1>1, <2>1, NamesCounted DEF NamesKept
  <2> HIDE DEF names
  <2>5. names(output) = names(input) /\ Len(output.entries) = Cardinality(names(input))
    BY <1>1, <2>1, <2>2, <2>3, <2>4 DEF NamesKept
  <2> QED BY <2>5 DEF names
<1>3. CASE ~needs
  <2>1. file = input
    BY <1>3 DEF PlaceInv
  <2>2. names(output) = NamesOf(Range(file.entries)) /\ names(input) = NamesOf(Range(file.entries))
    BY <1>1, <1>3, <2>1 DEF NamesOf
  <2>3. Cardinality(NamesOf(Range(file.entries))) = Len(file.entries)
    BY <1>1, <2>1, NamesCounted
  <2> HIDE DEF names
  <2>4. names(output) = names(input) /\ Len(output.entries) = Cardinality(names(input))
    BY <1>1, <2>2, <2>3
  <2> QED BY <2>4 DEF names
<1> QED BY <1>2, <1>3

LEMMA BlocksNeither ==
  ASSUME TypeInv, LayoutInv, PlaceInv, BlocksInv, Done
  PROVE  /\ \E i \in OfType(output, TYPE_PROFILE) :
              /\ OfType(output, TYPE_PROFILE) = {i}
              /\ ReadRow(output, Rows(output)[i]).id = profile.id
         /\ OfType(output, "rotation") = {}
         /\ Cardinality(OfType(output, TYPE_PROPERTY))
              = IF needs THEN 1 ELSE Cardinality(OfType(input, TYPE_PROPERTY))
<1> DEFINE k == Kept
           p == Kept + 1
<1>1. /\ BlocksKept(2) /\ SignerLast /\ RowsLaid /\ blocks \in Seq(BlockValue)
      /\ rows \in Seq(Row) /\ k \in Nat
  BY PropertyRowsFinite DEF BlocksInv, LayoutInv, Done, Writing, TypeInv, TypeOK
<1>2. /\ Rows(output) = rows /\ Len(rows) = Len(blocks)
      /\ \A i \in 1 .. Len(rows) : ReadRow(output, rows[i]) = blocks[i]
  BY SignedFacts
<1>3. Len(blocks) = k + 2 /\ DOMAIN rows = 1 .. k + 2
  BY <1>1, <1>2 DEF BlocksKept
<1>4. /\ \A i \in 1 .. k : rows[i].block_type = TYPE_PROPERTY
      /\ rows[p].block_type = TYPE_PROFILE
      /\ rows[k + 2].block_type = TYPE_SIGNER
      /\ ReadRow(output, rows[p]).id = profile.id
  <2>1. \A i \in 1 .. k + 2 : rows[i].block_type = blocks[i].block_type
    BY <1>1, <1>2, <1>3 DEF RowsLaid
  <2>2. /\ p \in 1 .. k + 2 /\ k + 2 \in 1 .. k + 2 /\ \A i \in 1 .. k : i \in 1 .. k + 2
    BY <1>1
  <2>3. blocks[k + 2].block_type = TYPE_SIGNER
    BY <1>1, <1>3, <2>2 DEF SignerLast
  <2>4. /\ \A i \in 1 .. k : blocks[i].block_type = TYPE_PROPERTY
        /\ blocks[p].block_type = TYPE_PROFILE /\ blocks[p].id = profile.id
    BY <1>1 DEF BlocksKept
  <2>5. ReadRow(output, rows[p]) = blocks[p]
    BY <1>2, <1>3, <2>2
  <2> HIDE DEF k, p
  <2> QED BY <2>1, <2>2, <2>3, <2>4, <2>5
<1>5. p = k + 1
  OBVIOUS
<1> HIDE DEF k, p
<1>6. \A i \in 1 .. k + 2 : i \in 1 .. k \/ i = p \/ i = k + 2
  BY <1>1, <1>5
<1>7. /\ p \in 1 .. k + 2 /\ p \notin 1 .. k /\ \A i \in 1 .. k : i \in 1 .. k + 2
  BY <1>1, <1>5
<1>8. OfType(output, TYPE_PROFILE) = {p}
  BY <1>2, <1>3, <1>4, <1>6, <1>7 DEF OfType, TYPE_PROFILE, TYPE_PROPERTY, TYPE_SIGNER
<1>9. OfType(output, "rotation") = {}
  BY <1>2, <1>3, <1>4, <1>6 DEF OfType, TYPE_PROFILE, TYPE_PROPERTY, TYPE_SIGNER
<1>10. OfType(output, TYPE_PROPERTY) = 1 .. k
  BY <1>2, <1>3, <1>4, <1>6, <1>7 DEF OfType, TYPE_PROFILE, TYPE_PROPERTY, TYPE_SIGNER
<1>11. Cardinality(1 .. k) = k
  <2>1. Cardinality(1 .. k) = IF 1 > k THEN 0 ELSE k - 1 + 1
    BY <1>1, FS_Interval
  <2> QED BY <1>1, <2>1
<1>12. k = IF needs THEN 1 ELSE Cardinality(OfType(input, TYPE_PROPERTY))
  BY DEF k, Kept, PlaceInv
<1> QED BY <1>2, <1>4, <1>8, <1>9, <1>10, <1>11, <1>12

LEMMA LostLemma == TypeInv /\ LayoutInv /\ PlaceInv /\ NamesInv /\ BlocksInv => NothingLost
BY EntriesKept, BlocksNeither DEF NothingLost

\* Signing keeps every entry but the page bitmaps of an archive it lays out again,
\* and writes one profile and the properties there were, for archives and blocks of
\* any length, however often the file is signed (sign.rs:40-82,
\* signing_block.rs:9-31, code_sign.rs:200-258).
THEOREM SigningLosesNothing == Spec => []NothingLost
<1> QED BY InitType, TypeStep, InitLayout, LayoutStep, InitPlace, PlaceStep,
           InitCover, CoverStep, InitNames, NamesStep, InitBlocks, BlocksStep,
           LostLemma, PTL DEF Spec

-----------------------------------------------------------------------------
(* The trees.  A verifier counts the pages of each level in closed form, the   *)
(* code from the size in bytes of the level below: both are least numbers with *)
(* the same multiples, so they are equal.                                      *)

LEMMA DivCeilLeast ==
  ASSUME NEW n \in Nat, NEW a \in Nat \ {0}, NEW m \in Nat
  PROVE  div_ceil(n, a) <= m <=> n <= m * a
<1> DEFINE q == div_ceil(n, a)
<1>1. q \in Nat /\ q * a >= n /\ q * a = round_up(n, a)
  BY DivCeil DEF div_ceil, round_up
<1> HIDE DEF q
<1>2. q <= m <=> q * a <= m * a
  BY <1>1, TimesOrder
<1>3. n <= m * a => q * a <= m * a
  BY <1>1, RoundUpLeast
<1>4. m * a \in Nat /\ q * a \in Nat
  BY <1>1
<1> QED BY <1>1, <1>2, <1>3, <1>4 DEF q

\* Numbers that are below the same numbers are equal.
LEMMA SameBounds ==
  ASSUME NEW p \in Nat, NEW q \in Nat, \A m \in Nat : p <= m <=> q <= m
  PROVE  p = q
<1>1. p <= q /\ q <= p
  OBVIOUS
<1> QED BY <1>1

LEMMA TimesNat ==
  ASSUME NEW a \in Nat, NEW b \in Nat
  PROVE  a * b \in Nat /\ a * b = b * a /\ (a # 0 /\ b # 0 => a * b \in Nat \ {0})
OBVIOUS

LEMMA TimesGroup ==
  ASSUME NEW a \in Nat, NEW b \in Nat, NEW c \in Nat
  PROVE  (a * b) * c = a * (b * c)
OBVIOUS

\* Rounding up twice is rounding up once.
LEMMA DivCeilTwice ==
  ASSUME NEW n \in Nat, NEW a \in Nat \ {0}, NEW b \in Nat \ {0}
  PROVE  div_ceil(div_ceil(n, b), a) = div_ceil(n, a * b)
<1> DEFINE p == div_ceil(div_ceil(n, b), a)
           q == div_ceil(n, a * b)
<1>1. a * b \in Nat \ {0}
  BY TimesNat
<1>2. div_ceil(n, b) \in Nat
  BY DivCeil
<1>3. p \in Nat /\ q \in Nat
  BY <1>1, <1>2, DivCeil
<1>4. ASSUME NEW m \in Nat PROVE p <= m <=> q <= m
  <2>1. p <= m <=> div_ceil(n, b) <= m * a
    BY <1>2, DivCeilLeast
  <2>2. m * a \in Nat /\ (m * a) * b = m * (a * b)
    BY TimesNat, TimesGroup
  <2>3. div_ceil(n, b) <= m * a <=> n <= (m * a) * b
    BY <2>2, DivCeilLeast
  <2>4. q <= m <=> n <= m * (a * b)
    BY <1>1, DivCeilLeast
  <2> QED BY <2>1, <2>2, <2>3, <2>4
<1> HIDE DEF p, q
<1>5. p = q
  BY <1>3, <1>4, SameBounds
<1> QED BY <1>5 DEF p, q

\* A common factor can be left out.
LEMMA DivCeilFactor ==
  ASSUME NEW n \in Nat, NEW a \in Nat \ {0}, NEW c \in Nat \ {0}
  PROVE  div_ceil(n * c, a * c) = div_ceil(n, a)
<1> DEFINE p == div_ceil(n * c, a * c)
           q == div_ceil(n, a)
<1>1. a * c \in Nat \ {0} /\ n * c \in Nat
  BY TimesNat
<1>2. p \in Nat /\ q \in Nat
  BY <1>1, DivCeil
<1>3. ASSUME NEW m \in Nat PROVE p <= m <=> q <= m
  <2>1. p <= m <=> n * c <= m * (a * c)
    BY <1>1, DivCeilLeast
  <2>2. m * a \in Nat /\ (m * a) * c = m * (a * c)
    BY TimesNat, TimesGroup
  <2>3. n <= m * a <=> n * c <= (m * a) * c
    BY <2>2, TimesOrder
  <2>4. q <= m <=> n <= m * a
    BY DivCeilLeast
  <2> QED BY <2>1, <2>2, <2>3, <2>4
<1> HIDE DEF p, q
<1>4. p = q
  BY <1>2, <1>3, SameBounds
<1> QED BY <1>4 DEF p, q

\* A page holds Arity digests.
LEMMA ArityType ==
  /\ Arity \in Nat \ {0} /\ FSVERITY_BLOCK_SIZE = Arity * SHA256_SIZE
  /\ FSVERITY_BLOCK_SIZE \in Nat \ {0} /\ SHA256_SIZE \in Nat \ {0}
<1> DEFINE p == FSVERITY_BLOCK_SIZE
           d == SHA256_SIZE
           a == p \div d
<1>1. p \in Nat \ {0} /\ d \in Nat \ {0} /\ p % d = 0
  BY PageAssumption
<1>2. p = d * a + (p % d) /\ a \in Nat
  BY <1>1, Division
<1> HIDE DEF a, p, d
<1>3. p = d * a
  BY <1>1, <1>2
<1>4. d * a = a * d /\ (a = 0 => d * a = 0)
  BY <1>1, <1>2, TimesNat
<1>5. a # 0 /\ p = a * d
  BY <1>1, <1>3, <1>4
<1> QED BY <1>1, <1>2, <1>5 DEF a, p, d, Arity

LEMMA PowerType ==
  /\ Power \in [Nat -> Nat \ {0}]
  /\ Power[0] = 1
  /\ \A k \in Nat : Power[k + 1] = Arity * Power[k]
<1> DEFINE Eq(f) == f = [k \in Nat |-> IF k = 0 THEN 1 ELSE Arity * f[k - 1]]
<1>1. PICK f \in [Nat -> Nat \ {0}] : Eq(f)
  BY ArityType, PowersExist
<1>2. Power = CHOOSE g : Eq(g)
  BY Zenon DEF Power
<1>3. Eq(Power)
  BY <1>1, <1>2
<1>4. \A k \in Nat : Power[k] = IF k = 0 THEN 1 ELSE Arity * Power[k - 1]
  BY <1>3
<1>5. Power = [k \in Nat |-> Power[k]]
  BY <1>3
<1> HIDE DEF Eq
<1>6. Power[0] = 1
  BY <1>4
<1>7. ASSUME NEW k \in Nat PROVE Power[k + 1] = Arity * Power[k]
  <2>1. k + 1 \in Nat /\ k + 1 # 0 /\ (k + 1) - 1 = k
    OBVIOUS
  <2>2. Power[k + 1] = IF k + 1 = 0 THEN 1 ELSE Arity * Power[(k + 1) - 1]
    BY <1>4, <2>1
  <2> QED BY <2>1, <2>2
<1> DEFINE N == {k \in Nat : Power[k] \in Nat \ {0}}
<1>8. Nat \subseteq N
  <2>1. 0 \in N
    BY <1>6
  <2>2. ASSUME NEW k \in Nat, k \in N PROVE k + 1 \in N
    <3>1. Power[k] \in Nat \ {0}
      BY <2>2
    <3>2. Arity * Power[k] \in Nat \ {0}
      BY <3>1, ArityType, TimesNat
    <3> QED BY <1>7, <3>2
  <2> HIDE DEF N
  <2> QED BY <2>1, <2>2, NatSet
<1> QED BY <1>5, <1>6, <1>7, <1>8

\* The pages of a level are those that hold a digest of each page below.
LEMMA VerifierLevel ==
  ASSUME NEW d \in Nat, NEW k \in Nat
  PROVE  /\ VerifierPages(d, k) \in Nat
         /\ VerifierPages(d, 0) = div_ceil(d, FSVERITY_BLOCK_SIZE)
         /\ VerifierPages(d, k + 1) = div_ceil(VerifierPages(d, k), Arity)
<1> DEFINE pages == div_ceil(d, FSVERITY_BLOCK_SIZE)
<1>1. pages \in Nat
  BY ArityType, DivCeil
<1>2. Power[k] \in Nat \ {0} /\ Power[0] = 1 /\ Power[k + 1] = Arity * Power[k]
  BY PowerType
<1>3. /\ VerifierPages(d, k) = div_ceil(pages, Power[k])
      /\ VerifierPages(d, 0) = div_ceil(pages, 1)
      /\ VerifierPages(d, k + 1) = div_ceil(pages, Arity * Power[k])
  BY <1>2 DEF VerifierPages
<1> HIDE DEF pages
<1>4. div_ceil(pages, Power[k]) \in Nat
  BY <1>1, <1>2, DivCeil
<1>5. div_ceil(pages, 1) = pages
  BY <1>1 DEF div_ceil
<1>6. div_ceil(div_ceil(pages, Power[k]), Arity) = div_ceil(pages, Arity * Power[k])
  BY <1>1, <1>2, ArityType, DivCeilTwice
<1> QED BY <1>3, <1>4, <1>5, <1>6 DEF pages

\* The size of a level by the pages below it.
LEMMA LevelPages ==
  ASSUME NEW n \in Nat
  PROVE  LevelSize(n) = div_ceil(div_ceil(n, FSVERITY_BLOCK_SIZE), Arity) * FSVERITY_BLOCK_SIZE
<1> DEFINE p == FSVERITY_BLOCK_SIZE
           pages == div_ceil(n, p)
<1>1. p \in Nat \ {0} /\ p = Arity * SHA256_SIZE /\ pages \in Nat
  BY ArityType, DivCeil
<1>2. LevelSize(n) = div_ceil(pages * SHA256_SIZE, p) * p
  BY DEF LevelSize, round_up, div_ceil
<1> HIDE DEF p, pages
<1>3. div_ceil(pages * SHA256_SIZE, Arity * SHA256_SIZE) = div_ceil(pages, Arity)
  BY <1>1, ArityType, DivCeilFactor
<1>4. LevelSize(n) = div_ceil(pages, Arity) * p
  BY <1>1, <1>2, <1>3
<1> QED BY <1>4 DEF p, pages

\* Whole pages are as many as they are.
LEMMA WholePages ==
  ASSUME NEW n \in Nat, NEW a \in Nat \ {0}
  PROVE  div_ceil(n * a, a) = n
<1>1. 1 * a = a /\ 1 \in Nat \ {0}
  OBVIOUS
<1>2. div_ceil(n * a, 1 * a) = div_ceil(n, 1)
  BY <1>1, DivCeilFactor
<1>3. div_ceil(n, 1) = n
  BY DEF div_ceil
<1> QED BY <1>1, <1>2, <1>3

\* The pages of the levels so far.
PagesOf(d, n) == FoldSeq(+, 0, [k \in 1 .. n |-> VerifierPages(d, k)])

\* The levels so far have as many pages as the verifier counts on them.
TreeFits(t) ==
  /\ \A k \in 1 .. Len(t.levels) :
       t.levels[k] = VerifierPages(t.data_len, k) * FSVERITY_BLOCK_SIZE
  /\ \A k \in 0 .. Len(t.levels) - 1 : VerifierPages(t.data_len, k) > 1
  /\ t.levels = <<>> => VerifierPages(t.data_len, 0) <= 1
  /\ t.size = PagesOf(t.data_len, Len(t.levels)) * FSVERITY_BLOCK_SIZE

\* Every tree fits so far, and all but the last one are finished.
TreesInv ==
  pc \in {"tree", "property"} =>
    \A i \in 1 .. Len(code.trees) :
      /\ TreeFits(code.trees[i])
      /\ i < Len(code.trees) \/ pc = "property" => TreeDone(code.trees[i])

LEMMA InitTrees == Init => TreesInv
BY DEF Init, Begin, TreesInv

LEMMA PagesOfLevels ==
  ASSUME NEW d \in Nat, NEW n \in Nat
  PROVE  /\ PagesOf(d, n) \in Nat
         /\ PagesOf(d, 0) = 0
         /\ PagesOf(d, n + 1) = VerifierPages(d, n + 1) + PagesOf(d, n)
<1> DEFINE s(m) == [k \in 1 .. m |-> VerifierPages(d, k)]
<1>1. ASSUME NEW m \in Nat
      PROVE  /\ s(m) \in [1 .. m -> Nat] /\ DOMAIN s(m) = 1 .. m
             /\ Weighs(s(m), 1 .. m) /\ PagesOf(d, m) = Upto(s(m), m)
             /\ PagesOf(d, m) \in Nat
  <2>1. IsFiniteSet(1 .. m)
    BY FS_Interval
  <2>2. \A k \in 1 .. m : VerifierPages(d, k) \in Nat
    BY VerifierLevel
  <2>3. s(m) \in [1 .. m -> Nat] /\ DOMAIN s(m) = 1 .. m
    BY <2>2
  <2>4. Weighs(s(m), 1 .. m)
    BY <2>1, <2>3 DEF Weighs
  <2>5. PagesOf(d, m) = Total(s(m), DOMAIN s(m))
    BY SumIsTotal, Zenon DEF PagesOf
  <2> HIDE DEF s
  <2> QED BY <2>3, <2>4, <2>5, TotalIs DEF Upto
<1>2. PagesOf(d, 0) = 0
  <2>1. 1 .. 0 = {}
    OBVIOUS
  <2> HIDE DEF s
  <2> QED BY <1>1, <2>1, TotalEmpty DEF Upto
<1>3. \A k \in 1 .. n : s(n + 1)[k] = s(n)[k]
  OBVIOUS
<1>4. s(n + 1)[n + 1] = VerifierPages(d, n + 1)
  OBVIOUS
<1> HIDE DEF s
<1>5. Upto(s(n + 1), n + 1) = VerifierPages(d, n + 1) + Upto(s(n + 1), n)
  <2>1. n + 1 \in Nat /\ n + 1 \in 1 .. n + 1 /\ (n + 1) - 1 = n
    OBVIOUS
  <2>2. s(n + 1) \in [1 .. n + 1 -> Nat]
    BY <1>1, <2>1
  <2>3. Upto(s(n + 1), n + 1) = s(n + 1)[n + 1] + Upto(s(n + 1), (n + 1) - 1)
    BY <2>1, <2>2, UptoStep
  <2> QED BY <1>4, <2>1, <2>3
<1>6. Upto(s(n + 1), n) = Upto(s(n), n)
  <2>1. Weighs(s(n), 1 .. n)
    BY <1>1
  <2> QED BY <1>3, <2>1, TotalSame DEF Upto
<1>7. PagesOf(d, n) \in Nat /\ PagesOf(d, n) = Upto(s(n), n)
      /\ PagesOf(d, n + 1) = Upto(s(n + 1), n + 1)
  <2>1. n + 1 \in Nat
    OBVIOUS
  <2> QED BY <1>1, <2>1
<1> QED BY <1>2, <1>5, <1>6, <1>7

LEMMA TimesSum ==
  ASSUME NEW a \in Nat, NEW b \in Nat, NEW c \in Nat
  PROVE  a * c + b * c = (a + b) * c
OBVIOUS

LEMMA FirstFits ==
  ASSUME NEW d \in Nat
  PROVE  TreeFits(FirstTree(d))
<1> DEFINE t == FirstTree(d)
           p == FSVERITY_BLOCK_SIZE
<1>1. /\ p \in Nat \ {0} /\ VerifierPages(d, 0) \in Nat /\ VerifierPages(d, 1) \in Nat
      /\ VerifierPages(d, 0) = div_ceil(d, p)
      /\ VerifierPages(d, 1) = div_ceil(VerifierPages(d, 0), Arity)
  <2>1. 0 + 1 = 1 /\ 0 \in Nat /\ 1 \in Nat
    OBVIOUS
  <2>2. VerifierPages(d, 0 + 1) = div_ceil(VerifierPages(d, 0), Arity)
    BY <2>1, VerifierLevel
  <2> QED BY <2>1, <2>2, ArityType, VerifierLevel
<1>2. VerifierPages(d, 0) <= 1 <=> d <= p
  <2>1. div_ceil(d, p) <= 1 <=> d <= 1 * p
    BY <1>1, DivCeilLeast
  <2>2. 1 * p = p
    BY <1>1
  <2> QED BY <1>1, <2>1, <2>2
<1>3. PagesOf(d, 0) = 0 /\ PagesOf(d, 1) = VerifierPages(d, 1)
  <2>1. 0 + 1 = 1 /\ 0 \in Nat
    OBVIOUS
  <2>2. PagesOf(d, 0) = 0 /\ PagesOf(d, 0 + 1) = VerifierPages(d, 0 + 1) + PagesOf(d, 0)
    BY <2>1, PagesOfLevels
  <2> QED BY <1>1, <2>1, <2>2
<1>4. CASE d <= p
  <2>1. t.data_len = d /\ t.levels = <<>> /\ t.size = 0 /\ Len(t.levels) = 0
    BY <1>4 DEF FirstTree
  <2>2. 0 = 0 * p /\ (\A k \in 1 .. 0 : FALSE) /\ (\A k \in 0 .. 0 - 1 : FALSE)
    BY <1>1
  <2>3. VerifierPages(d, 0) <= 1
    BY <1>2, <1>4
  <2> HIDE DEF t
  <2>4. \A k \in 1 .. Len(t.levels) : FALSE
    BY <2>1, <2>2
  <2>5. \A k \in 0 .. Len(t.levels) - 1 : FALSE
    BY <2>1, <2>2
  <2>6. t.size = PagesOf(t.data_len, Len(t.levels)) * p
    BY <1>3, <2>1, <2>2
  <2>7. TreeFits(t)
    BY <2>1, <2>3, <2>4, <2>5, <2>6 DEF TreeFits
  <2> QED BY <2>7 DEF t
<1>5. CASE ~(d <= p)
  <2>1. /\ t.data_len = d /\ t.levels = <<LevelSize(d)>> /\ t.size = LevelSize(d)
        /\ Len(t.levels) = 1 /\ t.levels[1] = LevelSize(d) /\ t.levels # <<>>
    BY <1>5 DEF FirstTree
  <2>2. LevelSize(d) = VerifierPages(d, 1) * p
    BY <1>1, LevelPages
  <2>3. VerifierPages(d, 0) > 1
    BY <1>1, <1>2, <1>5
  <2>4. (\A k \in 1 .. 1 : k = 1) /\ (\A k \in 0 .. 1 - 1 : k = 0)
    OBVIOUS
  <2> HIDE DEF t
  <2>5. ASSUME NEW k \in 1 .. Len(t.levels)
        PROVE  t.levels[k] = VerifierPages(t.data_len, k) * p
    <3>1. k = 1
      BY <2>1, <2>4
    <3> QED BY <2>1, <2>2, <3>1
  <2>6. ASSUME NEW k \in 0 .. Len(t.levels) - 1 PROVE VerifierPages(t.data_len, k) > 1
    <3>1. k = 0
      BY <2>1, <2>4
    <3> QED BY <2>1, <2>3, <3>1
  <2>7. t.size = PagesOf(t.data_len, Len(t.levels)) * p
    BY <1>3, <2>1, <2>2
  <2>8. TreeFits(t)
    BY <2>1, <2>5, <2>6, <2>7 DEF TreeFits
  <2> QED BY <2>8 DEF t
<1> QED BY <1>4, <1>5

\* The next level is the one that is expected.
LEMMA LevelFits ==
  ASSUME NEW t \in Tree, TreeFits(t), ~TreeDone(t),
         NEW u, u = [data_len |-> t.data_len,
                     levels |-> Append(t.levels, LevelSize(TopLevel(t))),
                     size |-> t.size + LevelSize(TopLevel(t))]
  PROVE  TreeFits(u)
<1> DEFINE d == t.data_len
           n == Len(t.levels)
           p == FSVERITY_BLOCK_SIZE
           level == LevelSize(TopLevel(t))
<1>1. /\ d \in Nat /\ t.levels \in Seq(Nat \ {0}) /\ n \in Nat /\ p \in Nat \ {0}
      /\ n \in 1 .. n /\ t.levels[n] > p /\ t.levels[n] \in Nat
  <2>1. t.levels \in Seq(Nat \ {0}) /\ d \in Nat /\ t.levels # <<>> /\ ~(TopLevel(t) <= p)
    BY DEF Tree, TreeDone
  <2>2. n \in Nat /\ n \in 1 .. n
    BY <2>1
  <2>3. t.levels[n] \in Nat
    BY <2>1, <2>2
  <2>4. p \in Nat \ {0}
    BY ArityType
  <2> QED BY <2>1, <2>2, <2>3, <2>4 DEF TopLevel
<1>2. /\ t.levels[n] = VerifierPages(d, n) * p
      /\ t.size = PagesOf(d, n) * p
      /\ \A k \in 1 .. n : t.levels[k] = VerifierPages(d, k) * p
      /\ \A k \in 0 .. n - 1 : VerifierPages(d, k) > 1
  BY <1>1 DEF TreeFits
<1>3. /\ VerifierPages(d, n) \in Nat /\ VerifierPages(d, n + 1) \in Nat
      /\ VerifierPages(d, n + 1) = div_ceil(VerifierPages(d, n), Arity)
  <2>1. n + 1 \in Nat
    BY <1>1
  <2> HIDE DEF d, n
  <2> QED BY <1>1, <2>1, VerifierLevel
<1>4. VerifierPages(d, n) > 1
  <2>1. 1 < VerifierPages(d, n) <=> 1 * p < VerifierPages(d, n) * p
    <3> DEFINE v == VerifierPages(d, n)
    <3>1. v \in Int /\ 1 \in Int /\ p \in Nat \ {0}
      BY <1>1, <1>3
    <3> HIDE DEF v, p
    <3>2. 1 < v <=> 1 * p < v * p
      BY <3>1, TimesOrder
    <3> QED BY <3>2 DEF v
  <2>2. 1 * p = p
    BY <1>1
  <2> QED BY <1>1, <1>2, <1>3, <2>1, <2>2
<1>5. level = VerifierPages(d, n + 1) * p
  <2>1. level = LevelSize(VerifierPages(d, n) * p)
    BY <1>2 DEF TopLevel
  <2>2. VerifierPages(d, n) * p \in Nat
    BY <1>1, <1>3, TimesNat
  <2>3. div_ceil(VerifierPages(d, n) * p, p) = VerifierPages(d, n)
    BY <1>1, <1>3, WholePages
  <2>4. LevelSize(VerifierPages(d, n) * p)
        = div_ceil(div_ceil(VerifierPages(d, n) * p, p), Arity) * p
    BY <2>2, LevelPages
  <2> QED BY <1>3, <2>1, <2>3, <2>4
<1>6. level \in Nat \ {0}
  <2>1. TopLevel(t) \in Nat \ {0}
    BY <1>1 DEF TopLevel
  <2> QED BY <2>1, LevelType
<1>7. PagesOf(d, n) \in Nat /\ PagesOf(d, n + 1) = VerifierPages(d, n + 1) + PagesOf(d, n)
  BY <1>1, PagesOfLevels
<1> HIDE DEF level
<1>8. /\ u.data_len = d /\ u.levels = Append(t.levels, level) /\ u.size = t.size + level
  BY DEF level
<1>9. /\ Len(u.levels) = n + 1 /\ u.levels[n + 1] = level /\ u.levels # <<>>
      /\ \A k \in 1 .. n : u.levels[k] = t.levels[k]
  BY <1>1, <1>6, <1>8, SMTT(30)
<1>10. u.size = PagesOf(d, n + 1) * p
  <2> DEFINE a == PagesOf(d, n)
             b == VerifierPages(d, n + 1)
  <2>1. u.size = a * p + b * p /\ PagesOf(d, n + 1) = b + a
    BY <1>2, <1>5, <1>7, <1>8
  <2>2. a \in Nat /\ b \in Nat /\ p \in Nat
    BY <1>1, <1>3, <1>7
  <2> HIDE DEF a, b, p
  <2>3. a * p + b * p = (a + b) * p /\ a + b = b + a
    BY <2>2, TimesSum
  <2> QED BY <2>1, <2>3
<1> HIDE DEF d, n, p
<1>11. /\ \A k \in 1 .. n + 1 : k \in 1 .. n \/ k = n + 1
       /\ \A k \in 0 .. (n + 1) - 1 : k \in 0 .. n - 1 \/ k = n
  BY <1>1
<1>12. \A k \in 1 .. n + 1 : u.levels[k] = VerifierPages(d, k) * p
  BY <1>2, <1>5, <1>9, <1>11
<1>13. \A k \in 0 .. (n + 1) - 1 : VerifierPages(d, k) > 1
  BY <1>2, <1>4, <1>11
<1> QED BY <1>8, <1>9, <1>10, <1>12, <1>13 DEF TreeFits, p

\* Only the last tree is grown, and the next is begun when it is done.
LEMMA TreesGrow ==
  ASSUME TypeInv, TreesInv, AddLevel \/ FinishTree
  PROVE  TreesInv'
<1> DEFINE n == Len(code.trees)
<1>1. /\ pc = "tree" /\ code \in Code /\ code.trees \in Seq(Tree)
      /\ code.natives \in Seq(Entry) /\ n \in Nat /\ n \in 1 .. n /\ tree \in Tree
      /\ tree = code.trees[n]
  <2>1. pc = "tree"
    BY DEF AddLevel, FinishTree
  <2>2. code.trees # <<>> /\ code \in Code
    BY <2>1 DEF TypeInv, TypeOK, TreesMade
  <2>3. code.trees \in Seq(Tree) /\ code.natives \in Seq(Entry)
    BY <2>2 DEF Code
  <2> QED BY <2>1, <2>2, <2>3 DEF tree
<1>2. /\ \A i \in 1 .. n : TreeFits(code.trees[i])
      /\ \A i \in 1 .. n : i < n => TreeDone(code.trees[i])
  BY <1>1 DEF TreesInv
<1>3. CASE AddLevel
  <2> DEFINE level == LevelSize(TopLevel(tree))
             new == [data_len |-> tree.data_len, levels |-> Append(tree.levels, level),
                     size |-> tree.size + level]
  <2>1. code' = [code EXCEPT !.trees[Len(code.trees)] = new] /\ UNCHANGED pc
    BY <1>3 DEF AddLevel
  <2>2. TreeFits(new)
    <3>1. ~TreeDone(tree) /\ TreeFits(tree)
      BY <1>1, <1>2, <1>3 DEF AddLevel
    <3> QED BY <1>1, <3>1, LevelFits
  <2> HIDE DEF new
  <2>3. code'.trees = [code.trees EXCEPT ![n] = new] /\ pc' = "tree"
    BY <1>1, <2>1 DEF Code
  <2>4. /\ Len(code'.trees) = n /\ code'.trees[n] = new
        /\ \A i \in 1 .. n : i # n => code'.trees[i] = code.trees[i]
    BY <1>1, <2>3
  <2> HIDE DEF n
  <2>5. ASSUME NEW i \in 1 .. n
        PROVE  TreeFits(code'.trees[i]) /\ (i < n => TreeDone(code'.trees[i]))
    <3>1. CASE i = n
      BY <1>1, <2>2, <2>4, <3>1
    <3>2. CASE i # n
      BY <1>2, <2>4, <3>2
    <3> QED BY <3>1, <3>2
  <2> QED BY <2>3, <2>4, <2>5 DEF TreesInv
<1>4. CASE FinishTree
  <2>1. TreeDone(code.trees[n])
    BY <1>1, <1>4 DEF FinishTree
  <2>2. \A i \in 1 .. n : TreeDone(code.trees[i])
    BY <1>1, <1>2, <2>1
  <2>3. CASE n <= Len(code.natives)
    <3> DEFINE size == code.natives[n].size
               new == FirstTree(size)
    <3>1. pc' = "tree" /\ code'.trees = Append(code.trees, new)
      BY <1>1, <1>4, <2>3 DEF FinishTree, Code
    <3>2. size \in Nat
      <4>1. n \in 1 .. Len(code.natives)
        BY <1>1, <2>3
      <4>2. code.natives[n] \in Entry
        BY <1>1, <4>1
      <4> QED BY <4>2 DEF Entry
    <3> HIDE DEF size
    <3>3. TreeFits(new) /\ new \in Tree
      BY <3>2, FirstFits, FirstTreeType
    <3> HIDE DEF new
    <3>4. /\ Len(code'.trees) = n + 1 /\ code'.trees[n + 1] = new
          /\ \A i \in 1 .. n : code'.trees[i] = code.trees[i]
      BY <1>1, <3>1, <3>3
    <3> HIDE DEF n
    <3>5. ASSUME NEW i \in 1 .. n + 1
          PROVE  TreeFits(code'.trees[i]) /\ (i < n + 1 => TreeDone(code'.trees[i]))
      <4>1. CASE i = n + 1
        BY <1>1, <3>3, <3>4, <4>1
      <4>2. CASE i # n + 1
        <5>1. i \in 1 .. n
          BY <1>1, <4>2
        <5> QED BY <1>2, <2>2, <3>4, <5>1
      <4> QED BY <4>1, <4>2
    <3> QED BY <3>1, <3>4, <3>5 DEF TreesInv
  <2>4. CASE ~(n <= Len(code.natives))
    <3>1. UNCHANGED code.trees
      BY <1>1, <1>4, <2>4 DEF FinishTree, Code
    <3> QED BY <1>2, <2>2, <3>1 DEF TreesInv
  <2> QED BY <2>3, <2>4
<1> QED BY <1>3, <1>4

LEMMA TreesStep == TypeInv /\ TreesInv /\ [Next]_vars => TreesInv'
<1> SUFFICES ASSUME TypeInv, TreesInv, [Next]_vars PROVE TreesInv'
  OBVIOUS
<1>1. CASE UNCHANGED vars
  BY <1>1 DEF vars, TreesInv
<1>2. CASE PlaceTree
  <2> DEFINE new == FirstTree(code.data_size)
  <2>1. code \in Code
    BY DEF TypeInv, TypeOK
  <2>2. code.data_size \in Nat
    BY <2>1 DEF Code
  <2>3. code'.trees = <<new>> /\ pc' = "tree"
    BY <1>2, <2>1 DEF PlaceTree, Code
  <2>4. TreeFits(new)
    BY <2>2, FirstFits
  <2> HIDE DEF new
  <2>5. Len(code'.trees) = 1 /\ code'.trees[1] = new /\ \A i \in 1 .. 1 : i = 1 /\ ~(i < 1)
    BY <2>3
  <2> QED BY <2>3, <2>4, <2>5 DEF TreesInv
<1>3. CASE AddLevel \/ FinishTree
  BY <1>3, TreesGrow
<1>4. CASE Next /\ ~PlaceTree /\ ~AddLevel /\ ~FinishTree /\ ~UNCHANGED vars
  <2>1. pc' \notin {"tree", "property"}
    <3>1. CASE Unreadable \/ EntriesRefused \/ CopyFails \/ OwnerMissing
               \/ PropertyTooLarge \/ RowTooLarge \/ OutputTooLarge
      BY <3>1 DEF Unreadable, EntriesRefused, CopyFails, OwnerMissing, PropertyTooLarge,
                  RowTooLarge, OutputTooLarge, Refuse
    <3>2. CASE ParseInput \/ WriteEntry \/ FinishArchive \/ ParseAgain \/ KeepBlock
               \/ AddProfile
      BY <3>2 DEF ParseInput, WriteEntry, FinishArchive, ParseAgain, KeepBlock, AddProfile
    <3>3. CASE CollectInputs \/ CollectEntry
      BY <3>3 DEF CollectInputs, CollectEntry, Refuse
    <3>4. CASE InsertProperty \/ DigestContent \/ EncodeRow \/ EndTable \/ EncodeValue
               \/ WriteOutput \/ SignAgain
      BY <3>4 DEF InsertProperty, DigestContent, EncodeRow, EndTable, EncodeValue,
                  WriteOutput, SignAgain
    <3> QED BY <1>4, <3>1, <3>2, <3>3, <3>4 DEF Next, Rest
  <2> QED BY <2>1 DEF TreesInv
<1> QED BY <1>1, <1>2, <1>3, <1>4

\* A product, divided by one of its factors.
LEMMA WholeDiv ==
  ASSUME NEW n \in Nat, NEW a \in Nat \ {0}
  PROVE  (n * a) \div a = n
<1> DEFINE b == n * a
           q == b \div a
<1>1. b \in Nat
  BY TimesNat
<1>2. b = a * q + (b % a) /\ q \in Nat
  BY <1>1, Division
<1>3. b % a = 0
  BY Multiple
<1> HIDE DEF q
<1>4. b = q * a
  <2>1. a * q = q * a
    BY <1>2, TimesNat
  <2> HIDE DEF b
  <2> QED BY <1>2, <1>3, <2>1
<1>5. n * a <= q * a /\ q * a <= n * a
  BY <1>1, <1>4
<1>6. n <= q /\ q <= n
  BY <1>2, <1>5, TimesOrder
<1>7. q = n
  BY <1>2, <1>6
<1> QED BY <1>7 DEF q

\* A tree that is done has the levels that are expected, where they are expected.
LEMMA TreeIsFound ==
  ASSUME NEW t \in Tree, TreeFits(t), TreeDone(t)
  PROVE  VerifierFinds(t)
<1> DEFINE d == t.data_len
           n == Len(t.levels)
           p == FSVERITY_BLOCK_SIZE
           V(k) == VerifierPages(d, k)
           PageAt(k, i) == <<k, i>>
           level(k) == [i \in 1 .. t.levels[k] \div p |-> PageAt(k, i)]
           lower == [k \in DOMAIN t.levels |-> level(k)]
           ss == Reverse(lower)
<1>1. /\ d \in Nat /\ t.levels \in Seq(Nat \ {0}) /\ n \in Nat /\ p \in Nat \ {0}
      /\ DOMAIN t.levels = 1 .. n
  BY ArityType DEF Tree
<1>2. /\ \A k \in 1 .. n : t.levels[k] = V(k) * p
      /\ \A k \in 0 .. n - 1 : V(k) > 1
      /\ t.levels = <<>> => V(0) <= 1
      /\ t.size = PagesOf(d, n) * p
  BY DEF TreeFits
<1>3. \A k \in Nat : V(k) \in Nat
  BY <1>1, VerifierLevel
<1>4. tree_pages(t) = FlattenSeq(ss)
  BY Zenon DEF tree_pages
<1> HIDE DEF V
<1>5. \A k \in 1 .. n : t.levels[k] \div p = V(k)
  <2>1. \A k \in 1 .. n : k \in Nat
    BY <1>1
  <2> HIDE DEF n, p
  <2> QED BY <1>1, <1>2, <1>3, <2>1, WholeDiv
<1>6. V(n) <= 1
  <2>1. CASE n = 0
    <3>1. t.levels = <<>>
      BY <1>1, <2>1
    <3> QED BY <1>2, <2>1, <3>1
  <2>2. CASE n # 0
    <3>1. n \in 1 .. n /\ t.levels # <<>>
      BY <1>1, <2>2
    <3>2. V(n) * p <= p
      BY <1>2, <3>1 DEF TreeDone, TopLevel
    <3>3. V(n) \in Int /\ 1 \in Int /\ 1 * p = p
      BY <1>1, <1>3
    <3> HIDE DEF p
    <3>4. V(n) <= 1 <=> V(n) * p <= 1 * p
      BY <1>1, <3>3, TimesOrder
    <3> QED BY <3>2, <3>3, <3>4
  <2> QED BY <2>1, <2>2
<1> DEFINE S == Nat \X Nat
<1>7. \A k \in 1 .. n : level(k) = [i \in 1 .. V(k) |-> PageAt(k, i)]
  BY <1>5
<1>8. ASSUME NEW k \in 1 .. n
      PROVE  level(k) \in Seq(S) /\ Len(level(k)) = V(k)
             /\ \A i \in 1 .. V(k) : level(k)[i] = PageAt(k, i)
  <2> DEFINE m == V(k)
             row == [i \in 1 .. m |-> PageAt(k, i)]
  <2>1. m \in Nat /\ k \in Nat
    BY <1>1, <1>3
  <2> HIDE DEF m
  <2>2. \A i \in 1 .. m : PageAt(k, i) \in S
    BY <2>1
  <2> HIDE DEF PageAt, S
  <2>3. row \in Seq(S) /\ Len(row) = m /\ \A i \in 1 .. m : row[i] = PageAt(k, i)
    BY <2>1, <2>2
  <2>4. level(k) = row
    BY <1>7 DEF m
  <2> HIDE DEF row, level
  <2> QED BY <2>3, <2>4 DEF m
<1> HIDE DEF level, S
<1>9. /\ ss \in Seq(Seq(S)) /\ Len(ss) = n
      /\ \A r \in 1 .. n : ss[r] = level(n + 1 - r)
  <2>1. lower \in Seq(Seq(S)) /\ Len(lower) = n /\ \A k \in 1 .. n : lower[k] = level(k)
    BY <1>1, <1>8
  <2> HIDE DEF lower, n
  <2>2. ss = [r \in 1 .. n |-> lower[(n - r) + 1]]
    BY <2>1 DEF Reverse
  <2>3. \A r \in 1 .. n : (n - r) + 1 \in 1 .. n /\ (n - r) + 1 = n + 1 - r
    BY <1>1
  <2> HIDE DEF ss
  <2>4. \A r \in 1 .. n : ss[r] = level(n + 1 - r) /\ ss[r] \in Seq(S)
    BY <1>8, <2>1, <2>2, <2>3
  <2> QED BY <1>1, <2>2, <2>4
<1> HIDE DEF ss, lower
\* `m` levels from the top have the pages that are skipped below them.
<1> DEFINE rev == Lengths(ss)
           skip(m) == [j \in 1 .. m |-> V((n - m) + j)]
<1>10. /\ rev \in [1 .. n -> Nat]
       /\ \A r \in 1 .. n : rev[r] = V(n + 1 - r)
  <2>1. \A r \in 1 .. n : n + 1 - r \in 1 .. n /\ n + 1 - r \in Nat
    BY <1>1
  <2>2. \A r \in 1 .. n : Len(ss[r]) = V(n + 1 - r)
    BY <1>8, <1>9, <2>1
  <2> HIDE DEF n
  <2> QED BY <1>3, <1>9, <2>1, <2>2 DEF Lengths
<1> HIDE DEF rev
<1>11. ASSUME NEW m \in 0 .. n
       PROVE  Upto(rev, m) = FoldSeq(+, 0, skip(m)) /\ Upto(rev, m) \in Nat
  <2> DEFINE w == skip(m)
  <2>1. m \in Nat /\ \A j \in 1 .. m : (n - m) + j \in Nat
    BY <1>1
  <2>2. w \in [1 .. m -> Nat] /\ DOMAIN w = 1 .. m
    BY <1>3, <2>1
  <2>3. ASSUME NEW j \in 1 .. m PROVE w[m + 1 - j] = rev[j]
    <3>1. m + 1 - j \in 1 .. m /\ (n - m) + (m + 1 - j) = n + 1 - j /\ j \in 1 .. n
      <4>1. n \in Nat /\ m \in Nat /\ j \in Nat /\ m <= n /\ j <= m /\ 1 <= j
        BY <1>1, <2>1
      <4> HIDE DEF n
      <4> QED BY <4>1
    <3> QED BY <1>10, <3>1
  <2>4. FoldSeq(+, 0, w) = Total(w, DOMAIN w)
    BY SumIsTotal, Zenon
  <2> DEFINE back == [j \in 1 .. m |-> w[m + 1 - j]]
  <2> HIDE DEF w
  <2>5. Total(w, 1 .. m) = Total(back, 1 .. m)
    BY <2>1, <2>2, TotalReverse
  <2>6. Weighs(rev, 1 .. m)
    <3>1. IsFiniteSet(1 .. m)
      BY FS_Interval
    <3>2. \A j \in 1 .. m : j \in 1 .. n
      BY <1>1
    <3> QED BY <1>10, <3>1, <3>2 DEF Weighs
  <2>7. \A j \in 1 .. m : back[j] = rev[j]
    BY <2>3
  <2> HIDE DEF back
  <2>8. Total(back, 1 .. m) = Total(rev, 1 .. m) /\ Total(rev, 1 .. m) \in Nat
    BY <2>6, <2>7, TotalSame, TotalIs
  <2> QED BY <2>2, <2>4, <2>5, <2>8 DEF Upto, w
<1>12. Upto(rev, n) = PagesOf(d, n)
  <2>1. n \in 0 .. n /\ \A j \in 1 .. n : (n - n) + j = j
    BY <1>1
  <2>2. skip(n) = [j \in 1 .. n |-> VerifierPages(d, j)]
    BY <2>1 DEF V
  <2> HIDE DEF skip, n, d
  <2> QED BY <1>11, <2>1, <2>2 DEF PagesOf
<1>13. /\ Len(FlattenSeq(ss)) = Upto(rev, n)
       /\ \A k \in 1 .. n : \A i \in 1 .. V(k) :
            FlattenSeq(ss)[Upto(rev, n - k) + i] = <<k, i>>
  <2>1. CASE n = 0
    <3>1. ss = <<>> /\ 1 .. n = {}
      BY <1>9, <2>1
    <3>2. FlattenSeq(<<>>) = <<>>
      BY FlattenEmpty
    <3>3. Upto(rev, n) = 0
      BY <3>1, TotalEmpty DEF Upto
    <3> QED BY <2>1, <3>1, <3>2, <3>3
  <2>2. CASE n # 0
    <3> HIDE DEF n
    <3>1. Len(ss) > 0
      BY <1>1, <1>9, <2>2
    <3>2. /\ Len(FlattenSeq(ss)) = Upto(Lengths(ss), Len(ss))
          /\ \A r \in 1 .. Len(ss) : \A i \in 1 .. Len(ss[r]) :
               FlattenSeq(ss)[Upto(Lengths(ss), r - 1) + i] = ss[r][i]
      BY <1>9, <3>1, FlattenContents
    <3>3. ASSUME NEW k \in 1 .. n, NEW i \in 1 .. V(k)
          PROVE  FlattenSeq(ss)[Upto(rev, n - k) + i] = <<k, i>>
      <4> DEFINE r == n + 1 - k
      <4>1. r \in 1 .. n /\ n + 1 - r = k /\ r - 1 = n - k
        BY <1>1
      <4> HIDE DEF r
      <4>2. ss[r] = level(k) /\ Len(ss[r]) = V(k)
        BY <1>8, <1>9, <4>1
      <4>3. FlattenSeq(ss)[Upto(Lengths(ss), r - 1) + i] = ss[r][i]
        BY <1>9, <3>2, <4>1, <4>2
      <4>4. level(k)[i] = <<k, i>>
        BY <1>8
      <4> QED BY <4>1, <4>2, <4>3, <4>4 DEF rev
    <3> QED BY <1>9, <3>2, <3>3 DEF rev
  <2> QED BY <2>1, <2>2
<1> DEFINE start(k) == FoldSeq(+, 0, [j \in 1 .. n - k |-> V(k + j)])
<1>14. ASSUME NEW k \in 1 .. n PROVE start(k) = Upto(rev, n - k)
  <2>1. n - k \in 0 .. n /\ n - (n - k) = k
    BY <1>1
  <2>2. skip(n - k) = [j \in 1 .. n - k |-> V(k + j)]
    BY <2>1
  <2>3. Upto(rev, n - k) = FoldSeq(+, 0, skip(n - k))
    BY <1>11, <2>1
  <2> HIDE DEF skip
  <2> QED BY <2>2, <2>3
<1>15. \A k \in 1 .. n : \A i \in 1 .. V(k) : tree_pages(t)[start(k) + i] = <<k, i>>
  <2> HIDE DEF start, n
  <2> QED BY <1>4, <1>13, <1>14
<1>16. Len(tree_pages(t)) * p = t.size
  BY <1>2, <1>4, <1>12, <1>13
<1>17. VerifierFinds(t)
       <=> /\ V(n) <= 1
           /\ \A k \in 0 .. n - 1 : V(k) > 1
           /\ Len(tree_pages(t)) * p = t.size
           /\ \A k \in 1 .. n : \A i \in 1 .. V(k) : tree_pages(t)[start(k) + i] = <<k, i>>
  BY Zenon DEF VerifierFinds, V
<1> HIDE DEF n, p, start
<1> QED BY <1>2, <1>6, <1>15, <1>16, <1>17

\* The Merkle trees of any file are those that fs-verity expects: from any size of the
\* data, of a page and of a digest, the loop of generate_merkle_tree comes to as many
\* levels of as many pages as the verifier counts, and has them in the order in which
\* the verifier looks for them, the top one first (code_sign.rs:93-144).
THEOREM TreesAreFound == Spec => []TreesVerify
<1>1. TypeInv /\ TreesInv => TreesVerify
  <2> SUFFICES ASSUME TypeInv, TreesInv, pc = "property", NEW i \in DOMAIN code.trees
               PROVE  VerifierFinds(code.trees[i])
    BY DEF TreesVerify
  <2>1. code.trees \in Seq(Tree)
    BY DEF TypeInv, TypeOK, Code
  <2>2. i \in 1 .. Len(code.trees) /\ code.trees[i] \in Tree
    BY <2>1
  <2> QED BY <2>2, TreeIsFound DEF TreesInv
<1> QED BY <1>1, InitType, TypeStep, InitTrees, TreesStep, PTL DEF Spec
-----------------------------------------------------------------------------
(* Signing ends.  What is left of it: stages, then turns of this stage's loop,  *)
(* then, while a tree is made, the size of its top level.                       *)
StageLeft ==
  CASE pc = "parse" -> 11 [] pc = "align" -> 10 [] pc = "place" -> 9 [] pc = "keep" -> 8
    [] pc = "collect" -> 7 [] pc = "entries" -> 6 [] pc = "tree" -> 5 [] pc = "property" -> 4
    [] pc = "digest" -> 3 [] pc = "rows" -> 2 [] pc = "values" -> 1 [] OTHER -> 0

TurnsLeft ==
  CASE pc = "align"   -> Cardinality(left)
    [] pc = "keep"    -> Len(Rows(file)) + 1 - index
    [] pc = "entries" -> Len(file.entries) + 1 - index
    [] pc = "tree"    -> Len(code.natives) + 1 - Len(code.trees)
    [] pc = "rows"    -> Len(blocks) - Len(rows)
    [] pc = "values"  -> Len(blocks) - Len(values)
    [] OTHER -> 0

LevelLeft == IF pc = "tree" /\ ~TreeDone(tree) THEN TopLevel(tree) ELSE 0

SigningNearer ==
  \/ StageLeft' \in 0 .. StageLeft - 1
  \/ StageLeft' = StageLeft /\ TurnsLeft' \in 0 .. TurnsLeft - 1
  \/ /\ StageLeft' = StageLeft /\ TurnsLeft' = TurnsLeft
     /\ LevelLeft' \in 0 .. LevelLeft - 1

\* The stages follow one another, and every refusal is the last one.
LEMMA StageNearer ==
  ASSUME \/ Unreadable \/ EntriesRefused \/ CopyFails \/ OwnerMissing
         \/ PropertyTooLarge \/ RowTooLarge \/ OutputTooLarge
         \/ ParseInput \/ FinishArchive \/ ParseAgain \/ AddProfile \/ CollectInputs
         \/ PlaceTree \/ InsertProperty \/ DigestContent \/ EndTable \/ WriteOutput
  PROVE  StageLeft' \in 0 .. StageLeft - 1
<1>1. CASE \/ Unreadable \/ EntriesRefused \/ CopyFails \/ OwnerMissing
           \/ PropertyTooLarge \/ RowTooLarge \/ OutputTooLarge
  <2>1. pc' = "refused" /\ pc \in Stages \ {"done", "refused"}
    BY <1>1 DEF Unreadable, EntriesRefused, CopyFails, OwnerMissing, PropertyTooLarge,
                RowTooLarge, OutputTooLarge, Refuse, Stages
  <2> QED BY <2>1 DEF StageLeft, Stages
<1>2. CASE ParseInput \/ FinishArchive \/ ParseAgain \/ AddProfile \/ CollectInputs
  <2>1. \/ pc = "parse" /\ pc' \in {"align", "place"}
        \/ pc = "align" /\ pc' = "place"
        \/ pc = "place" /\ pc' = "keep"
        \/ pc = "keep" /\ pc' \in {"collect", "digest"}
        \/ pc = "collect" /\ pc' \in {"entries", "refused"}
    BY <1>2 DEF ParseInput, FinishArchive, ParseAgain, AddProfile, CollectInputs, Refuse
  <2> QED BY <2>1 DEF StageLeft
<1>3. CASE PlaceTree \/ InsertProperty \/ DigestContent \/ EndTable \/ WriteOutput
  <2>1. \/ pc = "entries" /\ pc' = "tree"
        \/ pc = "property" /\ pc' = "digest"
        \/ pc = "digest" /\ pc' = "rows"
        \/ pc = "rows" /\ pc' = "values"
        \/ pc = "values" /\ pc' = "done"
    BY <1>3 DEF PlaceTree, InsertProperty, DigestContent, EndTable, WriteOutput
  <2> QED BY <2>1 DEF StageLeft
<1> QED BY <1>1, <1>2, <1>3

\* A turn of the loop over the entries that are written again.
LEMMA WriteNearer ==
  ASSUME AcceptInv, WriteEntry
  PROVE  SigningNearer
<1>1. pc = "align" /\ pc' = "align" /\ IsFiniteSet(left)
  BY DEF WriteEntry, AcceptInv
<1>2. PICK e \in left : left' = left \ {e}
  BY DEF WriteEntry
<1>3. Cardinality(left') = Cardinality(left) - 1 /\ IsFiniteSet(left')
  BY <1>1, <1>2, FS_RemoveElement
<1>4. Cardinality(left) \in Nat /\ Cardinality(left') \in Nat
  BY <1>1, <1>3, FS_CardinalityType
<1>5. StageLeft' = StageLeft
  BY <1>1 DEF StageLeft
<1>6. TurnsLeft' \in 0 .. TurnsLeft - 1
  BY <1>1, <1>3, <1>4 DEF TurnsLeft
<1> QED BY <1>5, <1>6 DEF SigningNearer

\* A turn of the loops over the rows and the entries that are read, and over the rows
\* and the values that are written.
LEMMA TurnNearer ==
  ASSUME TypeInv, KeepBlock \/ CollectEntry \/ EncodeRow \/ EncodeValue
  PROVE  SigningNearer
<1> USE DEF TypeInv, TypeOK
<1>1. Rows(file) \in Seq(Row) /\ file.entries \in Seq(Entry)
  BY FileFacts
<1>2. CASE KeepBlock
  <2>1. /\ pc = "keep" /\ pc' = "keep" /\ index <= Len(Rows(file))
        /\ index' = index + 1 /\ Rows(file)' = Rows(file)
    BY <1>2 DEF KeepBlock, zip, Rows, HasSigningBlock
  <2>2. StageLeft' = StageLeft
    BY <2>1 DEF StageLeft
  <2>3. TurnsLeft' \in 0 .. TurnsLeft - 1
    BY <1>1, <2>1, SMTT(30) DEF TurnsLeft
  <2> QED BY <2>2, <2>3 DEF SigningNearer
<1>3. CASE CollectEntry
  <2>1. CASE pc' = "refused"
    <3>1. pc = "entries"
      BY <1>3 DEF CollectEntry
    <3>2. StageLeft' \in 0 .. StageLeft - 1
      BY <2>1, <3>1 DEF StageLeft
    <3> QED BY <3>2 DEF SigningNearer
  <2>2. CASE pc' # "refused"
    <3>1. /\ pc = "entries" /\ pc' = "entries" /\ index <= Len(file.entries)
          /\ index' = index + 1 /\ file' = file
      BY <1>3, <2>2 DEF CollectEntry, Refuse, zip
    <3>2. StageLeft' = StageLeft
      BY <3>1 DEF StageLeft
    <3>3. TurnsLeft' \in 0 .. TurnsLeft - 1
      BY <1>1, <3>1, SMTT(30) DEF TurnsLeft
    <3> QED BY <3>2, <3>3 DEF SigningNearer
  <2> QED BY <2>1, <2>2
<1>4. CASE EncodeRow
  <2>1. /\ pc = "rows" /\ pc' = "rows" /\ Len(rows) < Len(blocks)
        /\ Len(rows') = Len(rows) + 1 /\ blocks' = blocks
    BY <1>4 DEF EncodeRow
  <2>2. StageLeft' = StageLeft
    BY <2>1 DEF StageLeft
  <2>3. TurnsLeft' \in 0 .. TurnsLeft - 1
    BY <2>1 DEF TurnsLeft
  <2> QED BY <2>2, <2>3 DEF SigningNearer
<1>5. CASE EncodeValue
  <2>1. /\ pc = "values" /\ pc' = "values" /\ Len(values) < Len(blocks)
        /\ Len(values') = Len(values) + 1 /\ blocks' = blocks
    BY <1>5 DEF EncodeValue
  <2>2. StageLeft' = StageLeft
    BY <2>1 DEF StageLeft
  <2>3. TurnsLeft' \in 0 .. TurnsLeft - 1
    BY <2>1 DEF TurnsLeft
  <2> QED BY <2>2, <2>3 DEF SigningNearer
<1> QED BY <1>2, <1>3, <1>4, <1>5

\* A level is smaller than the one below it, and then there is one tree less to make.
LEMMA LevelNearer ==
  ASSUME TypeInv, AddLevel \/ FinishTree
  PROVE  SigningNearer
<1> DEFINE n == Len(code.trees)
<1>1. /\ pc = "tree" /\ code \in Code /\ code.trees \in Seq(Tree)
      /\ code.natives \in Seq(Entry) /\ n \in Nat /\ n \in 1 .. n
      /\ tree \in Tree /\ tree = code.trees[n]
  <2>1. pc = "tree"
    BY DEF AddLevel, FinishTree
  <2>2. code.trees # <<>> /\ code \in Code
    BY <2>1 DEF TypeInv, TypeOK, TreesMade
  <2>3. code.trees \in Seq(Tree) /\ code.natives \in Seq(Entry)
    BY <2>2 DEF Code
  <2> QED BY <2>1, <2>2, <2>3 DEF tree
<1>2. CASE AddLevel
  <2> DEFINE top == TopLevel(tree)
             level == LevelSize(top)
             new == [data_len |-> tree.data_len, levels |-> Append(tree.levels, level),
                     size |-> tree.size + level]
  <2>1. code' = [code EXCEPT !.trees[Len(code.trees)] = new] /\ pc' = "tree"
    BY <1>1, <1>2 DEF AddLevel
  <2>2. /\ ~TreeDone(tree) /\ tree.levels \in Seq(Nat \ {0})
        /\ top \in Nat /\ top > FSVERITY_BLOCK_SIZE
    <3>1. ~TreeDone(tree) /\ tree.levels \in Seq(Nat \ {0})
      BY <1>1, <1>2 DEF AddLevel, Tree
    <3>2. tree.levels # <<>> /\ ~(TopLevel(tree) <= FSVERITY_BLOCK_SIZE)
      BY <3>1 DEF TreeDone
    <3>3. TopLevel(tree) \in Nat
      BY <3>1, <3>2 DEF TopLevel
    <3> QED BY <3>1, <3>2, <3>3, PageAssumption
  <2>3. level \in Nat /\ level < top
    <3>1. top \in Nat \ {0}
      BY <2>2, PageAssumption
    <3> HIDE DEF top
    <3> QED BY <2>2, <3>1, LevelType, LevelsShrink
  <2> HIDE DEF level
  <2>4. TopLevel(new) = level
    BY <2>2, <2>3 DEF TopLevel
  <2> HIDE DEF new
  <2>5. /\ code'.trees = [code.trees EXCEPT ![n] = new] /\ code'.natives = code.natives
    BY <1>1, <2>1 DEF Code
  <2>6. Len(code'.trees) = n /\ tree' = new
    BY <1>1, <2>5 DEF tree
  <2> HIDE DEF top
  <2>7. LevelLeft = top
    BY <1>1, <2>2 DEF LevelLeft, top
  <2>8. LevelLeft' \in {0, level}
    BY <2>1, <2>4, <2>6 DEF LevelLeft, TreeDone, TopLevel
  <2>9. StageLeft' = StageLeft
    BY <1>1, <2>1 DEF StageLeft
  <2>10. TurnsLeft' = TurnsLeft
    BY <1>1, <2>1, <2>5, <2>6 DEF TurnsLeft
  <2>11. LevelLeft' \in 0 .. LevelLeft - 1
    BY <2>2, <2>3, <2>7, <2>8, PageAssumption
  <2> QED BY <2>9, <2>10, <2>11 DEF SigningNearer
<1>3. CASE FinishTree
  <2>1. CASE n <= Len(code.natives)
    <3> DEFINE next == FirstTree(code.natives[n].size)
    <3>1. /\ pc' = "tree" /\ code'.trees = Append(code.trees, next)
          /\ code'.natives = code.natives
      BY <1>1, <1>3, <2>1 DEF FinishTree, Code
    <3>2. Len(code'.trees) = n + 1 /\ Len(code.natives) \in Nat
      BY <1>1, <3>1
    <3> HIDE DEF next
    <3>3. StageLeft' = StageLeft
      BY <1>1, <3>1 DEF StageLeft
    <3> HIDE DEF n
    <3>4. TurnsLeft' = Len(code.natives) - n /\ TurnsLeft = Len(code.natives) + 1 - n
      <4>1. TurnsLeft' = Len(code'.natives) + 1 - Len(code'.trees)
        BY <3>1 DEF TurnsLeft
      <4>2. TurnsLeft = Len(code.natives) + 1 - n
        BY <1>1 DEF TurnsLeft, n
      <4> DEFINE m == Len(code.natives)
      <4>3. m \in Nat /\ n \in Nat /\ Len(code'.natives) = m
        BY <1>1, <3>1, <3>2
      <4>4. TurnsLeft' = m + 1 - (n + 1)
        BY <3>2, <4>1, <4>3
      <4> HIDE DEF m
      <4>5. TurnsLeft' = m - n
        BY <4>3, <4>4
      <4> QED BY <4>2, <4>5 DEF m
    <3>5. TurnsLeft' \in 0 .. TurnsLeft - 1
      BY <1>1, <2>1, <3>2, <3>4
    <3> QED BY <3>3, <3>5 DEF SigningNearer
  <2>2. CASE ~(n <= Len(code.natives))
    <3>1. pc' = "property"
      BY <1>3, <2>2 DEF FinishTree
    <3>2. StageLeft' \in 0 .. StageLeft - 1
      BY <1>1, <3>1 DEF StageLeft
    <3> QED BY <3>2 DEF SigningNearer
  <2> QED BY <2>1, <2>2
<1> QED BY <1>2, <1>3

\* sign_hap ends for every file and profile, with a signed file or with an error: every
\* step takes it to a later stage, or to a later turn of this stage's loop, or makes the
\* top level of the tree smaller, and none of the three can fall for ever.  Only being
\* asked again starts it anew (sign.rs:32-123, code_sign.rs:93-144, 200-258, 376-418).
THEOREM SigningEnds == Spec => [][SigningNearer \/ SignAgain]_vars
<1>1. TypeInv /\ AcceptInv /\ [Next]_vars => [SigningNearer \/ SignAgain]_vars
  <2> SUFFICES ASSUME TypeInv, AcceptInv, Next, ~UNCHANGED vars, ~SignAgain
               PROVE  SigningNearer
    OBVIOUS
  <2> QED BY StageNearer, WriteNearer, TurnNearer, LevelNearer DEF Next, Rest, SigningNearer
<1> QED BY <1>1, InitType, TypeStep, InitLayout, LayoutStep, InitPlace, PlaceStep,
           InitCover, CoverStep, InitAccept, AcceptStep, PTL DEF Spec
=============================================================================
