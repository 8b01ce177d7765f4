------------------------- MODULE FileIndexerProofs -------------------------
(***************************************************************************)
(* Proofs about FileIndexer for any paths, rotations between them, sizes   *)
(* and numbers of changes: types, and that an index which is believed to   *)
(* be that of the file on the disk is.                                     *)
(***************************************************************************)
EXTENDS FileIndexer, SequenceTheorems, TLAPS

(* Rotation leads from lower to higher ranks.                               *)
Rank == CHOOSE rank \in [Paths -> 0..Cardinality(Paths)] :
            \A r \in Rotations : rank[r[1]] < rank[r[2]]

(* The index that one reading of the first size lines of a log gives.       *)
Complete(log, size) ==
    IF size = 0 THEN << >>
    ELSE Append([i \in 1..size |-> [log |-> log, offset |-> i - 1]],
                [log |-> log, offset |-> size - 1])

-----------------------------------------------------------------------------
(* The invariant.  d is the disk, ch the number of its changes, n that of   *)
(* failures, x what the list or a copy of it says of path p.                *)

(* Path p has the file whose inode was new with it, and is i.               *)
Alive(d, i, p) == d[p] # NoFile /\ d[p].inode = i /\ ~d[p].rewritten

(* That file was at p: it can only be there or on its way of rotation.      *)
Behind(d, i, p) == \A q \in Paths : Alive(d, i, q) => Rank[q] >= Rank[p]

(* The index is of the file as it was at or after the scan of its etag.     *)
IndexedUpTo(x, f, n) ==
    \E s \in 0..f.size :
        /\ x.index_etag[1] <= s
        /\ x.time_indexes = Complete(f.log, s) \/ (n > 0 /\ x.time_indexes = << >>)

Sound(d, ch, n, p, x) ==
    x # NoInfo =>
        /\ x.inode <= ch /\ Behind(d, x.inode, p)
        /\ Alive(d, x.inode, p) =>
              /\ x.size <= d[p].size
              /\ x.file_index # NoIndex => IndexedUpTo(x.file_index, d[p], n)

AllSound(d, ch, n, l) == \A p \in Paths : Sound(d, ch, n, p, l[p])

DiskInv(d, ch) ==
    /\ \A p \in Paths : d[p] # NoFile => d[p].inode <= ch
    /\ \A p, q \in Paths :
          d[p] # NoFile /\ d[q] # NoFile /\ d[p].inode = d[q].inode => p = q

ScannerInv(d, ch, l, sc) ==
    /\ sc.pc = "insert" => /\ sc.path \in Paths /\ sc.inode \in 1..MaxChanges
                           /\ sc.inode <= ch /\ Behind(d, sc.inode, sc.path)
    /\ sc.pc = "update" => \A p \in sc.todo : l[p] # NoInfo

IInv ==
    /\ TypeOK /\ second <= changes /\ DiskInv(disk, changes)
    /\ AllSound(disk, changes, failures, list)
    /\ cache # NoCache => AllSound(disk, changes, failures, cache)
    /\ scanner.snapshot # NoCache => AllSound(disk, changes, failures, scanner.snapshot)
    /\ ScannerInv(disk, changes, list, scanner)

-----------------------------------------------------------------------------
LEMMA RankFacts ==
    /\ \A p \in Paths : Rank[p] \in Int
    /\ \A p, q \in Paths : <<p, q>> \in Rotations => Rank[p] < Rank[q]
<1>1. /\ Rank \in [Paths -> 0..Cardinality(Paths)]
      /\ \A r \in Rotations : Rank[r[1]] < Rank[r[2]]
  BY RotationAssumption DEF Rank
<1> QED BY <1>1

(* Building an index.                                                       *)
LEMMA BuildType ==
    ASSUME NEW old \in Seq(Entries), NEW f \in Files
    PROVE  Build(old, f) \in Seq(Entries)
<1> DEFINE n == Len(old)
           resumed == n > 1 /\ old[n].offset < f.size
           kept == IF resumed THEN SubSeq(old, 1, n - 1) ELSE << >>
           from == IF resumed THEN old[n].offset ELSE 0
           known == [log |-> f.log, offset |-> from] \in {kept[i] : i \in DOMAIN kept}
           first == IF known THEN from + 1 ELSE from
           rest == EntriesFrom(f, first)
           last == [log |-> f.log, offset |-> f.size - 1]
<1> SUFFICES ASSUME f.size # 0 PROVE Append(kept \o rest, last) \in Seq(Entries)
  BY DEF Build
<1>1. /\ f.size \in Nat /\ f.size >= 1 /\ f.size <= MaxSize /\ MaxSize \in Nat
      /\ f.log \in 1..MaxChanges /\ n \in Nat
  BY IndexerAssumption DEF Files
<1>2. last \in Entries
  BY <1>1 DEF Entries
<1>3. kept \in Seq(Entries)
  <2>1. CASE resumed
    <3>1. \A i \in 1..(n - 1) : old[i] \in Entries
      BY <1>1
    <3>2. 1 \in Int /\ n - 1 \in Int
      BY <1>1
    <3> HIDE DEF n
    <3>3. SubSeq(old, 1, n - 1) \in Seq(Entries)
      BY <3>1, <3>2, SubSeqProperties
    <3> QED BY <2>1, <3>3
  <2>2. CASE ~resumed
    BY <2>2
  <2> QED BY <2>1, <2>2
<1>4. from \in Nat /\ from < f.size
  <2>1. CASE resumed
    <3>1. old[n] \in Entries
      BY <1>1, <2>1
    <3>2. old[n].offset \in Nat
      BY <1>1, <3>1 DEF Entries
    <3> QED BY <2>1, <3>2
  <2>2. CASE ~resumed
    BY <1>1, <2>2
  <2> QED BY <2>1, <2>2
<1> HIDE DEF from, known, last
<1>5. first \in Nat /\ first <= f.size
  BY <1>1, <1>4
<1> HIDE DEF first, kept
<1>6. rest \in Seq(Entries)
  <2> DEFINE m == f.size - first
  <2>1. m \in Nat
    BY <1>1, <1>5
  <2>2. \A i \in 1..m : [log |-> f.log, offset |-> first + i - 1] \in Entries
    <3> SUFFICES ASSUME NEW i \in 1..m PROVE first + i - 1 \in 0..(MaxSize - 1)
      BY <1>1 DEF Entries
    <3> QED BY <1>1, <1>5
  <2>3. rest = [i \in 1..m |-> [log |-> f.log, offset |-> first + i - 1]]
    BY DEF EntriesFrom
  <2> HIDE DEF m, rest
  <2> QED BY <2>1, <2>2, <2>3
<1> HIDE DEF rest
<1>7. kept \o rest \in Seq(Entries)
  BY <1>3, <1>6, ConcatProperties
<1> QED BY <1>2, <1>7, AppendProperties

(* The entries of the first s lines.                                        *)
LEMMA FirstType ==
    ASSUME NEW f \in Files, NEW s \in 0..f.size
    PROVE  /\ [i \in 1..s |-> [log |-> f.log, offset |-> i - 1]] \in Seq(Entries)
           /\ s > 0 => [log |-> f.log, offset |-> s - 1] \in Entries
<1>1. s \in Nat /\ s <= MaxSize /\ MaxSize \in Nat /\ f.log \in 1..MaxChanges
  <2>1. f.size \in Nat /\ f.size <= MaxSize /\ MaxSize \in Nat
    BY IndexerAssumption DEF Files
  <2> QED BY <2>1 DEF Files
<1>2. \A i \in 1..s : [log |-> f.log, offset |-> i - 1] \in Entries
  <2> SUFFICES ASSUME NEW i \in 1..s PROVE i - 1 \in 0..(MaxSize - 1)
    BY <1>1 DEF Entries
  <2> QED BY <1>1
<1>3. s > 0 => s \in 1..s
  BY <1>1
<1> DEFINE e(i) == [log |-> f.log, offset |-> i - 1]
<1> HIDE DEF e
<1>4. \A i \in 1..s : e(i) \in Entries
  BY <1>2 DEF e
<1>5. [i \in 1..s |-> e(i)] \in Seq(Entries)
  BY <1>1, <1>4
<1> QED BY <1>2, <1>3, <1>5 DEF e

LEMMA BuildWhole ==
    ASSUME NEW f \in Files
    PROVE  Build(<< >>, f) = Complete(f.log, f.size)
<1>1. CASE f.size = 0
  BY <1>1 DEF Build, Complete
<1>2. CASE f.size # 0
  <2> DEFINE all == [i \in 1..f.size |-> [log |-> f.log, offset |-> i - 1]]
  <2>1. f.size \in Nat
    BY IndexerAssumption DEF Files
  <2>2. EntriesFrom(f, 0) = all
    <3>1. f.size - 0 = f.size /\ \A i \in 1..f.size : 0 + i - 1 = i - 1
      BY <2>1
    <3> QED BY <3>1 DEF EntriesFrom
  <2> HIDE DEF all
  <2>3. all \in Seq(Entries)
    <3>1. f.size \in 0..f.size
      BY <2>1
    <3> QED BY <3>1, FirstType DEF all
  <2>4. << >> \o all = all
    BY <2>3, ConcatEmptySeq
  <2>5. Len(<< >>) = 0 /\ ~(0 > 1)
    OBVIOUS
  <2>6. DOMAIN << >> = {} /\ {<< >>[i] : i \in {}} = {}
    OBVIOUS
  <2>7. Build(<< >>, f) = Append(<< >> \o EntriesFrom(f, 0), [log |-> f.log, offset |-> f.size - 1])
    BY <1>2, <2>5, <2>6 DEF Build
  <2> QED BY <1>2, <2>2, <2>4, <2>7 DEF Complete, all
<1> QED BY <1>1, <1>2

(* Going on from the last entry when the bucket of its line has one.        *)
LEMMA Resumed ==
    ASSUME NEW old, NEW f, NEW k, NEW from, NEW r, f.size # 0, Len(old) > 1,
           old[Len(old)].offset = from, from < f.size, SubSeq(old, 1, Len(old) - 1) = k,
           [log |-> f.log, offset |-> from] \in {k[i] : i \in DOMAIN k},
           EntriesFrom(f, from + 1) = r
    PROVE  Build(old, f) = Append(k \o r, [log |-> f.log, offset |-> f.size - 1])
BY Zenon DEF Build

(* Going on from an index of the first lines gives that of all lines.       *)
LEMMA BuildOn ==
    ASSUME NEW f \in Files, NEW s \in 1..f.size
    PROVE  Build(Complete(f.log, s), f) = Complete(f.log, f.size)
<1> DEFINE n == f.size
           e(i) == [log |-> f.log, offset |-> i - 1]
           some == [i \in 1..s |-> e(i)]
           all == [i \in 1..n |-> e(i)]
           old == Append(some, e(s))
           rest == EntriesFrom(f, s)
<1>1. n \in Nat /\ s \in Nat /\ s >= 1 /\ s <= n /\ s \in 0..n /\ n \in 0..n /\ n # 0 /\ s # 0
  BY IndexerAssumption DEF Files
<1>2. /\ some \in Seq(Entries) /\ all \in Seq(Entries) /\ e(s) \in Entries
      /\ Len(some) = s /\ Len(all) = n
  <2>1. some \in Seq(Entries) /\ all \in Seq(Entries) /\ e(s) \in Entries
    BY <1>1, FirstType
  <2>2. DOMAIN some = 1..s /\ DOMAIN all = 1..n
    OBVIOUS
  <2> HIDE DEF some, all, n
  <2>3. Len(some) = s /\ Len(all) = n
    BY <1>1, <2>1, <2>2
  <2> QED BY <2>1, <2>3
<1>3. Complete(f.log, s) = old /\ Complete(f.log, n) = Append(all, e(n))
  BY <1>1 DEF Complete
<1>4. \A i \in 1..s : some[i] = e(i)
  OBVIOUS
<1>5. \A i \in 1..n : all[i] = e(i)
  OBVIOUS
<1>6. e(s).offset = s - 1 /\ e(s).log = f.log /\ f.log = f.log
  OBVIOUS
<1>7. rest = [i \in 1..n - s |-> [log |-> f.log, offset |-> s + i - 1]]
  BY DEF EntriesFrom
<1> HIDE DEF some, all
<1>8. /\ old \in Seq(Entries) /\ Len(old) = s + 1 /\ old[s + 1] = e(s)
      /\ \A i \in 1..s : old[i] = some[i]
  <2> HIDE DEF e
  <2> QED BY <1>2, AppendProperties
<1> HIDE DEF old
<1>9. SubSeq(old, 1, s + 1 - 1) = some
  <2>1. s + 1 - 1 = s /\ 1 \in Int /\ s \in Int
    BY <1>1
  <2>2. \A i \in 1..s : old[i] \in Entries
    BY <1>1, <1>8
  <2>3. /\ SubSeq(old, 1, s) \in Seq(Entries)
        /\ Len(SubSeq(old, 1, s)) = IF 1 <= s THEN s - 1 + 1 ELSE 0
        /\ \A i \in 1..s - 1 + 1 : SubSeq(old, 1, s)[i] = old[1 + i - 1]
    BY <2>1, <2>2, SubSeqProperties
  <2>4. s - 1 + 1 = s /\ \A i \in 1..s : 1 + i - 1 = i
    BY <1>1
  <2>5. Len(SubSeq(old, 1, s)) = s /\ \A i \in 1..s : SubSeq(old, 1, s)[i] = some[i]
    BY <1>1, <1>8, <2>3, <2>4
  <2> QED BY <1>2, <2>1, <2>3, <2>5, SeqEqual
<1>10. [log |-> f.log, offset |-> s - 1] \in {some[i] : i \in DOMAIN some}
  <2>1. s \in DOMAIN some
    BY <1>1, <1>2
  <2>2. some[s] = [log |-> f.log, offset |-> s - 1]
    BY <1>1, <1>4
  <2> QED BY <2>1, <2>2
<1>11. s - 1 + 1 = s /\ s + 1 > 1 /\ s - 1 < n
  BY <1>1
<1>12. Build(old, f) = Append(some \o rest, e(n))
  <2> HIDE DEF e
  <2>1. e(n) = [log |-> f.log, offset |-> f.size - 1]
    BY DEF e
  <2>2. Len(old) = s + 1 /\ old[Len(old)].offset = s - 1
    BY <1>6, <1>8
  <2>3. SubSeq(old, 1, Len(old) - 1) = some /\ Len(old) > 1
    BY <1>8, <1>9, <1>11
  <2>4. EntriesFrom(f, s - 1 + 1) = rest
    BY <1>11
  <2>5. f.size # 0 /\ s - 1 < f.size
    BY <1>1, <1>11
  <2> HIDE DEF rest, n
  <2> QED BY <1>10, <2>1, <2>2, <2>3, <2>4, <2>5, Resumed
<1>13. some \o rest = all
  <2> DEFINE m == n - s
  <2>1. m \in Nat /\ s + m = n
    BY <1>1
  <2>2. \A i \in 1..m : s + i \in 1..n /\ rest[i] = e(s + i)
    <3> SUFFICES ASSUME NEW i \in 1..m PROVE s + i \in 1..n /\ rest[i] = e(s + i)
      OBVIOUS
    <3>1. s + i \in 1..n
      BY <1>1
    <3>2. rest[i] = [log |-> f.log, offset |-> s + i - 1]
      BY <1>7
    <3> QED BY <3>1, <3>2
  <2>3. \A i \in 1..n : e(i) \in Entries
    BY <1>1, <1>2, <1>5
  <2>4. rest = [i \in 1..m |-> e(s + i)]
    BY <1>7
  <2> HIDE DEF e, rest, m, n
  <2>5. rest \in Seq(Entries) /\ Len(rest) = m
    BY <2>1, <2>2, <2>3, <2>4
  <2>6. /\ some \o rest \in Seq(Entries) /\ Len(some \o rest) = n
        /\ \A i \in 1..n : (some \o rest)[i] = IF i <= s THEN some[i] ELSE rest[i - s]
    BY <1>2, <2>1, <2>5, ConcatProperties
  <2>7. ASSUME NEW i \in 1..n PROVE (some \o rest)[i] = all[i]
    <3>1. CASE i <= s
      <4>1. i \in 1..s
        BY <1>1, <3>1
      <4> QED BY <1>4, <1>5, <2>6, <3>1, <4>1
    <3>2. CASE ~(i <= s)
      <4>1. i - s \in 1..m /\ s + (i - s) = i
        BY <1>1, <2>1, <3>2
      <4> QED BY <1>5, <2>2, <2>6, <3>2, <4>1
    <3> QED BY <3>1, <3>2
  <2> QED BY <1>2, <2>6, <2>7, SeqEqual
<1> QED BY <1>3, <1>12, <1>13

-----------------------------------------------------------------------------
(* A change of the disk: a file that was not rewritten is new, or was there *)
(* before at the same place, with as much of it, or at one of lower rank.   *)
Follows(d, ch, e) ==
    \A q \in Paths : e[q] # NoFile /\ ~e[q].rewritten =>
        \/ e[q].inode = ch + 1
        \/ \E r \in Paths :
              /\ Alive(d, e[q].inode, r)
              /\ \/ r = q /\ e[q].log = d[q].log /\ e[q].size >= d[q].size
                 \/ Rank[q] > Rank[r]

LEMMA BehindKept ==
    ASSUME NEW d, NEW ch \in Nat, NEW e, Follows(d, ch, e),
           NEW i \in Nat, i <= ch, NEW p \in Paths, Behind(d, i, p)
    PROVE  Behind(e, i, p)
<1> SUFFICES ASSUME NEW q \in Paths, Alive(e, i, q) PROVE Rank[q] >= Rank[p]
  BY DEF Behind
<1>1. e[q].inode # ch + 1
  BY DEF Alive
<1>2. PICK r \in Paths : Alive(d, i, r) /\ (r = q \/ Rank[q] > Rank[r])
  BY <1>1 DEF Follows, Alive
<1>3. Rank[r] >= Rank[p]
  BY <1>2 DEF Behind
<1>4. Rank[p] \in Int /\ Rank[q] \in Int /\ Rank[r] \in Int
  BY RankFacts
<1> QED BY <1>2, <1>3, <1>4

LEMMA SoundKept ==
    ASSUME NEW d \in [Paths -> Files \cup {NoFile}], NEW ch \in Nat,
           NEW e \in [Paths -> Files \cup {NoFile}], Follows(d, ch, e), NEW n,
           NEW p \in Paths, NEW x \in Infos \cup {NoInfo}, Sound(d, ch, n, p, x)
    PROVE  Sound(e, ch + 1, n, p, x)
<1> SUFFICES ASSUME x # NoInfo PROVE Sound(e, ch + 1, n, p, x)
  BY DEF Sound
<1>1. /\ x \in Infos /\ x.inode \in Nat /\ x.inode <= ch /\ Behind(d, x.inode, p)
      /\ x.size \in Nat
  BY IndexerAssumption DEF Sound, Infos
<1>2. Behind(e, x.inode, p) /\ x.inode <= ch + 1
  BY <1>1, BehindKept
<1>3. ASSUME Alive(e, x.inode, p)
      PROVE  /\ x.size <= e[p].size
             /\ x.file_index # NoIndex => IndexedUpTo(x.file_index, e[p], n)
  <2>1. e[p].inode # ch + 1
    BY <1>1, <1>3 DEF Alive
  <2>2. PICK r \in Paths :
            /\ Alive(d, x.inode, r)
            /\ \/ r = p /\ e[p].log = d[p].log /\ e[p].size >= d[p].size
               \/ Rank[p] > Rank[r]
    BY <1>3, <2>1 DEF Follows, Alive
  <2>3. ~(Rank[p] > Rank[r])
    <3>1. Rank[r] >= Rank[p]
      BY <1>1, <2>2 DEF Behind
    <3> QED BY <3>1, RankFacts
  <2>4. Alive(d, x.inode, p) /\ e[p].log = d[p].log /\ e[p].size >= d[p].size
    BY <2>2, <2>3
  <2>5. d[p].size \in Nat /\ e[p].size \in Nat
    BY <1>3, <2>4, IndexerAssumption DEF Alive, Files
  <2>6. x.size <= d[p].size /\ (x.file_index # NoIndex => IndexedUpTo(x.file_index, d[p], n))
    BY <2>4 DEF Sound
  <2>7. \A s \in 0..d[p].size : s \in 0..e[p].size
    BY <2>4, <2>5
  <2>8. IndexedUpTo(x.file_index, d[p], n) => IndexedUpTo(x.file_index, e[p], n)
    BY <2>4, <2>7 DEF IndexedUpTo
  <2> QED BY <1>1, <2>4, <2>5, <2>6, <2>8
<1> QED BY <1>2, <1>3 DEF Sound

LEMMA FailuresKept ==
    ASSUME NEW d, NEW ch, NEW n \in Nat, NEW m \in Nat, n <= m, NEW l, AllSound(d, ch, n, l)
    PROVE  AllSound(d, ch, m, l)
<1>1. n > 0 => m > 0
  OBVIOUS
<1>2. \A x, f : IndexedUpTo(x, f, n) => IndexedUpTo(x, f, m)
  BY <1>1 DEF IndexedUpTo
<1> QED BY <1>2 DEF AllSound, Sound

(* The parts of the invariant that speak of the disk.                       *)
LEMMA DiskStep ==
    ASSUME IInv, UNCHANGED <<list, cache, scanner, crashes, failures>>,
           changes < MaxChanges, changes' = changes + 1,
           second' \in {second, second + 1}, rewrites' \in 0..MaxRewrites,
           disk' \in [Paths -> Files \cup {NoFile}], DiskInv(disk', changes'),
           Follows(disk, changes, disk')
    PROVE  IInv'
<1>1. /\ changes \in Nat /\ MaxChanges \in Nat /\ second \in Nat /\ second <= changes
      /\ disk \in [Paths -> Files \cup {NoFile}] /\ list \in Lists /\ cache \in Lists \cup {NoCache}
      /\ scanner \in Scanners /\ scanner.snapshot \in Lists \cup {NoCache}
  BY IndexerAssumption DEF IInv, TypeOK, Scanners
<1>2. changes' \in 0..MaxChanges /\ second' <= changes' /\ second' \in 0..MaxChanges
  BY <1>1
<1>3. TypeOK'
  BY <1>2 DEF IInv, TypeOK
<1>4. ASSUME NEW l \in Lists, AllSound(disk, changes, failures, l)
      PROVE  AllSound(disk', changes', failures, l)
  <2> SUFFICES ASSUME NEW p \in Paths PROVE Sound(disk', changes', failures, p, l[p])
    BY DEF AllSound
  <2>1. l[p] \in Infos \cup {NoInfo}
    BY DEF Lists
  <2>2. Sound(disk, changes, failures, p, l[p])
    BY <1>4 DEF AllSound
  <2> QED BY <1>1, <2>1, <2>2, SoundKept
<1>5. ScannerInv(disk', changes', list, scanner)
  <2> SUFFICES ASSUME scanner.pc = "insert"
               PROVE  scanner.inode <= changes' /\ Behind(disk', scanner.inode, scanner.path)
    BY DEF IInv, ScannerInv
  <2>1. /\ scanner.path \in Paths /\ scanner.inode \in Nat /\ scanner.inode <= changes
        /\ Behind(disk, scanner.inode, scanner.path)
    BY DEF IInv, ScannerInv
  <2> QED BY <1>1, <2>1, BehindKept
<1>6. /\ AllSound(disk', changes', failures, list)
      /\ cache # NoCache => AllSound(disk', changes', failures, cache)
      /\ scanner.snapshot # NoCache => AllSound(disk', changes', failures, scanner.snapshot)
  BY <1>1, <1>4 DEF IInv
<1> QED BY <1>2, <1>3, <1>5, <1>6 DEF IInv

-----------------------------------------------------------------------------
(* The programs that write the logs.                                        *)
LEMMA WriteFacts ==
    ASSUME IInv, NEW now, Write(now)
    PROVE  /\ UNCHANGED <<list, cache, scanner, crashes, failures>>
           /\ changes < MaxChanges /\ changes' = changes + 1
           /\ second' \in {second, second + 1} /\ second' = now
           /\ changes \in Nat /\ MaxChanges \in Nat /\ changes' \in 1..MaxChanges
           /\ now \in 0..MaxChanges
           /\ disk \in [Paths -> Files \cup {NoFile}]
           /\ rewrites \in 0..MaxRewrites /\ DiskInv(disk, changes)
           /\ \A p \in Paths : disk[p] # NoFile => disk[p].inode <= changes'
<1>1. /\ changes \in Nat /\ MaxChanges \in Nat /\ second \in Nat /\ second <= changes
      /\ changes < MaxChanges /\ changes' = changes + 1 /\ now \in {second, second + 1}
  BY IndexerAssumption DEF IInv, TypeOK, Write
<1>2. changes' \in 1..MaxChanges /\ now \in 0..MaxChanges
  BY <1>1
<1>3. ASSUME NEW p \in Paths, disk[p] # NoFile PROVE disk[p].inode <= changes'
  <2>1. disk[p] \in Files /\ disk[p].inode <= changes
    BY <1>3 DEF IInv, TypeOK, DiskInv
  <2>2. disk[p].inode \in Int
    BY <2>1 DEF Files
  <2> QED BY <1>1, <2>1, <2>2
<1> QED BY <1>1, <1>2, <1>3 DEF Write, IInv, TypeOK

(* A file that stays as it is.                                              *)
LEMMA Stays ==
    ASSUME NEW d \in [Paths -> Files \cup {NoFile}], NEW e, NEW q \in Paths,
           e[q] = d[q], e[q] # NoFile, ~e[q].rewritten
    PROVE  \E r \in Paths :
              /\ Alive(d, e[q].inode, r)
              /\ \/ r = q /\ e[q].log = d[q].log /\ e[q].size >= d[q].size
                 \/ Rank[q] > Rank[r]
<1>1. d[q] \in Files
  OBVIOUS
<1>2. d[q].size \in Nat
  BY <1>1 DEF Files
<1> QED BY <1>2 DEF Alive

LEMMA CreateStep ==
    ASSUME IInv, NEW p \in Paths, NEW inode \in 1..changes + 1, NEW size \in NewSizes,
           NEW now, Create(p, inode, size, now)
    PROVE  IInv'
<1> DEFINE f == [inode |-> inode, log |-> changes + 1, size |-> size,
                 mtime |-> now, rewritten |-> inode # changes + 1]
<1>1. /\ Write(now) /\ disk[p] = NoFile /\ disk' = [disk EXCEPT ![p] = f]
      /\ \A q \in Paths : disk[q] # NoFile => disk[q].inode # inode
  BY DEF Create, Exists
<1>2. /\ changes \in Nat /\ changes' = changes + 1 /\ changes' \in 1..MaxChanges
      /\ now \in 0..MaxChanges /\ MaxChanges \in Nat /\ rewrites \in 0..MaxRewrites
      /\ disk \in [Paths -> Files \cup {NoFile}] /\ DiskInv(disk, changes)
  BY <1>1, WriteFacts
<1>3. f \in Files /\ f.inode = inode /\ (f.rewritten \/ f.inode = changes + 1)
  <2>1. inode \in 1..MaxChanges /\ changes + 1 \in 1..MaxChanges
    BY <1>2
  <2>2. size \in 0..MaxSize
    BY IndexerAssumption DEF NewSizes
  <2> QED BY <1>2, <2>1, <2>2 DEF Files
<1>4. rewrites' \in 0..MaxRewrites
  <2>1. rewrites' \in Nat /\ rewrites' <= MaxRewrites
    BY <1>2, IndexerAssumption DEF Create
  <2> QED BY <2>1, IndexerAssumption
<1> HIDE DEF f
<1>5. /\ disk' \in [Paths -> Files \cup {NoFile}] /\ disk'[p] = f
      /\ \A q \in Paths : q # p => disk'[q] = disk[q]
  BY <1>1, <1>2, <1>3
<1>6. DiskInv(disk', changes')
  <2>1. f.inode <= changes'
    BY <1>2, <1>3
  <2>2. \A q \in Paths : disk'[q] # NoFile => disk'[q].inode <= changes'
    BY <1>1, <1>5, <2>1, WriteFacts
  <2>3. ASSUME NEW q \in Paths, NEW r \in Paths, disk'[q] # NoFile, disk'[r] # NoFile,
               disk'[q].inode = disk'[r].inode
        PROVE  q = r
    BY <1>1, <1>2, <1>3, <1>5, <2>3 DEF DiskInv
  <2> QED BY <2>2, <2>3 DEF DiskInv
<1>7. Follows(disk, changes, disk')
  <2> SUFFICES ASSUME NEW q \in Paths, q # p, disk'[q] # NoFile, ~disk'[q].rewritten
               PROVE  \E r \in Paths :
                         /\ Alive(disk, disk'[q].inode, r)
                         /\ \/ r = q /\ disk'[q].log = disk[q].log /\ disk'[q].size >= disk[q].size
                            \/ Rank[q] > Rank[r]
    BY <1>3, <1>5, Zenon DEF Follows
  <2> QED BY <1>2, <1>5, Stays
<1> QED BY <1>1, <1>4, <1>5, <1>6, <1>7, WriteFacts, DiskStep

LEMMA AppendStep ==
    ASSUME IInv, NEW p \in Paths, NEW now, AppendTo(p, now)
    PROVE  IInv'
<1> DEFINE f == [disk[p] EXCEPT !.size = @ + 1, !.mtime = now]
<1>1. /\ Write(now) /\ disk[p] # NoFile /\ disk[p].size < MaxSize /\ rewrites' = rewrites
      /\ disk' = [disk EXCEPT ![p] = f]
  <2>1. disk' = [disk EXCEPT ![p] = [[disk[p] EXCEPT !.size = @ + 1] EXCEPT !.mtime = now]]
    BY DEF AppendTo
  <2> QED BY <2>1 DEF AppendTo, Exists
<1>2. /\ changes \in Nat /\ changes' = changes + 1 /\ changes' \in 1..MaxChanges
      /\ now \in 0..MaxChanges /\ MaxChanges \in Nat /\ rewrites \in 0..MaxRewrites
      /\ disk \in [Paths -> Files \cup {NoFile}] /\ DiskInv(disk, changes)
  BY <1>1, WriteFacts
<1>3. disk[p] \in Files /\ disk[p].size \in Nat /\ disk[p].size + 1 \in 0..MaxSize
  <2>1. disk[p] \in Files
    BY <1>1, <1>2
  <2> QED BY <1>1, <2>1, IndexerAssumption DEF Files
<1>4. /\ f \in Files /\ f.inode = disk[p].inode /\ f.log = disk[p].log
      /\ f.size = disk[p].size + 1 /\ f.rewritten = disk[p].rewritten
  BY <1>2, <1>3 DEF Files
<1> HIDE DEF f
<1>5. /\ disk' \in [Paths -> Files \cup {NoFile}] /\ disk'[p] = f
      /\ \A q \in Paths : q # p => disk'[q] = disk[q]
  BY <1>1, <1>2, <1>4
<1>6. \A q \in Paths : disk'[q] # NoFile => disk[q] # NoFile /\ disk'[q].inode = disk[q].inode
  BY <1>1, <1>4, <1>5
<1>7. DiskInv(disk', changes')
  <2>1. \A q \in Paths : disk'[q] # NoFile => disk'[q].inode <= changes'
    BY <1>1, <1>6, WriteFacts
  <2> QED BY <1>2, <1>6, <2>1 DEF DiskInv
<1>8. Follows(disk, changes, disk')
  <2> SUFFICES ASSUME NEW q \in Paths, disk'[q] # NoFile, ~disk'[q].rewritten
               PROVE  \E r \in Paths :
                         /\ Alive(disk, disk'[q].inode, r)
                         /\ \/ r = q /\ disk'[q].log = disk[q].log /\ disk'[q].size >= disk[q].size
                            \/ Rank[q] > Rank[r]
    BY Zenon DEF Follows
  <2>1. CASE q = p
    <3>1. f.size >= disk[p].size
      BY <1>3, <1>4
    <3>2. Alive(disk, f.inode, p)
      BY <1>1, <1>4, <1>5, <2>1, Zenon DEF Alive
    <3> QED BY <1>4, <1>5, <2>1, <3>1, <3>2
  <2>2. CASE q # p
    BY <1>2, <1>5, <2>2, Stays
  <2> QED BY <2>1, <2>2
<1> QED BY <1>1, <1>2, <1>5, <1>7, <1>8, WriteFacts, DiskStep

LEMMA RotateStep ==
    ASSUME IInv, NEW p \in Paths, NEW q \in Paths, Rotate(p, q)
    PROVE  IInv'
<1>1. /\ Write(second) /\ <<p, q>> \in Rotations /\ disk[p] # NoFile /\ rewrites' = rewrites
      /\ disk' = [disk EXCEPT ![p] = NoFile, ![q] = disk[p]]
  BY DEF Rotate, Exists
<1>2. /\ changes \in Nat /\ changes' = changes + 1 /\ rewrites \in 0..MaxRewrites
      /\ disk \in [Paths -> Files \cup {NoFile}] /\ DiskInv(disk, changes)
  BY <1>1, WriteFacts
<1>3. Rank[p] < Rank[q] /\ Rank[p] \in Int /\ Rank[q] \in Int /\ p # q
  <2>1. Rank[p] < Rank[q] /\ Rank[p] \in Int /\ Rank[q] \in Int
    BY <1>1, RankFacts
  <2>2. Rank[p] # Rank[q]
    BY <2>1
  <2> QED BY <2>1, <2>2
<1>4. /\ disk' \in [Paths -> Files \cup {NoFile}] /\ disk'[q] = disk[p] /\ disk'[p] = NoFile
      /\ \A r \in Paths : r # p /\ r # q => disk'[r] = disk[r]
  BY <1>1, <1>2, <1>3
<1>5. DiskInv(disk', changes')
  <2>1. \A r \in Paths : disk'[r] # NoFile => disk'[r].inode <= changes'
    BY <1>1, <1>4, WriteFacts
  <2>2. ASSUME NEW r \in Paths, NEW s \in Paths, disk'[r] # NoFile, disk'[s] # NoFile,
               disk'[r].inode = disk'[s].inode
        PROVE  r = s
    BY <1>1, <1>2, <1>4, <2>2 DEF DiskInv
  <2> QED BY <2>1, <2>2 DEF DiskInv
<1>6. Follows(disk, changes, disk')
  <2> SUFFICES ASSUME NEW r \in Paths, disk'[r] # NoFile, ~disk'[r].rewritten
               PROVE  \E s \in Paths :
                         /\ Alive(disk, disk'[r].inode, s)
                         /\ \/ s = r /\ disk'[r].log = disk[r].log /\ disk'[r].size >= disk[r].size
                            \/ Rank[r] > Rank[s]
    BY Zenon DEF Follows
  <2>1. CASE r = q
    <3>1. Alive(disk, disk[p].inode, p)
      BY <1>1, <1>4, <2>1, Zenon DEF Alive
    <3> QED BY <1>3, <1>4, <2>1, <3>1
  <2>2. CASE r # q
    <3>1. r # p /\ disk'[r] = disk[r]
      BY <1>4, <2>2
    <3> QED BY <1>2, <3>1, Stays
  <2> QED BY <2>1, <2>2
<1> QED BY <1>1, <1>2, <1>4, <1>5, <1>6, WriteFacts, DiskStep

LEMMA DeleteStep ==
    ASSUME IInv, NEW p \in Paths, Delete(p)
    PROVE  IInv'
<1>1. /\ Write(second) /\ rewrites' = rewrites /\ disk' = [disk EXCEPT ![p] = NoFile]
  BY DEF Delete
<1>2. /\ changes \in Nat /\ changes' = changes + 1 /\ rewrites \in 0..MaxRewrites
      /\ disk \in [Paths -> Files \cup {NoFile}] /\ DiskInv(disk, changes)
  BY <1>1, WriteFacts
<1>3. /\ disk' \in [Paths -> Files \cup {NoFile}]
      /\ \A q \in Paths : disk'[q] # NoFile => disk'[q] = disk[q]
  BY <1>1, <1>2
<1>4. DiskInv(disk', changes')
  <2>1. \A r \in Paths : disk[r] # NoFile => disk[r].inode <= changes'
    BY <1>1, WriteFacts
  <2> QED BY <1>2, <1>3, <2>1 DEF DiskInv
<1>5. Follows(disk, changes, disk')
  <2> SUFFICES ASSUME NEW q \in Paths, disk'[q] # NoFile, ~disk'[q].rewritten
               PROVE  \E r \in Paths :
                         /\ Alive(disk, disk'[q].inode, r)
                         /\ \/ r = q /\ disk'[q].log = disk[q].log /\ disk'[q].size >= disk[q].size
                            \/ Rank[q] > Rank[r]
    BY Zenon DEF Follows
  <2> QED BY <1>2, <1>3, Stays
<1> QED BY <1>1, <1>2, <1>3, <1>4, <1>5, WriteFacts, DiskStep

LEMMA RewriteStep ==
    ASSUME IInv, NEW p \in Paths, NEW size \in 0..MaxSize, Rewrite(p, size)
    PROVE  IInv'
<1> DEFINE g == [[disk[p] EXCEPT !.log = changes + 1] EXCEPT !.size = size]
           f == [[g EXCEPT !.mtime = second + 1] EXCEPT !.rewritten = TRUE]
<1>1. /\ Write(second + 1) /\ disk[p] # NoFile /\ rewrites < MaxRewrites
      /\ rewrites' = rewrites + 1 /\ disk' = [disk EXCEPT ![p] = f]
  BY DEF Rewrite, Exists
<1>2. /\ changes \in Nat /\ changes' = changes + 1 /\ changes' \in 1..MaxChanges
      /\ second + 1 \in 0..MaxChanges /\ MaxChanges \in Nat /\ rewrites \in 0..MaxRewrites
      /\ disk \in [Paths -> Files \cup {NoFile}] /\ DiskInv(disk, changes)
  BY <1>1, WriteFacts
<1>3. disk[p] \in Files /\ rewrites' \in 0..MaxRewrites
  BY <1>1, <1>2, IndexerAssumption
<1>4. f \in Files /\ f.inode = disk[p].inode /\ f.rewritten
  <2>1. g \in Files /\ g.inode = disk[p].inode
    BY <1>2, <1>3 DEF Files
  <2> HIDE DEF g
  <2> QED BY <1>2, <2>1 DEF Files
<1> HIDE DEF f
<1>5. /\ disk' \in [Paths -> Files \cup {NoFile}] /\ disk'[p] = f
      /\ \A q \in Paths : q # p => disk'[q] = disk[q]
  BY <1>1, <1>2, <1>4
<1>6. \A q \in Paths : disk'[q] # NoFile => disk[q] # NoFile /\ disk'[q].inode = disk[q].inode
  BY <1>1, <1>4, <1>5
<1>7. DiskInv(disk', changes')
  <2>1. \A q \in Paths : disk'[q] # NoFile => disk'[q].inode <= changes'
    BY <1>1, <1>6, WriteFacts
  <2> QED BY <1>2, <1>6, <2>1 DEF DiskInv
<1>8. Follows(disk, changes, disk')
  <2> SUFFICES ASSUME NEW q \in Paths, q # p, disk'[q] # NoFile, ~disk'[q].rewritten
               PROVE  \E r \in Paths :
                         /\ Alive(disk, disk'[q].inode, r)
                         /\ \/ r = q /\ disk'[q].log = disk[q].log /\ disk'[q].size >= disk[q].size
                            \/ Rank[q] > Rank[r]
    BY <1>4, <1>5, Zenon DEF Follows
  <2> QED BY <1>2, <1>5, Stays
<1> QED BY <1>1, <1>3, <1>5, <1>7, <1>8, WriteFacts, DiskStep

-----------------------------------------------------------------------------
(* The scan thread.                                                         *)
LEMMA ScanTypes ==
    ASSUME IInv
    PROVE  /\ disk \in [Paths -> Files \cup {NoFile}] /\ DiskInv(disk, changes)
           /\ list \in Lists /\ cache \in Lists \cup {NoCache} /\ scanner \in Scanners
           /\ \A p \in Paths : list[p] # NoInfo => list[p] \in Infos
           /\ \A p \in Paths : Sound(disk, changes, failures, p, list[p])
           /\ changes \in Nat /\ changes <= MaxChanges /\ MaxChanges \in Nat
BY IndexerAssumption DEF IInv, TypeOK, Lists, AllSound

(* A step that indexes nothing.                                             *)
LEMMA WorkStep ==
    ASSUME IInv, UNCHANGED <<disk, second, changes, rewrites, failures>>, crashes' \in 0..MaxCrashes,
           list' \in Lists, AllSound(disk, changes, failures, list'),
           cache' \in {cache, scanner.snapshot},
           scanner' \in Scanners, scanner'.snapshot \in {scanner.snapshot, list, NoCache},
           ScannerInv(disk, changes, list', scanner')
    PROVE  IInv'
<1>1. scanner.snapshot \in Lists \cup {NoCache}
  BY DEF IInv, TypeOK, Scanners
<1>2. TypeOK'
  BY <1>1 DEF IInv, TypeOK
<1>3. cache' # NoCache => AllSound(disk, changes, failures, cache')
  BY DEF IInv
<1>4. scanner'.snapshot # NoCache => AllSound(disk, changes, failures, scanner'.snapshot)
  BY DEF IInv
<1> QED BY <1>2, <1>3, <1>4 DEF IInv

(* The scan thread at the beginning of a round.                             *)
LEMMA RoundType ==
    ASSUME NEW z \in {[Down EXCEPT !.pc = "scan"],
                      [[Down EXCEPT !.pc = "scan"] EXCEPT !.starting = TRUE]}
    PROVE  LET x == [z EXCEPT !.todo = Paths]
           IN  x \in Scanners /\ x.pc = "scan" /\ x.snapshot = NoCache
<1> DEFINE x == [Down EXCEPT !.pc = "scan"]
           y == [x EXCEPT !.starting = TRUE]
<1>1. 0 \in 0..MaxChanges
  BY IndexerAssumption
<1>2. Down \in Scanners /\ Down.snapshot = NoCache
  BY <1>1 DEF Down, Scanners
<1>3. x \in Scanners /\ x.snapshot = NoCache /\ x.pc = "scan"
  BY <1>2 DEF Scanners
<1>4. z \in {x, y}
  OBVIOUS
<1> HIDE DEF x
<1>5. y \in Scanners /\ y.snapshot = NoCache /\ y.pc = "scan"
  BY <1>3 DEF Scanners
<1> HIDE DEF y
<1>6. z \in Scanners /\ z.snapshot = NoCache /\ z.pc = "scan"
  BY <1>3, <1>4, <1>5
<1> QED BY <1>6 DEF Scanners

LEMMA StartStep ==
    ASSUME IInv, Start
    PROVE  IInv'
<1>1. scanner' \in Scanners /\ scanner'.pc = "scan" /\ scanner'.snapshot = NoCache
  <2>1. scanner' = [[[Down EXCEPT !.pc = "scan"] EXCEPT !.starting = TRUE] EXCEPT !.todo = Paths]
    BY DEF Start, Work
  <2> QED BY <2>1, RoundType
<1>2. ScannerInv(disk, changes, list', scanner')
  BY <1>1 DEF ScannerInv
<1>3. /\ UNCHANGED <<disk, second, changes, rewrites, crashes, failures>>
      /\ list' = list /\ cache' = cache
  BY DEF Start, Work, Disturbed
<1> QED BY <1>1, <1>2, <1>3, WorkStep DEF IInv, TypeOK

LEMMA WakeStep ==
    ASSUME IInv, Wake
    PROVE  IInv'
<1>1. scanner' \in Scanners /\ scanner'.pc = "scan" /\ scanner'.snapshot = NoCache
  <2>1. scanner' = [[Down EXCEPT !.pc = "scan"] EXCEPT !.todo = Paths]
    BY DEF Wake, Work
  <2> QED BY <2>1, RoundType
<1>2. ScannerInv(disk, changes, list', scanner')
  BY <1>1 DEF ScannerInv
<1>3. /\ UNCHANGED <<disk, second, changes, rewrites, crashes, failures>>
      /\ list' = list /\ cache' = cache
  BY DEF Wake, Work, Disturbed
<1> QED BY <1>1, <1>2, <1>3, WorkStep DEF IInv, TypeOK

LEMMA ScanStatStep ==
    ASSUME IInv, NEW p \in Paths, ScanStat(p)
    PROVE  IInv'
<1>1. /\ UNCHANGED <<disk, second, changes, rewrites, crashes, failures>>
      /\ list' = list /\ cache' = cache /\ scanner.pc = "scan"
  BY DEF ScanStat, Work, Disturbed, Step
<1>2. CASE Exists(p)
  <2>1. disk[p] \in Files /\ disk[p].inode \in 1..MaxChanges /\ disk[p].inode <= changes
    BY <1>2, ScanTypes DEF Exists, Files, DiskInv
  <2>2. Behind(disk, disk[p].inode, p)
    <3> SUFFICES ASSUME NEW q \in Paths, Alive(disk, disk[p].inode, q)
                 PROVE  Rank[q] >= Rank[p]
      BY DEF Behind
    <3>1. q = p
      BY <1>2, ScanTypes DEF Alive, DiskInv, Exists
    <3> QED BY <3>1, RankFacts
  <2> DEFINE x == [[scanner EXCEPT !.pc = "insert"] EXCEPT !.todo = @ \ {p}]
             y == [[x EXCEPT !.path = p] EXCEPT !.inode = disk[p].inode]
  <2>3. scanner' = y
    BY <1>2 DEF ScanStat, Work
  <2>4. x \in Scanners /\ x.snapshot = scanner.snapshot /\ x.pc = "insert"
    BY ScanTypes DEF Scanners
  <2> HIDE DEF x
  <2>5. disk[p].inode \in 0..MaxChanges
    BY <2>1
  <2>6. /\ y \in Scanners /\ y.snapshot = scanner.snapshot /\ y.pc = "insert"
        /\ y.path = p /\ y.inode = disk[p].inode
    BY <2>4, <2>5 DEF Scanners
  <2> HIDE DEF y
  <2>7. ScannerInv(disk, changes, list', scanner')
    BY <2>1, <2>2, <2>3, <2>6 DEF ScannerInv
  <2> QED BY <1>1, <2>3, <2>6, <2>7, WorkStep DEF IInv, TypeOK
<1>3. CASE ~Exists(p)
  <2>1. scanner' = [scanner EXCEPT !.todo = @ \ {p}]
    BY <1>3 DEF ScanStat, Work
  <2>2. scanner' \in Scanners /\ scanner'.snapshot = scanner.snapshot /\ scanner'.pc = "scan"
    BY <1>1, <2>1, ScanTypes DEF Scanners
  <2>3. ScannerInv(disk, changes, list', scanner')
    BY <2>2 DEF ScannerInv
  <2> QED BY <1>1, <2>2, <2>3, WorkStep DEF IInv, TypeOK
<1> QED BY <1>2, <1>3

LEMMA ScannedSound ==
    ASSUME NEW d \in [Paths -> Files \cup {NoFile}], NEW ch, NEW n, NEW p \in Paths,
           NEW old \in Infos \cup {NoInfo}, Sound(d, ch, n, p, old), d[p] # NoFile,
           NEW i \in 1..MaxChanges, i <= ch, Behind(d, i, p)
    PROVE  Scanned(old, i, d[p]) \in Infos /\ Sound(d, ch, n, p, Scanned(old, i, d[p]))
<1>1. /\ d[p] \in Files /\ d[p].size \in 0..MaxSize /\ d[p].mtime \in 0..MaxChanges
      /\ d[p].size \in Nat
  BY IndexerAssumption DEF Files
<1>2. ASSUME NEW x \in Indexes \cup {NoIndex},
             x # NoIndex /\ Alive(d, i, p) => IndexedUpTo(x, d[p], n)
      PROVE  Info(i, d[p], x) \in Infos /\ Sound(d, ch, n, p, Info(i, d[p], x))
  <2> DEFINE y == Info(i, d[p], x)
  <2>1. y \in Infos /\ y.inode = i /\ y.size = d[p].size /\ y.file_index = x
    BY <1>1 DEF Info, Infos
  <2> HIDE DEF y
  <2>2. d[p].size <= d[p].size
    BY <1>1
  <2>3. Behind(d, y.inode, p) /\ y.inode <= ch
    BY <2>1
  <2>4. ASSUME Alive(d, y.inode, p)
        PROVE  y.size <= d[p].size /\ (y.file_index # NoIndex => IndexedUpTo(y.file_index, d[p], n))
    <3>1. Alive(d, i, p)
      BY <2>1, <2>4
    <3> QED BY <1>2, <2>1, <2>2, <3>1
  <2>5. Sound(d, ch, n, p, y)
    BY <2>3, <2>4 DEF Sound
  <2> QED BY <2>1, <2>5 DEF y
<1>3. CASE old = NoInfo \/ (old # NoInfo /\ old.inode # i)
  BY <1>2, <1>3 DEF Scanned
<1>4. CASE old # NoInfo /\ old.inode = i
  <2>1. /\ old \in Infos /\ old.file_index \in Indexes \cup {NoIndex}
        /\ old.file_index # NoIndex /\ Alive(d, i, p) => IndexedUpTo(old.file_index, d[p], n)
    BY <1>4 DEF Infos, Sound
  <2> QED BY <1>2, <1>4, <2>1 DEF Scanned
<1> QED BY <1>3, <1>4

LEMMA ScanInsertStep ==
    ASSUME IInv, ScanInsert
    PROVE  IInv'
<1> DEFINE p == scanner.path
           x == [[scanner EXCEPT !.pc = "scan"] EXCEPT !.path = NoFile]
           new == Scanned(list[p], scanner.inode, disk[p])
<1>1. /\ UNCHANGED <<disk, second, changes, rewrites, crashes, failures>>
      /\ cache' = cache /\ scanner' = [x EXCEPT !.inode = 0]
      /\ list' = IF Exists(p) THEN [list EXCEPT ![p] = new] ELSE list
  BY DEF ScanInsert, Work, Disturbed
<1>2. /\ p \in Paths /\ scanner.inode \in 1..MaxChanges /\ scanner.inode <= changes
      /\ Behind(disk, scanner.inode, p)
  BY DEF IInv, ScannerInv, ScanInsert, Step
<1>3. x \in Scanners /\ x.pc = "scan" /\ x.snapshot = scanner.snapshot
  BY ScanTypes DEF Scanners
<1> HIDE DEF x
<1>4. scanner' \in Scanners /\ scanner'.pc = "scan" /\ scanner'.snapshot = scanner.snapshot
  BY <1>1, <1>3, ScanTypes DEF Scanners
<1> HIDE DEF p, new
<1>5. list' \in Lists /\ AllSound(disk, changes, failures, list')
  <2>1. CASE Exists(p)
    <3>1. list[p] \in Infos \cup {NoInfo} /\ Sound(disk, changes, failures, p, list[p])
      BY <1>2, ScanTypes
    <3>2. new \in Infos /\ Sound(disk, changes, failures, p, new)
      BY <1>2, <2>1, <3>1, ScanTypes, ScannedSound DEF Exists, new
    <3>3. /\ list' \in Lists /\ list'[p] = new
          /\ \A q \in Paths : q # p => list'[q] = list[q]
      BY <1>1, <1>2, <2>1, <3>2, ScanTypes DEF Lists
    <3> QED BY <3>2, <3>3, ScanTypes DEF AllSound
  <2>2. CASE ~Exists(p)
    BY <1>1, <2>2 DEF IInv, TypeOK
  <2> QED BY <2>1, <2>2
<1>6. ScannerInv(disk, changes, list', scanner')
  BY <1>4 DEF ScannerInv
<1> QED BY <1>1, <1>4, <1>5, <1>6, WorkStep DEF IInv, TypeOK

LEMMA ScanEndStep ==
    ASSUME IInv, ScanEnd
    PROVE  IInv'
<1>1. /\ UNCHANGED <<disk, second, changes, rewrites, crashes, failures>>
      /\ list' = list /\ cache' = cache
  BY DEF ScanEnd, Work, Disturbed
<1>2. CASE scanner.starting
  <2>1. scanner' = [scanner EXCEPT !.pc = "load"]
    BY <1>2 DEF ScanEnd, Work
  <2>2. scanner' \in Scanners /\ scanner'.pc = "load" /\ scanner'.snapshot = scanner.snapshot
    BY <2>1, ScanTypes DEF Scanners
  <2>3. ScannerInv(disk, changes, list', scanner')
    BY <2>2 DEF ScannerInv
  <2> QED BY <1>1, <2>2, <2>3, WorkStep DEF IInv, TypeOK
<1>3. CASE ~scanner.starting
  <2> DEFINE x == [[scanner EXCEPT !.pc = "update"] EXCEPT !.todo = Listed]
  <2>1. scanner' = [x EXCEPT !.updated = FALSE]
    BY <1>3 DEF ScanEnd, Work
  <2>2. x \in Scanners /\ x.pc = "update" /\ x.todo = Listed /\ x.snapshot = scanner.snapshot
    BY ScanTypes DEF Scanners, Listed
  <2> HIDE DEF x
  <2>3. /\ scanner' \in Scanners /\ scanner'.todo = Listed
        /\ scanner'.pc = "update" /\ scanner'.snapshot = scanner.snapshot
    BY <2>1, <2>2 DEF Scanners
  <2>4. ScannerInv(disk, changes, list', scanner')
    BY <1>1, <2>3 DEF ScannerInv, Listed
  <2> QED BY <1>1, <2>3, <2>4, WorkStep DEF IInv, TypeOK
<1> QED BY <1>2, <1>3

LEMMA LoadStep ==
    ASSUME IInv, Load
    PROVE  IInv'
<1> DEFINE found == {p \in Paths : list'[p] # NoInfo}
           x == [[scanner EXCEPT !.pc = "update"] EXCEPT !.updated = FALSE]
<1>1. /\ UNCHANGED <<disk, second, changes, rewrites, crashes, failures>> /\ cache' = cache
      /\ scanner' = [x EXCEPT !.todo = found]
      /\ list' = IF cache = NoCache THEN list
                 ELSE [p \in Paths |-> IF p \in Listed THEN cache[p] ELSE NoInfo]
  BY DEF Load, Work, Disturbed
<1>2. x \in Scanners /\ x.pc = "update" /\ x.snapshot = scanner.snapshot
  BY ScanTypes DEF Scanners
<1> HIDE DEF x
<1>3. /\ scanner' \in Scanners /\ scanner'.pc = "update" /\ scanner'.todo = found
      /\ scanner'.snapshot = scanner.snapshot
  BY <1>1, <1>2 DEF Scanners
<1>4. ScannerInv(disk, changes, list', scanner')
  BY <1>3 DEF ScannerInv
<1>5. list' \in Lists /\ AllSound(disk, changes, failures, list')
  <2>1. CASE cache = NoCache
    BY <1>1, <2>1 DEF IInv, TypeOK
  <2>2. CASE cache # NoCache
    <3>1. cache \in Lists /\ AllSound(disk, changes, failures, cache)
      BY <2>2 DEF IInv, TypeOK
    <3>2. list' \in Lists /\ \A p \in Paths : list'[p] = cache[p] \/ list'[p] = NoInfo
      BY <1>1, <2>2, <3>1 DEF Lists
    <3> QED BY <3>1, <3>2 DEF AllSound, Sound
  <2> QED BY <2>1, <2>2
<1> QED BY <1>1, <1>3, <1>4, <1>5, WorkStep DEF IInv, TypeOK

LEMMA UpdateEndStep ==
    ASSUME IInv, UpdateEnd
    PROVE  IInv'
<1>1. /\ UNCHANGED <<disk, second, changes, rewrites, crashes, failures>>
      /\ list' = list /\ cache' = cache /\ scanner' = [scanner EXCEPT !.pc = "remove"]
  BY DEF UpdateEnd, Work, Disturbed
<1>2. scanner' \in Scanners /\ scanner'.pc = "remove" /\ scanner'.snapshot = scanner.snapshot
  BY <1>1, ScanTypes DEF Scanners
<1>3. ScannerInv(disk, changes, list', scanner')
  BY <1>2 DEF ScannerInv
<1> QED BY <1>1, <1>2, <1>3, WorkStep DEF IInv, TypeOK

LEMMA RemoveStep ==
    ASSUME IInv, Remove
    PROVE  IInv'
<1>1. /\ UNCHANGED <<disk, second, changes, rewrites, crashes, failures>>
      /\ cache' = cache /\ scanner' = [scanner EXCEPT !.pc = "save"]
  BY DEF Remove, Work, Disturbed
<1>2. scanner' \in Scanners /\ scanner'.pc = "save" /\ scanner'.snapshot = scanner.snapshot
  BY <1>1, ScanTypes DEF Scanners
<1>3. list' \in Lists /\ \A p \in Paths : list'[p] = list[p] \/ list'[p] = NoInfo
  BY ScanTypes DEF Remove, Lists
<1>4. AllSound(disk, changes, failures, list')
  BY <1>3, ScanTypes DEF AllSound, Sound
<1>5. ScannerInv(disk, changes, list', scanner')
  BY <1>2 DEF ScannerInv
<1> QED BY <1>1, <1>2, <1>3, <1>4, <1>5, WorkStep DEF IInv, TypeOK

LEMMA SaveStep ==
    ASSUME IInv, Save
    PROVE  IInv'
<1> DEFINE x == [scanner EXCEPT !.pc = "rename"]
<1>1. /\ UNCHANGED <<disk, second, changes, rewrites, crashes, failures>>
      /\ list' = list /\ cache' = cache
      /\ scanner' \in {[x EXCEPT !.snapshot = list], [scanner EXCEPT !.pc = "sleep"]}
  BY DEF Save, Work, Disturbed
<1>2. x \in Scanners /\ x.pc = "rename"
  BY ScanTypes DEF Scanners
<1> HIDE DEF x
<1>3. /\ scanner' \in Scanners /\ scanner'.pc \in {"rename", "sleep"}
      /\ scanner'.snapshot \in {scanner.snapshot, list}
  BY <1>1, <1>2, ScanTypes DEF Scanners
<1>4. ScannerInv(disk, changes, list', scanner')
  BY <1>3 DEF ScannerInv
<1> QED BY <1>1, <1>3, <1>4, WorkStep DEF IInv, TypeOK

LEMMA RenameCacheStep ==
    ASSUME IInv, RenameCache
    PROVE  IInv'
<1> DEFINE x == [scanner EXCEPT !.pc = "sleep"]
<1>1. /\ UNCHANGED <<disk, second, changes, rewrites, crashes, failures>>
      /\ list' = list /\ cache' = scanner.snapshot
      /\ scanner' = [x EXCEPT !.snapshot = NoCache]
  BY DEF RenameCache, Work, Disturbed
<1>2. x \in Scanners /\ x.pc = "sleep"
  BY ScanTypes DEF Scanners
<1> HIDE DEF x
<1>3. scanner' \in Scanners /\ scanner'.pc = "sleep" /\ scanner'.snapshot = NoCache
  BY <1>1, <1>2 DEF Scanners
<1>4. ScannerInv(disk, changes, list', scanner')
  BY <1>3 DEF ScannerInv
<1> QED BY <1>1, <1>3, <1>4, WorkStep DEF IInv, TypeOK

LEMMA CrashStep ==
    ASSUME IInv, Crash
    PROVE  IInv'
<1>1. /\ UNCHANGED <<disk, second, changes, rewrites, failures>> /\ cache' = cache
      /\ scanner' = Down /\ list' = Nothing
  BY DEF Crash
<1>2. crashes' \in 0..MaxCrashes
  BY IndexerAssumption DEF Crash, IInv, TypeOK
<1>3. Down \in Scanners /\ Down.pc = "down" /\ Down.snapshot = NoCache
  <2>1. 0 \in 0..MaxChanges
    BY IndexerAssumption
  <2> QED BY <2>1 DEF Down, Scanners
<1>4. Nothing \in Lists /\ AllSound(disk, changes, failures, Nothing)
  BY DEF Nothing, Lists, AllSound, Sound
<1>5. ScannerInv(disk, changes, list', scanner')
  BY <1>1, <1>3 DEF ScannerInv
<1> QED BY <1>1, <1>2, <1>3, <1>4, <1>5, WorkStep

(* Indexing a file anew: whatever sound index there was, the new one is     *)
(* that of the whole file.                                                  *)
LEMMA BuildSound ==
    ASSUME NEW d \in [Paths -> Files \cup {NoFile}], NEW ch, NEW n, NEW p \in Paths,
           NEW x \in Infos, x # NoInfo, Sound(d, ch, n, p, x), Alive(d, x.inode, p)
    PROVE  Build(OldEntries(x), d[p]) = Complete(d[p].log, d[p].size)
<1>1. d[p] \in Files
  BY DEF Alive
<1>2. CASE OldEntries(x) = << >>
  BY <1>1, <1>2, BuildWhole
<1>3. CASE OldEntries(x) # << >>
  <2>1. x.file_index # NoIndex /\ OldEntries(x) = x.file_index.time_indexes
    BY <1>3 DEF OldEntries
  <2>2. IndexedUpTo(x.file_index, d[p], n)
    BY <2>1 DEF Sound
  <2>3. PICK s \in 0..d[p].size : OldEntries(x) = Complete(d[p].log, s)
    BY <1>3, <2>1, <2>2 DEF IndexedUpTo
  <2>4. s # 0
    BY <1>3, <2>3 DEF Complete
  <2>5. s \in 1..d[p].size
    BY <2>4
  <2> QED BY <1>1, <2>3, <2>5, BuildOn
<1> QED BY <1>2, <1>3

LEMMA UpdateFileStep ==
    ASSUME IInv, NEW p \in Paths, UpdateFile(p)
    PROVE  IInv'
<1> DEFINE x == [scanner EXCEPT !.todo = @ \ {p}]
           y == [x EXCEPT !.updated = TRUE]
<1>1. /\ scanner.pc = "update" /\ p \in scanner.todo /\ cache' = cache
      /\ UNCHANGED <<disk, second, changes, rewrites, crashes>>
  BY DEF UpdateFile, Step, Work, Disturbed
<1>2. list[p] # NoInfo /\ list[p] \in Infos /\ Sound(disk, changes, failures, p, list[p])
  BY <1>1, ScanTypes DEF IInv, ScannerInv
<1>3. /\ x \in Scanners /\ x.pc = "update" /\ x.todo = scanner.todo \ {p}
      /\ x.snapshot = scanner.snapshot
  BY <1>1, ScanTypes DEF Scanners
<1>4. /\ y \in Scanners /\ y.pc = "update" /\ y.todo = scanner.todo \ {p}
      /\ y.snapshot = scanner.snapshot
  <2> HIDE DEF x
  <2> QED BY <1>3 DEF Scanners
<1> HIDE DEF x, y
<1>5. CASE ~NeedsIndex(list[p])
  <2>1. scanner' = x /\ list' = list /\ failures' = failures
    BY <1>5 DEF UpdateFile, Work, x
  <2>2. ScannerInv(disk, changes, list', scanner')
    BY <1>1, <1>3, <2>1 DEF ScannerInv, IInv
  <2> QED BY <1>1, <1>3, <2>1, <2>2, WorkStep DEF IInv, TypeOK
<1>6. CASE NeedsIndex(list[p])
  <2>1. PICK fails \in BOOLEAN :
          /\ failures' = failures + (IF fails THEN 1 ELSE 0) /\ failures' <= MaxFailures
          /\ list' = [list EXCEPT ![p].file_index =
                [index_etag |-> Etag(list[p]),
                 time_indexes |-> IF fails \/ ~Exists(p) THEN << >>
                                  ELSE Build(OldEntries(list[p]), disk[p])]]
          /\ scanner' = y
    BY <1>6 DEF UpdateFile, Work, x, y
  <2> DEFINE entries == IF fails \/ ~Exists(p) THEN << >>
                        ELSE Build(OldEntries(list[p]), disk[p])
             index == [index_etag |-> Etag(list[p]), time_indexes |-> entries]
             info == [list[p] EXCEPT !.file_index = index]
  <2>2. /\ failures \in Nat /\ failures' \in 0..MaxFailures /\ failures' \in Nat
        /\ failures <= failures' /\ (fails => failures' > 0)
    <3>1. failures \in Nat /\ MaxFailures \in Nat
      BY IndexerAssumption DEF IInv, TypeOK
    <3> QED BY <2>1, <3>1
  <2>3. entries \in Seq(Entries)
    <3>1. CASE fails \/ ~Exists(p)
      <4>1. << >> \in Seq(Entries)
        OBVIOUS
      <4> QED BY <3>1, <4>1
    <3>2. CASE ~fails /\ Exists(p)
      <4>1. OldEntries(list[p]) \in Seq(Entries)
        <5>1. CASE list[p].file_index = NoIndex
          BY <5>1 DEF OldEntries
        <5>2. CASE list[p].file_index # NoIndex
          BY <1>2, <5>2 DEF OldEntries, Infos, Indexes
        <5> QED BY <5>1, <5>2
      <4>2. disk[p] \in Files
        BY <3>2, ScanTypes DEF Exists
      <4>3. Build(OldEntries(list[p]), disk[p]) \in Seq(Entries)
        BY <4>1, <4>2, BuildType
      <4> QED BY <3>2, <4>3
    <3> QED BY <3>1, <3>2
  <2>4. Alive(disk, list[p].inode, p) =>
          /\ disk[p] \in Files
          /\ \/ entries = Complete(disk[p].log, disk[p].size)
             \/ failures' > 0 /\ entries = << >>
    <3> SUFFICES ASSUME Alive(disk, list[p].inode, p)
                 PROVE  /\ disk[p] \in Files
                        /\ \/ entries = Complete(disk[p].log, disk[p].size)
                           \/ failures' > 0 /\ entries = << >>
      OBVIOUS
    <3>1. disk[p] \in Files /\ Exists(p)
      BY ScanTypes DEF Alive, Exists
    <3>2. Build(OldEntries(list[p]), disk[p]) = Complete(disk[p].log, disk[p].size)
      BY <1>2, ScanTypes, BuildSound
    <3> QED BY <2>2, <3>1, <3>2
  <2>5. list' = [list EXCEPT ![p] = info]
    BY <2>1
  <2> HIDE DEF entries
  <2>6. /\ index \in Indexes /\ index.index_etag[1] = list[p].size
        /\ index.time_indexes = entries
    BY <1>2, <2>3 DEF Indexes, Etag, Infos
  <2> HIDE DEF index
  <2>7. /\ info \in Infos /\ info.inode = list[p].inode /\ info.size = list[p].size
        /\ info.file_index = index
    BY <1>2, <2>6 DEF Infos
  <2> HIDE DEF info
  <2>8. Sound(disk, changes, failures', p, info)
    <3>1. info.inode <= changes /\ Behind(disk, info.inode, p)
      BY <1>2, <2>7 DEF Sound
    <3>2. ASSUME Alive(disk, info.inode, p)
          PROVE  info.size <= disk[p].size /\ IndexedUpTo(info.file_index, disk[p], failures')
      <4>1. Alive(disk, list[p].inode, p)
        BY <2>7, <3>2
      <4>2. list[p].size <= disk[p].size
        BY <1>2, <4>1 DEF Sound
      <4>3. disk[p].size \in 0..disk[p].size
        BY <2>4, <4>1, IndexerAssumption DEF Files
      <4> QED BY <2>4, <2>6, <2>7, <4>1, <4>2, <4>3 DEF IndexedUpTo
    <3> QED BY <3>1, <3>2 DEF Sound
  <2>9. /\ list' \in Lists /\ list'[p] = info
        /\ \A q \in Paths : q # p => list'[q] = list[q]
    BY <2>5, <2>7, ScanTypes DEF Lists
  <2>10. \A l : AllSound(disk, changes, failures, l) => AllSound(disk, changes, failures', l)
    BY <2>2, FailuresKept
  <2>11. AllSound(disk, changes, failures', list')
    <3>1. AllSound(disk, changes, failures', list)
      BY <2>10 DEF IInv
    <3> QED BY <2>8, <2>9, <3>1 DEF AllSound
  <2>12. ScannerInv(disk, changes, list', scanner')
    BY <1>1, <1>4, <2>1, <2>9 DEF ScannerInv, IInv
  <2>13. TypeOK'
    BY <1>1, <1>4, <2>1, <2>2, <2>9 DEF IInv, TypeOK
  <2> QED BY <1>1, <1>4, <2>1, <2>10, <2>11, <2>12, <2>13 DEF IInv
<1> QED BY <1>5, <1>6

-----------------------------------------------------------------------------
LEMMA InitIInv == Init => IInv
<1> SUFFICES ASSUME Init PROVE IInv
  OBVIOUS
<1>1. 0 \in 0..MaxChanges /\ 0 \in 0..MaxRewrites /\ 0 \in 0..MaxCrashes /\ 0 \in 0..MaxFailures
  BY IndexerAssumption
<1>2. Down \in Scanners /\ Down.pc = "down" /\ Down.snapshot = NoCache
  BY <1>1 DEF Down, Scanners
<1>3. Nothing \in Lists /\ AllSound(disk, 0, 0, Nothing)
  BY DEF Nothing, Lists, AllSound, Sound
<1>4. TypeOK
  BY <1>1, <1>2, <1>3 DEF Init, TypeOK
<1>5. DiskInv(disk, 0)
  BY DEF Init, DiskInv
<1> QED BY <1>2, <1>3, <1>4, <1>5 DEF Init, IInv, ScannerInv

LEMMA NextIInv == IInv /\ [Next]_vars => IInv'
<1> SUFFICES ASSUME IInv, [Next]_vars PROVE IInv'
  OBVIOUS
<1>1. CASE Start
  BY <1>1, StartStep
<1>2. CASE Scan
  BY <1>2, ScanStatStep, UpdateFileStep, ScanInsertStep, ScanEndStep, LoadStep, UpdateEndStep,
     RemoveStep, SaveStep, RenameCacheStep, WakeStep DEF Scan
<1>3. CASE Crash
  BY <1>3, CrashStep
<1>4. CASE Environment
  BY <1>4, CreateStep, AppendStep, RotateStep, DeleteStep, RewriteStep DEF Environment
<1>5. CASE UNCHANGED vars
  BY <1>5 DEF vars, IInv, TypeOK
<1> QED BY <1>1, <1>2, <1>3, <1>4, <1>5 DEF Next

(* Whatever order the scan thread's steps, the changes of the disk and the  *)
(* crashes come in, the invariant holds.                                    *)
THEOREM InvariantHolds == Spec => []IInv
BY InitIInv, NextIInv, PTL DEF Spec

(* Types: in particular, the offsets of an index are those of lines that a  *)
(* file could have (init_indexes, scan_loop, update_file_index).            *)
THEOREM TypeCorrect == Spec => []TypeOK
<1>1. IInv => TypeOK
  BY DEF IInv
<1> QED BY <1>1, InvariantHolds, PTL

LEMMA MatchingFollows == IInv => MatchingIsCurrent
<1> SUFFICES ASSUME IInv, NEW p \in Paths, Matches(p), ~disk[p].rewritten
             PROVE  list[p].file_index.time_indexes \in Good(disk[p])
  BY DEF MatchingIsCurrent
<1>1. /\ list[p] # NoInfo /\ disk[p] # NoFile /\ list[p].inode = disk[p].inode
      /\ list[p].size = disk[p].size /\ list[p].file_index # NoIndex
      /\ list[p].file_index.index_etag = Etag(list[p])
  BY DEF Matches, NeedsIndex, Exists
<1>2. disk[p] \in Files /\ disk[p].size \in Nat /\ Sound(disk, changes, failures, p, list[p])
  BY <1>1, ScanTypes, IndexerAssumption DEF Files
<1>3. Alive(disk, list[p].inode, p)
  BY <1>1, Zenon DEF Alive
<1>4. IndexedUpTo(list[p].file_index, disk[p], failures)
  BY <1>1, <1>2, <1>3 DEF Sound
<1>5. list[p].file_index.index_etag[1] = disk[p].size
  BY <1>1 DEF Etag
<1>6. \/ list[p].file_index.time_indexes = Complete(disk[p].log, disk[p].size)
      \/ failures > 0 /\ list[p].file_index.time_indexes = << >>
  <2>1. PICK s \in 0..disk[p].size :
            /\ disk[p].size <= s
            /\ \/ list[p].file_index.time_indexes = Complete(disk[p].log, s)
               \/ failures > 0 /\ list[p].file_index.time_indexes = << >>
    BY <1>4, <1>5 DEF IndexedUpTo
  <2>2. s = disk[p].size
    BY <1>2, <2>1
  <2> QED BY <2>1, <2>2
<1> QED BY <1>2, <1>6, BuildWhole DEF Good, Whole

(* An index that the scan thread believes to be that of the file on the     *)
(* disk has the entries of one reading of it, however the scan, the loading *)
(* of the saved list, rotations and crashes interleave (insert_or_update,   *)
(* load_index_from_cache, update_file_index).                               *)
THEOREM MatchingIsCurrentHolds == Spec => []MatchingIsCurrent
BY InvariantHolds, MatchingFollows, PTL
==============================================================================
