----------------------------- MODULE FileIndexer -----------------------------
(***************************************************************************)
(* The agent's list of files (FileIndexer in src/agent/indexer.cpp): the   *)
(* thread that scans the directories, brings the indexes up to date, drops *)
(* those of deleted files and saves the list, against programs that        *)
(* append to, rotate, delete and rewrite the logs, and against crashes of  *)
(* the agent, which comes back with the saved list.                        *)
(*                                                                         *)
(* Every file has its own content (log), which no other file and no later  *)
(* rewriting of it has.  Its lines are timed and each has a bucket of its  *)
(* own: the index of one file in detail is in IndexBuilder.  Its inode is a *)
(* number no file had before, or that of a deleted one, taken again.       *)
(***************************************************************************)
EXTENDS Integers, Sequences, FiniteSets

CONSTANTS
    Paths,          \* the paths below the roots that the patterns match
    Rotations,      \* pairs of paths: a log and the name it is rotated to
    MaxSize, MaxChanges, MaxCrashes, MaxFailures,  \* bounds
    MaxRewrites,    \* bound on rewriting in place and on inodes used again
    NoFile, NoInfo, NoIndex, NoCache               \* nothing at a place

ASSUME IndexerAssumption ==
    /\ Rotations \subseteq Paths \X Paths /\ IsFiniteSet(Paths)
    /\ MaxSize \in Nat \ {0} /\ MaxChanges \in Nat /\ MaxRewrites \in Nat
    /\ MaxCrashes \in Nat /\ MaxFailures \in Nat

(* A rotated log does not get its old name back.                            *)
ASSUME RotationAssumption ==
    \E rank \in [Paths -> 0..Cardinality(Paths)] :
        \A r \in Rotations : rank[r[1]] < rank[r[2]]

VARIABLES
    disk,      \* the files
    second,    \* the latest modification time
    changes,   \* how often the disk has changed
    rewrites,  \* how often a log was rewritten in place or an inode used again
    list,      \* index_
    cache,     \* .index_cache.json
    scanner,   \* the scan thread; "down" when the agent is not running
    crashes, failures

vars == <<disk, second, changes, rewrites, list, cache, scanner, crashes, failures>>

Files == [inode: 1..MaxChanges, log: 1..MaxChanges, size: 0..MaxSize,
          mtime: 0..MaxChanges, rewritten: BOOLEAN]

(* The etag of a file is a hash of its size and modification time.          *)
Etag(f) == <<f.size, f.mtime>>

Entries == [log: 1..MaxChanges, offset: 0..MaxSize - 1]
Indexes == [index_etag: (0..MaxSize) \X (0..MaxChanges), time_indexes: Seq(Entries)]
Infos == [inode: 1..MaxChanges, size: 0..MaxSize, mtime: 0..MaxChanges,
          file_index: Indexes \cup {NoIndex}]
Lists == [Paths -> Infos \cup {NoInfo}]

(* The thread's place in its loop, the paths it still has to look at, the    *)
(* path and inode it looks at, updated_index_count_ > 0, the list it saves. *)
Scanners ==
    [pc: {"down", "scan", "insert", "load", "update", "remove", "save", "rename", "sleep"},
     starting: BOOLEAN, todo: SUBSET Paths, path: Paths \cup {NoFile}, inode: 0..MaxChanges,
     updated: BOOLEAN, snapshot: Lists \cup {NoCache}]
Down == [pc |-> "down", starting |-> FALSE, todo |-> {}, path |-> NoFile, inode |-> 0,
         updated |-> FALSE, snapshot |-> NoCache]

TypeOK ==
    /\ disk \in [Paths -> Files \cup {NoFile}]
    /\ second \in 0..MaxChanges /\ changes \in 0..MaxChanges
    /\ rewrites \in 0..MaxRewrites
    /\ list \in Lists /\ cache \in Lists \cup {NoCache} /\ scanner \in Scanners
    /\ crashes \in 0..MaxCrashes /\ failures \in 0..MaxFailures

Nothing == [p \in Paths |-> NoInfo]

Init ==
    /\ disk = [p \in Paths |-> NoFile] /\ second = 0 /\ changes = 0 /\ rewrites = 0
    /\ list = Nothing /\ cache = NoCache /\ scanner = Down
    /\ crashes = 0 /\ failures = 0

Exists(p) == disk[p] # NoFile
Listed == {p \in Paths : list[p] # NoInfo}

-----------------------------------------------------------------------------
(* The programs that write the logs.  A write may fall in the second of the *)
(* one before.                                                              *)
Write(now) ==
    /\ changes < MaxChanges /\ changes' = changes + 1
    /\ now \in {second, second + 1} /\ second' = now
    /\ UNCHANGED <<list, cache, scanner, crashes, failures>>

(* A new file is first seen empty or with a line.                          *)
NewSizes == {0, 1}

Create(p, inode, size, now) ==
    /\ Write(now) /\ ~Exists(p)
    /\ \A q \in Paths : Exists(q) => disk[q].inode # inode
    /\ rewrites' = rewrites + (IF inode = changes + 1 THEN 0 ELSE 1)
    /\ rewrites' <= MaxRewrites
    /\ disk' = [disk EXCEPT ![p] = [inode |-> inode, log |-> changes + 1, size |-> size,
                                    mtime |-> now, rewritten |-> inode # changes + 1]]

AppendTo(p, now) ==
    /\ Write(now) /\ Exists(p) /\ disk[p].size < MaxSize
    /\ disk' = [disk EXCEPT ![p].size = @ + 1, ![p].mtime = now]
    /\ UNCHANGED rewrites

Rotate(p, q) ==
    /\ Write(second) /\ <<p, q>> \in Rotations /\ Exists(p)
    /\ disk' = [disk EXCEPT ![p] = NoFile, ![q] = disk[p]]
    /\ UNCHANGED rewrites

Delete(p) ==
    /\ Write(second) /\ Exists(p)
    /\ disk' = [disk EXCEPT ![p] = NoFile]
    /\ UNCHANGED rewrites

Rewrite(p, size) ==
    /\ Write(second + 1) /\ Exists(p)
    /\ rewrites < MaxRewrites /\ rewrites' = rewrites + 1
    /\ disk' = [disk EXCEPT ![p].log = changes + 1, ![p].size = size, ![p].mtime = second + 1,
                            ![p].rewritten = TRUE]

-----------------------------------------------------------------------------
(* The scan thread.                                                         *)

Step(pc) == scanner.pc = pc
Disturbed == <<disk, second, changes, rewrites, crashes>>
Work(next) == scanner' = next /\ UNCHANGED Disturbed

(* main: init_indexes begins with an empty list.                            *)
Start ==
    /\ Step("down")
    /\ Work([Down EXCEPT !.pc = "scan", !.starting = TRUE, !.todo = Paths])
    /\ UNCHANGED <<list, cache, failures>>

(* scan_root: the files come in any order, and the inode of each is read    *)
(* before its size and modification time.                                   *)
ScanStat(p) ==
    /\ Step("scan") /\ p \in scanner.todo
    /\ Work(IF Exists(p)
            THEN [scanner EXCEPT !.pc = "insert", !.todo = @ \ {p}, !.path = p,
                                 !.inode = disk[p].inode]
            ELSE [scanner EXCEPT !.todo = @ \ {p}])
    /\ UNCHANGED <<list, cache, failures>>

Info(inode, f, file_index) ==
    [inode |-> inode, size |-> f.size, mtime |-> f.mtime, file_index |-> file_index]

(* Mistake: a file is known by its path only.                               *)
ScannedByPath(old, inode, f) ==
    IF old = NoInfo THEN Info(inode, f, NoIndex)
    ELSE IF <<f.size, f.mtime>> # <<old.size, old.mtime>>
         THEN Info(inode, f, old.file_index)
         ELSE old

(* A new file begins without an index, a changed one keeps what it has.     *)
Scanned(old, inode, f) ==
    IF old = NoInfo \/ (old # NoInfo /\ old.inode # inode) THEN Info(inode, f, NoIndex)
    ELSE IF <<f.size, f.mtime>> # <<old.size, old.mtime>>
         THEN Info(inode, f, old.file_index)
         ELSE old

(* A file that has gone in between is an exception and is skipped.          *)
ScanInsert ==
    /\ Step("insert")
    /\ LET p == scanner.path
       IN list' = IF Exists(p)
                  THEN [list EXCEPT ![p] = Scanned(@, scanner.inode, disk[p])]
                  ELSE list
    /\ Work([scanner EXCEPT !.pc = "scan", !.path = NoFile, !.inode = 0])
    /\ UNCHANGED <<cache, failures>>

ScanEnd ==
    /\ Step("scan") /\ scanner.todo = {}
    /\ Work(IF scanner.starting
            THEN [scanner EXCEPT !.pc = "load"]
            ELSE [scanner EXCEPT !.pc = "update", !.todo = Listed, !.updated = FALSE])
    /\ UNCHANGED <<list, cache, failures>>

(* load_index_from_cache: the cached entries of the files just found        *)
(* replace the list; a file that is not cached is left to the next scan.    *)
Load ==
    /\ Step("load")
    /\ list' = IF cache = NoCache THEN list
               ELSE [p \in Paths |-> IF p \in Listed THEN cache[p] ELSE NoInfo]
    /\ Work([scanner EXCEPT !.pc = "update", !.updated = FALSE,
                            !.todo = {p \in Paths : list'[p] # NoInfo}])
    /\ UNCHANGED <<cache, failures>>

(* The entry of every line from an offset on.                               *)
EntriesFrom(f, offset) ==
    [i \in 1..f.size - offset |-> [log |-> f.log, offset |-> offset + i - 1]]

(* Mistake: the closing entry lies behind the last line.                    *)
BuildClosedLate(old, f) ==
    IF f.size = 0 THEN << >>
    ELSE Append(EntriesFrom(f, 0), [log |-> f.log, offset |-> f.size])

(* The index made of a file as it is now: on from the last entry of the old *)
(* index if the file reaches it (the bucket of the line there may have an   *)
(* entry already), closed by the last line.  An empty file cannot be mapped.*)
Build(old, f) ==
    LET resumed == Len(old) > 1 /\ old[Len(old)].offset < f.size
        kept == IF resumed THEN SubSeq(old, 1, Len(old) - 1) ELSE << >>
        from == IF resumed THEN old[Len(old)].offset ELSE 0
        known == [log |-> f.log, offset |-> from] \in {kept[i] : i \in DOMAIN kept}
    IN IF f.size = 0 THEN << >>
       ELSE Append(kept \o EntriesFrom(f, IF known THEN from + 1 ELSE from),
                   [log |-> f.log, offset |-> f.size - 1])

OldEntries(info) == IF info.file_index = NoIndex THEN << >> ELSE info.file_index.time_indexes

(* Mistake: a file is indexed once.                                         *)
NeedsIndexOnce(info) == info.file_index = NoIndex

NeedsIndex(info) ==
    info.file_index = NoIndex \/ (info.file_index # NoIndex /\ info.file_index.index_etag # Etag(info))

(* update_file_index, one file.  The file is read as it is now, the etag is *)
(* the one of the scan.  If it cannot be opened the index is empty and the  *)
(* etag is set all the same.                                                *)
UpdateFile(p) ==
    /\ Step("update") /\ p \in scanner.todo
    /\ UNCHANGED cache
    /\ \/ /\ ~NeedsIndex(list[p])
          /\ Work([scanner EXCEPT !.todo = @ \ {p}])
          /\ UNCHANGED <<list, failures>>
       \/ /\ NeedsIndex(list[p])
          /\ Work([scanner EXCEPT !.todo = @ \ {p}, !.updated = TRUE])
          /\ \E fails \in BOOLEAN :
               /\ failures' = failures + (IF fails THEN 1 ELSE 0)
               /\ failures' <= MaxFailures
               /\ list' = [list EXCEPT ![p].file_index =
                    [index_etag |-> Etag(list[p]),
                     time_indexes |-> IF fails \/ ~Exists(p) THEN << >>
                                      ELSE Build(OldEntries(list[p]), disk[p])]]

UpdateEnd ==
    /\ Step("update") /\ scanner.todo = {}
    /\ Work([scanner EXCEPT !.pc = "remove"])
    /\ UNCHANGED <<list, cache, failures>>

(* remove_unused_indexes                                                    *)
Remove ==
    /\ Step("remove")
    /\ list' = [p \in Paths |->
                  IF list[p] # NoInfo /\ OldEntries(list[p]) # << >> /\ ~Exists(p)
                  THEN NoInfo ELSE list[p]]
    /\ Work([scanner EXCEPT !.pc = "save"])
    /\ UNCHANGED <<cache, failures>>

(* save_index_to_cache writes a copy of the list beside the cache ...       *)
Save ==
    /\ Step("save")
    /\ Work(IF scanner.updated THEN [scanner EXCEPT !.pc = "rename", !.snapshot = list]
                               ELSE [scanner EXCEPT !.pc = "sleep"])
    /\ UNCHANGED <<list, cache, failures>>

(* ... and puts it in its place.                                            *)
RenameCache ==
    /\ Step("rename")
    /\ cache' = scanner.snapshot
    /\ Work([scanner EXCEPT !.pc = "sleep", !.snapshot = NoCache])
    /\ UNCHANGED <<list, failures>>

(* scan_loop: every later round scans without the cache.                    *)
Wake ==
    /\ Step("sleep")
    /\ Work([Down EXCEPT !.pc = "scan", !.todo = Paths])
    /\ UNCHANGED <<list, cache, failures>>

(* The agent ends; its list is lost, the cache stays.                       *)
Crash ==
    /\ ~Step("down") /\ crashes < MaxCrashes
    /\ crashes' = crashes + 1 /\ scanner' = Down /\ list' = Nothing
    /\ UNCHANGED <<disk, second, changes, rewrites, cache, failures>>

-----------------------------------------------------------------------------
Scan ==
    \/ \E p \in Paths : ScanStat(p) \/ UpdateFile(p)
    \/ ScanInsert \/ ScanEnd \/ Load \/ UpdateEnd \/ Remove \/ Save \/ RenameCache \/ Wake

Environment ==
    \/ \E now \in {second, second + 1}, p \in Paths, size \in NewSizes, inode \in 1..changes + 1 :
            Create(p, inode, size, now)
    \/ \E now \in {second, second + 1}, p \in Paths : AppendTo(p, now)
    \/ \E p, q \in Paths : Rotate(p, q)
    \/ \E p \in Paths : Delete(p)
    \/ \E p \in Paths, size \in 0..MaxSize : Rewrite(p, size)

Next == Start \/ Scan \/ Crash \/ Environment

Spec == Init /\ [][Next]_vars

(* A running agent's scan thread goes on; nobody has to start it.           *)
FairSpec == Spec /\ WF_vars(Scan)

-----------------------------------------------------------------------------
(* Properties.                                                              *)

(* The list knows the file there is now, and has an index for it.           *)
Matches(p) ==
    /\ list[p] # NoInfo /\ Exists(p)
    /\ <<list[p].inode, list[p].size, list[p].mtime>>
           = <<disk[p].inode, disk[p].size, disk[p].mtime>>
    /\ ~NeedsIndex(list[p])

(* The index one reading of the file gives; where opening files may fail,   *)
(* the empty one that is left behind by a failure.                          *)
Whole(f) == {Build(<< >>, f)}
Good(f) == Whole(f) \cup (IF failures > 0 THEN {<< >>} ELSE {})

(* An index the scan thread will not make again, because the inode, size    *)
(* and modification time on the disk are the ones it was made for, has the  *)
(* entries of one reading of that file: neither what changed while it was   *)
(* made, nor a file that had the name before, nor a restart from the saved  *)
(* list has left entries of anything else or kept one out.  Logs that were  *)
(* rewritten in place, or have a deleted file's inode, are another matter,  *)
(* see AllMatchingAreCurrent.                                               *)
MatchingIsCurrent ==
    \A p \in Paths : Matches(p) /\ ~disk[p].rewritten =>
        list[p].file_index.time_indexes \in Good(disk[p])

(* What the agent does about the changes of the disk is enough: when they   *)
(* have ended and it stays up, every file gets the index it should have and *)
(* no entries are kept for files that are gone.                             *)
IsIndexed(p) ==
    IF Exists(p) THEN disk[p].rewritten \/ (list[p] # NoInfo /\ OldEntries(list[p]) \in Good(disk[p]))
    ELSE list[p] # NoInfo => OldEntries(list[p]) = << >>
IndexConverges == <>[](scanner.pc # "down") => <>[](\A p \in Paths : IsIndexed(p))

(* What the search page says, "Finds all lines", needs of every log: an     *)
(* index believed to be that of the file is.                                *)
AllMatchingAreCurrent ==
    \A p \in Paths : Matches(p) => list[p].file_index.time_indexes \in Good(disk[p])
==============================================================================
