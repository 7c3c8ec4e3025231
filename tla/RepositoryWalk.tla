--------------------------- MODULE RepositoryWalk ---------------------------
(***************************************************************************)
(* The descriptor-confined repository operations of the tooling crate      *)
(* (crates/tooling/src/unix.rs): the tree listing, the literal search and  *)
(* the file read, one system call sequence at a time, on a disk that other *)
(* processes may change while the call runs.                               *)
(*                                                                         *)
(* The disk is a table of inodes, so a descriptor is an inode number and   *)
(* stays valid when a name is relinked.  An inode's `ver` stands for the   *)
(* size, mtime and ctime of RepositoryUnixFileIdentityV1: every change     *)
(* gives a new one (external: the file system's time stamps).  Encoded     *)
(* sizes are small numbers; what matters is which items a size includes.   *)
(***************************************************************************)
EXTENDS Integers, Sequences, FiniteSets, SequencesExt, FiniteSetsExt

CONSTANTS Disk0,       \* inode -> [kind, dev, ver, bytes, names]
          Changes,     \* what other processes may do: <<inode, new record>>
          Requests,    \* the operations a caller may ask for
          Bounds,      \* RepositoryToolBoundsV1
          MaxChanges   \* bound on concurrent changes

VARIABLES disk,        \* the file system
          call,        \* the running operation, or None
          stack,       \* directories being walked, innermost last
          pending,     \* an entry that was statted and is to be opened, or None
          acc,         \* what the walk has gathered
          status,      \* "idle", "walking", "ok" or "failed"
          seen         \* the disks there were during the call

vars == <<disk, call, stack, pending, acc, status, seen>>

Root == 1
None == [kind |-> "None"]
Kinds == {"Directory", "RegularFile", "Symlink", "Other"}

(* Mutant: an identity that ignores the time stamps of files. *)
IdentityOfInode(d, i) == <<i, IF d[i].kind = "Directory" THEN d[i].ver ELSE 0>>

(* descriptor_identity / identity: what a later stat is compared with. *)
Identity(d, i) == <<i, d[i].ver>>

SameDevice(d, i) == d[i].dev = d[Root].dev

(* openat(.., O_DIRECTORY | O_NOFOLLOW): the inodes an open can return (none *)
(* when the name is gone or is not a directory of the root's device).        *)
OpenChildDirectory(d, dir, name) ==
  {i \in DOMAIN d : /\ name \in DOMAIN d[dir].names
                    /\ d[dir].names[name] = i
                    /\ d[i].kind = "Directory"
                    /\ SameDevice(d, i)}

(* openat(.., O_NOFOLLOW) of a file: a symbolic link is refused, any other *)
(* node is opened and its kind looked at through the descriptor.           *)
OpenFile(d, dir, name) ==
  {i \in DOMAIN d : /\ name \in DOMAIN d[dir].names
                    /\ d[dir].names[name] = i
                    /\ d[i].kind = "RegularFile"}

(* open_directory: one O_NOFOLLOW open per component, from the root. *)
OpenDirectory(d, path) ==
  FoldLeft(LAMBDA dirs, name : UNION {OpenChildDirectory(d, i, name) : i \in dirs},
           {Root}, path)

OpenFilePath(d, path) ==
  IF path = <<>> THEN {}
  ELSE UNION {OpenFile(d, i, Last(path)) : i \in OpenDirectory(d, Front(path))}

(* The order of RepositoryRelativePathV1: component sequences, bytewise. *)
PathLess(p, q) ==
  \/ Len(p) < Len(q) /\ p = SubSeq(q, 1, Len(p))
  \/ \E k \in 1..Min({Len(p), Len(q)}) :
        p[k] < q[k] /\ SubSeq(p, 1, k - 1) = SubSeq(q, 1, k - 1)

PathBytes(path) == 2 * Len(path)

(* ensure_discovered_path_bound *)
PathInBounds(path) ==
  /\ Len(path) <= Bounds.path_components
  /\ PathBytes(path) <= Bounds.path_bytes

---------------------------------------------------------------------------
(* Canonical sizes: CanonicalResultBudget and canonical_len. *)

(* repository_tool_result_v2_preflight_size: the empty result with its *)
(* widest counters; a read's envelope also carries the path.            *)
PreflightSize(c) == IF c.kind = "Read" THEN 4 + Len(c.path) ELSE 3

(* read_file's empty result, with the real length for a counter. *)
FixedBytes(c) == 3 + Len(c.path)

EntrySize(e) == 1 + Len(e.path)
MatchSize(m) == 1 + Len(m.path)
ScanSize(s) == Len(s.path) + (IF s.truncated THEN 1 ELSE 2)

(* canonical_array_item_cost: a comma before every item but the first. *)
ItemCost(size, items) == size + (IF items > 0 THEN 1 ELSE 0)

Admits(used, cost) == used + cost <= Bounds.artifact_bytes

(* The accumulator of TreeWalker and of LiteralSearcher. *)
Empty(c) ==
  [entries |-> <<>>, matches |-> <<>>, scans |-> <<>>, bytes |-> <<>>,
   used |-> PreflightSize(c), scanned |-> 0, names |-> 0, directories |-> 0,
   skipped |-> 0, total |-> 0, length |-> 0, truncated |-> FALSE, stopped |-> FALSE]

---------------------------------------------------------------------------
(* The literal matcher: Knuth, Morris and Pratt. *)

(* One byte against the pattern, after `m` bytes matched: the inner `while`  *)
(* falls back along the table, then the byte extends the match if it fits.   *)
Extend(pattern, table, m, byte) ==
  LET fall[k \in 0..Len(pattern)] ==
        IF k > 0 /\ pattern[k + 1] # byte THEN fall[table[k]] ELSE k
      at == fall[m]
  IN IF byte = pattern[at + 1] THEN at + 1 ELSE at

(* literal_prefix_table: for every prefix the length of its longest border. *)
PrefixTable(pattern) ==
  LET table[k \in 1..Len(pattern)] ==
        IF k = 1 THEN 0 ELSE Extend(pattern, table, table[k - 1], pattern[k])
  IN [k \in 1..Len(pattern) |-> table[k]]

(* The offsets the loop of retain_literal_matches meets, in order; after a   *)
(* whole match it goes on from the pattern's border, so matches may overlap. *)
Offsets(c, bytes) ==
  LET whole == Len(c.pattern)
      matched[k \in 0..Len(bytes)] ==
        IF k = 0 THEN 0
        ELSE Extend(c.pattern, c.prefix,
                    IF matched[k - 1] = whole THEN c.prefix[whole] ELSE matched[k - 1],
                    bytes[k])
  IN [k \in 1..Cardinality({n \in 1..Len(bytes) : matched[n] = whole}) |->
        (CHOOSE n \in 1..Len(bytes) :
           /\ matched[n] = whole
           /\ Cardinality({o \in 1..n : matched[o] = whole}) = k) - whole]

(* retain_literal_matches: matches are kept until max_matches is reached, or *)
(* until the artifact has no room for one more, which stops the whole search. *)
RetainMatches(c, path, bytes, a) ==
  LET offsets == Offsets(c, bytes)
      wanted == Min({Len(offsets), c.max_matches - Len(a.matches)})
      found(k) == [path |-> path, byte_offset |-> offsets[k]]
      cost(k) == k * MatchSize(found(1)) + k - (IF a.matches = <<>> /\ k > 0 THEN 1 ELSE 0)
      kept == Max({k \in 0..wanted : k = 0 \/ Admits(a.used, cost(k))})
  IN [a EXCEPT !.matches = @ \o [k \in 1..kept |-> found(k)],
               !.used = @ + (IF kept = 0 THEN 0 ELSE cost(kept)),
               !.truncated = @ \/ kept < wanted, !.stopped = @ \/ kept < wanted]

---------------------------------------------------------------------------
Init ==
  /\ disk = Disk0
  /\ call = None /\ stack = <<>> /\ pending = None /\ acc = None
  /\ status = "idle" /\ seen = {}

Fail ==
  /\ status' = "failed" /\ stack' = <<>> /\ pending' = None
  /\ UNCHANGED acc

(* directory_names: the sorted listing, charged to the call's two scanning *)
(* ceilings; a component longer than its ceiling also fails the call.       *)
ListingAllowed(a, dir) ==
  /\ a.scanned + Cardinality(DOMAIN disk[dir].names) <= Bounds.entries_scanned
  /\ a.names + Cardinality(DOMAIN disk[dir].names) <= Bounds.name_bytes_scanned

Listing(dir) == SetToSortSeq(DOMAIN disk[dir].names, <)

(* The head of `walk`: nothing below the depth limit; otherwise the identity *)
(* is taken, then the names.  A change between the two is a change before    *)
(* the final identity, so one step stands for both.                          *)
Enter(dir, path, depth, a) ==
  IF depth >= call'.max_depth
  THEN UNCHANGED stack /\ acc' = a /\ pending' = None /\ status' = "walking"
  ELSE IF ~ListingAllowed(a, dir) THEN Fail
  ELSE /\ stack' = Append(stack, [dir |-> dir, path |-> path, depth |-> depth,
                                  before |-> Identity(disk, dir), names |-> Listing(dir)])
       /\ acc' = [a EXCEPT !.scanned = @ + Len(Listing(dir)),
                           !.names = @ + Len(Listing(dir)), !.directories = @ + 1]
       /\ pending' = None /\ status' = "walking"

(* execute_unix up to the first directory: the root must still be the one *)
(* the broker opened, the empty result must fit, the path must open.       *)
BeginWalk(c) ==
  /\ c.kind \in {"Tree", "Search"}
  /\ call' = [c EXCEPT !.root = Identity(disk, Root), !.prefix = PrefixTable(c.pattern)]
  /\ seen' = {disk}
  /\ IF \/ c.kind = "Search" /\ c.pattern = <<>>
        \/ PreflightSize(c) > Bounds.artifact_bytes
        \/ OpenDirectory(disk, c.path) = {}
     THEN status' = "failed" /\ acc' = Empty(c) /\ UNCHANGED <<stack, pending>>
     ELSE \E dir \in OpenDirectory(disk, c.path) : Enter(dir, c.path, 0, Empty(c))
  /\ UNCHANGED disk

Top == Last(stack)
RestOfTop == [stack EXCEPT ![Len(stack)].names = Tail(@)]

(* The `for name in names` loops stop when the result is cut. *)
MustLeave ==
  \/ Top.names = <<>>
  \/ acc.truncated /\ call.kind = "Tree"
  \/ acc.stopped

(* The tail of `walk`: the directory must have the identity it began with. *)
LeaveDirectory ==
  /\ status = "walking" /\ pending = None /\ stack # <<>> /\ MustLeave
  /\ IF Identity(disk, Top.dir) # Top.before THEN Fail
     ELSE stack' = Front(stack) /\ UNCHANGED <<acc, status, pending>>
  /\ UNCHANGED <<disk, call, seen>>

(* The end of execute_unix: the root's identity once more. *)
FinishWalk ==
  /\ status = "walking" /\ pending = None /\ stack = <<>>
  /\ status' = IF Identity(disk, Root) = call.root THEN "ok" ELSE "failed"
  /\ UNCHANGED <<disk, call, stack, pending, acc, seen>>

(* statat of the next name: it must still be there, on the root's device, *)
(* under a path within the bounds.                                         *)
Statted ==
  {i \in DOMAIN disk :
     /\ Head(Top.names) \in DOMAIN disk[Top.dir].names
     /\ disk[Top.dir].names[Head(Top.names)] = i
     /\ SameDevice(disk, i)
     /\ PathInBounds(Append(Top.path, Head(Top.names)))}

TreeItem(i) ==
  [path |-> Append(Top.path, Head(Top.names)), kind |-> disk[i].kind,
   byte_len |-> IF disk[i].kind = "RegularFile" THEN Len(disk[i].bytes) ELSE -1]

(* The body of TreeWalker::walk for one name. *)
TreeEntry ==
  /\ status = "walking" /\ pending = None /\ stack # <<>> /\ ~MustLeave
  /\ call.kind = "Tree"
  /\ IF Len(acc.entries) >= call.max_entries
     THEN acc' = [acc EXCEPT !.truncated = TRUE] /\ UNCHANGED <<stack, pending, status>>
     ELSE IF Statted = {} THEN Fail
     ELSE \E i \in Statted :
       LET cost == ItemCost(EntrySize(TreeItem(i)), Len(acc.entries))
           deeper == disk[i].kind = "Directory" /\ Top.depth + 1 < call.max_depth
       IN IF ~Admits(acc.used, cost)
          THEN acc' = [acc EXCEPT !.truncated = TRUE] /\ UNCHANGED <<stack, pending, status>>
          ELSE /\ acc' = [acc EXCEPT !.entries = Append(@, TreeItem(i)), !.used = @ + cost]
               /\ stack' = RestOfTop
               /\ pending' = IF deeper THEN [kind |-> "Directory", name |-> Head(Top.names),
                                             listed |-> Identity(disk, i)]
                             ELSE None
               /\ UNCHANGED status
  /\ UNCHANGED <<disk, call, seen>>

(* The body of LiteralSearcher::walk for one name. *)
SearchEntry ==
  /\ status = "walking" /\ pending = None /\ stack # <<>> /\ ~MustLeave
  /\ call.kind = "Search"
  /\ IF Statted = {} THEN Fail
     ELSE \E i \in Statted :
       /\ stack' = RestOfTop
       /\ pending' = IF \/ disk[i].kind = "RegularFile"
                        \/ disk[i].kind = "Directory" /\ Top.depth + 1 < call.max_depth
                     THEN [kind |-> disk[i].kind, name |-> Head(Top.names),
                           listed |-> Identity(disk, i), length |-> Len(disk[i].bytes)]
                     ELSE None
       /\ acc' = IF disk[i].kind \in {"Symlink", "Other"}
                 THEN [acc EXCEPT !.skipped = @ + 1] ELSE acc
       /\ UNCHANGED status
  /\ UNCHANGED <<disk, call, seen>>

(* open_child_directory and the comparison with what was statted. *)
OpenPendingDirectory ==
  /\ status = "walking" /\ pending.kind = "Directory"
  /\ UNCHANGED <<disk, call, seen>>
  /\ LET opened == {i \in OpenChildDirectory(disk, Top.dir, pending.name) :
                      Identity(disk, i) = pending.listed}
     IN IF opened = {} THEN Fail
        ELSE \E i \in opened :
               Enter(i, Append(Top.path, pending.name), Top.depth + 1, acc)

(* search_file up to the read: the file, byte and artifact ceilings. *)
ReadLimit ==
  Min({pending.length, call.max_bytes_per_file, call.max_total_bytes - acc.total})

PlannedScan ==
  [path |-> Append(Top.path, pending.name), bytes_scanned |-> ReadLimit,
   file_byte_len |-> pending.length, truncated |-> ReadLimit < pending.length]

SearchCut ==
  \/ Len(acc.scans) >= call.max_files
  \/ acc.total >= call.max_total_bytes
  \/ ~Admits(acc.used, ItemCost(ScanSize(PlannedScan), Len(acc.scans)))

CutSearch ==
  /\ status = "walking" /\ pending.kind = "RegularFile" /\ SearchCut
  /\ acc' = [acc EXCEPT !.truncated = TRUE, !.stopped = TRUE]
  /\ pending' = None
  /\ UNCHANGED <<disk, call, stack, status, seen>>

(* take(count).read_to_end from an offset: fewer bytes at the end of the file. *)
BytesAt(bytes, from, count) == SubSeq(bytes, from + 1, Min({Len(bytes), from + count}))

(* read_child_prefix: the file is opened anew by its name; what is open must *)
(* be the file that was statted, before and after the bytes were read.       *)
SearchFile ==
  /\ status = "walking" /\ pending.kind = "RegularFile" /\ ~SearchCut
  /\ LET opened == {i \in OpenFile(disk, Top.dir, pending.name) :
                      Identity(disk, i) = pending.listed}
     IN IF opened = {} THEN Fail
        ELSE \E i \in opened :
          LET bytes == BytesAt(disk[i].bytes, 0, ReadLimit)
              scan == [PlannedScan EXCEPT !.bytes_scanned = Len(bytes),
                                          !.truncated = Len(bytes) < pending.length]
              charged == [acc EXCEPT !.total = @ + Len(bytes), !.scans = Append(@, scan),
                            !.used = @ + ItemCost(ScanSize(scan), Len(acc.scans)),
                            !.truncated = @ \/ scan.truncated]
              searched == RetainMatches(call, scan.path, bytes, charged)
              full == \/ Len(searched.matches) >= call.max_matches
                      \/ searched.total >= call.max_total_bytes
          IN /\ acc' = [searched EXCEPT !.truncated = @ \/ full, !.stopped = @ \/ full]
             /\ pending' = None /\ UNCHANGED <<stack, status>>
  /\ UNCHANGED <<disk, call, seen>>

(* read_file: open, stat, and the range check; the bytes come in ReadBytes. *)
BeginRead(c) ==
  /\ c.kind = "Read"
  /\ call' = [c EXCEPT !.root = Identity(disk, Root)] /\ seen' = {disk}
  /\ LET opened == {i \in OpenFilePath(disk, c.path) :
                      /\ SameDevice(disk, i)
                      /\ c.offset_bytes <= Len(disk[i].bytes)}
     IN IF PreflightSize(c) > Bounds.artifact_bytes \/ opened = {}
        THEN status' = "failed" /\ acc' = Empty(c) /\ UNCHANGED pending
        ELSE \E i \in opened :
               /\ acc' = [Empty(c) EXCEPT !.length = Len(disk[i].bytes)]
               /\ pending' = [kind |-> "Read", inode |-> i, listed |-> Identity(disk, i)]
               /\ status' = "walking"
  /\ UNCHANGED <<disk, stack>>

(* The raw budget: what base64 leaves of the artifact's room. *)
RawBudget == 3 * ((Bounds.artifact_bytes - FixedBytes(call)) \div 4)

ReadBytes ==
  /\ status = "walking" /\ pending.kind = "Read"
  /\ IF Identity(disk, pending.inode) # pending.listed THEN Fail
     ELSE LET count == Min({acc.length - call.offset_bytes, call.max_bytes, RawBudget})
              bytes == BytesAt(disk[pending.inode].bytes, call.offset_bytes, count)
          IN /\ acc' = [acc EXCEPT !.bytes = bytes,
                           !.truncated = call.offset_bytes + Len(bytes) < acc.length]
             /\ pending' = None /\ UNCHANGED <<stack, status>>
  /\ UNCHANGED <<disk, call, seen>>

(* External: another process writes a file or relinks a name during a call. *)
Change ==
  /\ status = "walking" /\ Cardinality(seen) <= MaxChanges
  /\ \E ch \in Changes :
       disk' = [disk EXCEPT ![ch[1]] = [ch[2] EXCEPT !.ver = disk[ch[1]].ver + 1]]
  /\ seen' = seen \cup {disk'}
  /\ UNCHANGED <<call, stack, pending, acc, status>>

Step ==
  \/ LeaveDirectory \/ FinishWalk \/ TreeEntry \/ SearchEntry
  \/ OpenPendingDirectory \/ CutSearch \/ SearchFile \/ ReadBytes

Next ==
  \/ status = "idle" /\ \E c \in Requests : BeginWalk(c) \/ BeginRead(c)
  \/ Step
  \/ Change

Spec == Init /\ [][Next]_vars
---------------------------------------------------------------------------
(* broker.rs, result_is_coherent: what the broker demands of a result before *)
(* it calls the operation a success.                                         *)

HasPrefixWithDepth(path, prefix, depth) ==
  /\ Len(path) > Len(prefix) /\ SubSeq(path, 1, Len(prefix)) = prefix
  /\ Len(path) - Len(prefix) <= depth

Ascending(items, Less(_, _)) ==
  \A k \in 1..(Len(items) - 1) : Less(items[k], items[k + 1])

ScannedWithinBounds(a) ==
  /\ a.scanned <= Bounds.entries_scanned
  /\ a.names <= Bounds.name_bytes_scanned

TreeCoherent(c, a) ==
  /\ Len(a.entries) <= c.max_entries
  /\ ScannedWithinBounds(a)
  /\ Ascending(a.entries, LAMBDA x, y : PathLess(x.path, y.path))
  /\ \A e \in Range(a.entries) :
       /\ HasPrefixWithDepth(e.path, c.path, c.max_depth)
       /\ (e.kind = "RegularFile") = (e.byte_len >= 0)

ReadCoherent(c, a) ==
  /\ c.offset_bytes <= a.length
  /\ Len(a.bytes) <= c.max_bytes
  /\ c.offset_bytes + Len(a.bytes) <= a.length
  /\ a.truncated = (c.offset_bytes + Len(a.bytes) < a.length)

MatchLess(x, y) ==
  \/ PathLess(x.path, y.path)
  \/ x.path = y.path /\ x.byte_offset < y.byte_offset

SearchCoherent(c, a) ==
  /\ Len(a.scans) <= c.max_files /\ Len(a.matches) <= c.max_matches
  /\ a.total = FoldLeft(LAMBDA sum, s : sum + s.bytes_scanned, 0, a.scans)
  /\ a.total <= c.max_total_bytes
  /\ ScannedWithinBounds(a)
  /\ Ascending(a.scans, LAMBDA x, y : PathLess(x.path, y.path))
  /\ \A s \in Range(a.scans) :
       /\ HasPrefixWithDepth(s.path, c.path, c.max_depth)
       /\ s.bytes_scanned <= c.max_bytes_per_file
       /\ s.bytes_scanned <= s.file_byte_len
       /\ s.truncated = (s.bytes_scanned < s.file_byte_len)
  /\ Ascending(a.matches, MatchLess)
  /\ \A m \in Range(a.matches) : \E s \in Range(a.scans) :
       s.path = m.path /\ m.byte_offset + Len(c.pattern) <= s.bytes_scanned

ResultIsCoherent(c, a) ==
  CASE c.kind = "Tree" -> TreeCoherent(c, a)
    [] c.kind = "Read" -> ReadCoherent(c, a)
    [] c.kind = "Search" -> SearchCoherent(c, a)

---------------------------------------------------------------------------
TypeOK ==
  /\ status \in {"idle", "walking", "ok", "failed"}
  /\ \A f \in Range(stack) : f.dir \in DOMAIN disk /\ f.depth < call.max_depth
  /\ acc = None \/ acc.used <= Bounds.artifact_bytes \/ status = "failed"
  /\ pending.kind \in {"None", "Directory", "RegularFile", "Read"}
  /\ disk \in seen \/ status = "idle"
  /\ \A d \in seen : DOMAIN d = DOMAIN Disk0

(* A success is coherent whatever other processes did meanwhile: the broker  *)
(* never has to turn a finished observation into BrokerStateUnavailable.     *)
SuccessIsCoherent == status = "ok" => ResultIsCoherent(call, acc)

(* The encoded size of a result, counted from what it contains. *)
Sizes(Size(_), items) ==
  FoldLeft(LAMBDA sum, x : sum + Size(x), 0, items) + Max({0, Len(items) - 1})
EncodedSize(c, a) ==
  IF c.kind = "Read" THEN FixedBytes(c) + 4 * ((Len(a.bytes) + 2) \div 3)
  ELSE PreflightSize(c) + Sizes(EntrySize, a.entries)
                        + Sizes(MatchSize, a.matches) + Sizes(ScanSize, a.scans)

(* A success always fits the artifact ceiling: the walkers cut the result    *)
(* while they gather it, so it is never thrown away when it is encoded.      *)
SuccessFitsArtifact == status = "ok" => EncodedSize(call, acc) <= Bounds.artifact_bytes

(* Where a path leads on a disk, without following a symbolic link: {} or a *)
(* set of one inode.                                                        *)
Resolve(d, path) ==
  IF path = <<>> THEN {Root}
  ELSE {i \in DOMAIN d : \E dir \in OpenDirectory(d, Front(path)) :
          Last(path) \in DOMAIN d[dir].names /\ d[dir].names[Last(path)] = i}

(* The paths a walk of depth `depth` below `base` can reach, and the places  *)
(* where a pattern occurs: the definitions the walkers are held against.     *)
RECURSIVE Below(_, _, _)
Below(d, base, depth) ==
  IF depth = 0 THEN {}
  ELSE UNION {UNION {{Append(base, n)} \cup Below(d, Append(base, n), depth - 1) :
                       n \in DOMAIN d[dir].names} : dir \in OpenDirectory(d, base)}

Occurrences(bytes, pattern) ==
  {k \in 0..(Len(bytes) - Len(pattern)) : SubSeq(bytes, k + 1, k + Len(pattern)) = pattern}

Undisturbed == status = "ok" /\ Cardinality(seen) = 1

(* On a quiet disk a tree is the first entries of the sorted tree below the  *)
(* path, and `truncated` says exactly whether any was left out.              *)
QuietTreeIsExact ==
  (Undisturbed /\ call.kind = "Tree") =>
    LET all == Below(disk, call.path, call.max_depth)
        got == {e.path : e \in Range(acc.entries)}
    IN /\ got \subseteq all
       /\ \A p \in all \ got : \A q \in got : PathLess(q, p)
       /\ acc.truncated = (got # all)

(* On a quiet disk a search that does not say it is truncated found every    *)
(* occurrence in every regular file within the depth, overlapping ones too.  *)
QuietSearchIsComplete ==
  (Undisturbed /\ call.kind = "Search" /\ ~acc.truncated) =>
    LET files == {p \in Below(disk, call.path, call.max_depth) :
                    \E i \in Resolve(disk, p) : disk[i].kind = "RegularFile"}
    IN {<<m.path, m.byte_offset>> : m \in Range(acc.matches)} =
         UNION {{<<p, k>> : k \in UNION {Occurrences(disk[i].bytes, call.pattern) :
                                            i \in Resolve(disk, p)}} : p \in files}

(* What a successful tree says of one directory (its names and their kinds)  *)
(* was true of that directory at one moment of the call: no listing mixes    *)
(* two states of a directory.                                                *)
ListingsAreConsistent ==
  (status = "ok" /\ call.kind = "Tree" /\ ~acc.truncated) =>
    \A p \in {call.path} \cup {e.path : e \in {x \in Range(acc.entries) :
                /\ x.kind = "Directory"
                /\ Len(x.path) - Len(call.path) < call.max_depth}} :
      call.max_depth = 0 \/
      \E d \in seen : \E i \in Resolve(d, p) :
        {<<n, d[d[i].names[n]].kind>> : n \in DOMAIN d[i].names} =
          {<<Last(e.path), e.kind>> : e \in {x \in Range(acc.entries) : Front(x.path) = p}}

(* What a successful search says of one file (its length and every match in  *)
(* the bytes it scanned) was true of that file at one moment of the call.    *)
ScansAreConsistent ==
  (status = "ok" /\ call.kind = "Search") =>
    \A s \in Range(acc.scans) : \E d \in seen : \E i \in Resolve(d, s.path) :
      /\ d[i].kind = "RegularFile" /\ Len(d[i].bytes) = s.file_byte_len
      /\ LET found == {m.byte_offset : m \in {x \in Range(acc.matches) : x.path = s.path}}
             there == Occurrences(BytesAt(d[i].bytes, 0, s.bytes_scanned), call.pattern)
         IN /\ found \subseteq there
            /\ acc.truncated \/ found = there

(* A successful read returns bytes the file had, from one version of it. *)
ReadIsOneVersion ==
  (status = "ok" /\ call.kind = "Read") =>
    \E d \in seen : \E i \in Resolve(d, call.path) :
      /\ Len(d[i].bytes) = acc.length
      /\ acc.bytes = BytesAt(d[i].bytes, call.offset_bytes, Len(acc.bytes))

(* A successful observation can be believed, whatever other processes do     *)
(* meanwhile: it is coherent and fits its artifact, each listing, scan and   *)
(* read is of one moment, and on a quiet disk nothing is missed.             *)
ObservationsAreTrue ==
  /\ TypeOK /\ SuccessIsCoherent /\ SuccessFitsArtifact
  /\ ListingsAreConsistent /\ ScansAreConsistent /\ ReadIsOneVersion
  /\ QuietTreeIsExact /\ QuietSearchIsComplete
=============================================================================

