--------------------------------- MODULE Fat ---------------------------------
(***************************************************************************)
(* The FAT file system (src/kernel/fat.cpp) as the system calls OpenFile,  *)
(* ReadFile and PutString, the terminal's redirection and the page faults  *)
(* of mapped files use it: the file allocation table, the entries of the   *)
(* root directory, the clusters' bytes and the file descriptors' positions.*)
(* An operation is one step: two of them that interleave are not modelled. *)
(***************************************************************************)
EXTENDS Integers, Sequences, FiniteSets, SequencesExt, FiniteSetsExt

CONSTANTS
  NumClusters,     \* clusters of the volume
  BytesPerCluster,
  EntriesPerCluster,
  Names,           \* 8+3 names
  Fds,
  NoFile,
  MaxLen,          \* the longest read or write
  MaxSize,         \* bound on the size of a file
  Mixed            \* whether a file may be read while it is open for writing

FirstCluster == 2
RootCluster == FirstCluster
Cluster == FirstCluster .. FirstCluster + NumClusters - 1
kEndOfClusterchain == 268435455 \* 0x0fffffff

ASSUME FatAssumption ==
  /\ NumClusters \in Nat \ {0} /\ BytesPerCluster \in Nat \ {0} /\ EntriesPerCluster \in Nat \ {0}
  /\ MaxLen \in Nat /\ MaxSize \in Nat /\ Mixed \in BOOLEAN
  \* 2 sectors of 512 bytes a cluster, and the callers write at most 1024 bytes at a time
  /\ MaxLen <= BytesPerCluster
  \* numbers of clusters have 28 bits, and no file is called like a free entry
  /\ FirstCluster + NumClusters <= kEndOfClusterchain /\ "" \notin Names

VARIABLES
  fat,   \* the table: 0 is free
  bytes, \* what a cluster holds
  dir,   \* the directory entries of a cluster
  fds,   \* the FileDescriptor objects
  out    \* what a read returned, until the next step; "wild" is a byte outside the volume's clusters

fatVars == <<fat, bytes, dir, fds, out>>

NoEntry == [name |-> "", first |-> 0, size |-> 0]

\* The byte a descriptor writes at an offset.
Byte(fd, i) == <<fd, i>>

\* The volume as it was made: an empty root directory.
FatInit ==
  /\ fat = [c \in Cluster |-> IF c = RootCluster THEN kEndOfClusterchain ELSE 0]
  /\ bytes = [c \in Cluster |-> [i \in 0 .. BytesPerCluster - 1 |-> <<>>]]
  /\ dir = [c \in Cluster |-> [i \in 0 .. EntriesPerCluster - 1 |-> NoEntry]]
  /\ fds = [fd \in Fds |-> NoFile]
  /\ out = << >>

-----------------------------------------------------------------------------
(* Clusters *)

\* F(x), with x evaluated once.
Let(x, F(_)) == CHOOSE y \in {F(z) : z \in {x}} : TRUE

\* The cluster chain that starts at c, at most as long as the table is; none at 0.
Chain(f, c) ==
  LET next == [x \in Cluster \cup {0, kEndOfClusterchain} |->
                 IF x \in Cluster THEN f[x] ELSE kEndOfClusterchain]
      at[n \in 1..NumClusters] == IF n = 1 THEN c ELSE next[at[n - 1]]
  IN  Let([n \in 1..NumClusters |-> at[n]], LAMBDA s :
        SubSeq(s, 1, Cardinality({n \in 1..NumClusters : s[n] \in Cluster})))

\* The n free clusters with the lowest numbers, in order.
FreeClusters(f, n) ==
  LET free == {c \in Cluster : f[c] = 0} IN
  [i \in 1..n |-> CHOOSE c \in free : Cardinality({x \in free : x < c}) = i - 1]

NumFree(f) == Cardinality({c \in Cluster : f[c] = 0})

\* Faulty variant: the new end of the chain is not marked.
ExtendOpenEnd(f, eoc_cluster, n) ==
  LET links == <<Last(Chain(f, eoc_cluster))>> \o FreeClusters(f, n)
  IN  [fat  |-> [c \in Cluster |->
                   IF \E i \in 1..n : links[i] = c
                   THEN links[(CHOOSE i \in 1..n : links[i] = c) + 1] ELSE f[c]],
       last |-> Last(links)]

ExtendCluster(f, eoc_cluster, n) ==
  LET links == <<Last(Chain(f, eoc_cluster))>> \o FreeClusters(f, n)
      next[c \in Cluster] ==
        IF c = Last(links) THEN kEndOfClusterchain
        ELSE IF \E i \in 1..n : links[i] = c
        THEN links[(CHOOSE i \in 1..n : links[i] = c) + 1]
        ELSE f[c]
  IN  [fat |-> next, last |-> Last(links)]

AllocateClusterChain(f, n) ==
  LET first == FreeClusters(f, 1)[1]
      f1    == [f EXCEPT ![first] = kEndOfClusterchain]
  IN  [fat |-> IF n > 1 THEN ExtendCluster(f1, first, n - 1).fat ELSE f1, first |-> first]

\* Faulty variant: the last cluster, which is not full, is not counted.
WholeClusters(n) == n \div BytesPerCluster

NumCluster(n) == (n + BytesPerCluster - 1) \div BytesPerCluster

-----------------------------------------------------------------------------
(* The directory *)

Entry(p) == dir[p[1]][p[2]]
SetEntry(p, e) == dir' = [dir EXCEPT ![p[1]][p[2]] = e]

\* The n places of a chain's clusters, in order: its directory entries or its bytes.
Places(clusters, n) ==
  Let(clusters, LAMBDA chain :
    [i \in 1 .. Len(chain) * n |-> <<chain[(i - 1) \div n + 1], (i - 1) % n>>])

Entries == Places(Chain(fat, RootCluster), EntriesPerCluster)

\* The first of the places whose entry has this name, if there is one.
FirstNamed(places, n) ==
  Let(places, LAMBDA ps :
    {ps[i] : i \in {j \in DOMAIN ps : /\ Entry(ps[j]).name = n
                                     /\ \A k \in 1 .. j - 1 : Entry(ps[k]).name # n}})

\* Faulty variant: only the directory's first cluster is searched.
FindInFirstCluster(n) == FirstNamed(Places(<<RootCluster>>, EntriesPerCluster), n)

\* No file is ever deleted, so that the entries in use come before the free ones, whose name
\* is "".
FindFile(n) == FirstNamed(Entries, n)

Opened(fd, p, mode) ==
  fds' = [fds EXCEPT ![fd] = [entry |-> p, mode |-> mode,
            rd_off |-> 0, rd_cluster |-> 0, rd_cluster_off |-> 0,
            wr_off |-> 0, wr_cluster |-> 0, wr_cluster_off |-> 0]]

UsersOf(p) == {fd \in Fds : fds[fd] # NoFile /\ fds[fd].entry = p}

\* OpenFile for a file that exists.
OpenFile(fd, n, mode) ==
  /\ fds[fd] = NoFile
  /\ \E p \in FindFile(n) :
       /\ Mixed \/ \A other \in UsersOf(p) : fds[other].mode = mode
       /\ Opened(fd, p, mode)
  /\ out' = << >> /\ UNCHANGED <<fat, bytes, dir>>

\* AllocateEntry: a free entry, or the first one of a new, cleared cluster.
CreateFile(fd, n) ==
  /\ fds[fd] = NoFile
  /\ FindFile(n) = {}
  /\ LET new == [name |-> n, first |-> 0, size |-> 0] IN
     \/ \E p \in FindFile("") :
          /\ SetEntry(p, new) /\ Opened(fd, p, "w")
          /\ UNCHANGED fat
     \/ /\ FindFile("") = {} /\ NumFree(fat) > 0
        /\ LET x == ExtendCluster(fat, RootCluster, 1) IN
           /\ fat' = x.fat
           /\ dir' = [dir EXCEPT ![x.last] =
                        [i \in 0 .. EntriesPerCluster - 1 |-> IF i = 0 THEN new ELSE NoEntry]]
           /\ Opened(fd, <<x.last, 0>>, "w")
  /\ out' = << >> /\ UNCHANGED bytes

\* The task's descriptors go with it.
Close(fd) ==
  /\ fds[fd] # NoFile
  /\ fds' = [fds EXCEPT ![fd] = NoFile]
  /\ out' = << >> /\ UNCHANGED <<fat, bytes, dir>>

-----------------------------------------------------------------------------
(* Reading and writing *)

\* One byte of the loop of Read; the next cluster is looked up as soon as one is used up.
ReadByte(r) ==
  LET off  == r.off + 1
      byte == IF r.cluster \in Cluster THEN bytes[r.cluster][r.off] ELSE "wild"
  IN  [out     |-> Append(r.out, byte),
       off     |-> IF off = BytesPerCluster THEN 0 ELSE off,
       cluster |-> IF off = BytesPerCluster
                   THEN IF r.cluster \in Cluster THEN fat[r.cluster] ELSE kEndOfClusterchain
                   ELSE r.cluster]

\* Read from a position: size - off is computed without sign.
ReadFrom(e, off, cluster, cluster_off, len) ==
  LET n == IF off <= e.size THEN Min({len, e.size - off}) ELSE len
      read[i \in 0..n] == IF i = 0 THEN [out |-> << >>, off |-> cluster_off, cluster |-> cluster]
                          ELSE ReadByte(read[i - 1])
  IN  read[n]

Read(fd, len) ==
  /\ fds[fd] # NoFile /\ (Mixed \/ fds[fd].mode = "r")
  /\ LET d == fds[fd]
         e == Entry(d.entry)
         r == ReadFrom(e, d.rd_off, IF d.rd_cluster = 0 THEN e.first ELSE d.rd_cluster,
                       d.rd_cluster_off, len)
     IN  /\ fds' = [fds EXCEPT ![fd].rd_off = @ + Len(r.out), ![fd].rd_cluster = r.cluster,
                               ![fd].rd_cluster_off = r.off]
         /\ out' = r.out
  /\ UNCHANGED <<fat, bytes, dir>>

\* Load, for a page of a file mapping, which is not longer than the file.
Load(fd, len, offset) ==
  /\ fds[fd] # NoFile /\ fds[fd].mode = "r" /\ ~Mixed
  /\ LET e == Entry(fds[fd].entry)
         chain == Chain(fat, e.first)
     IN  /\ offset < e.size
         /\ out' = ReadFrom(e, offset, chain[offset \div BytesPerCluster + 1],
                            offset % BytesPerCluster, len).out
  /\ UNCHANGED <<fat, bytes, dir, fds>>

\* One byte of the loop of Write, len bytes at descriptor fd, i of them written before.
WriteByte(w, byte) ==
  LET full == w.off = BytesPerCluster
      next == w.fat[w.cluster]
      x    == IF full /\ next = kEndOfClusterchain
              THEN ExtendCluster(w.fat, w.cluster, NumCluster(w.left))
              ELSE [fat |-> w.fat, last |-> IF full THEN next ELSE w.cluster]
      off  == IF full THEN 0 ELSE w.off
  IN  [fat |-> x.fat, cluster |-> x.last, off |-> off + 1, left |-> w.left - 1,
       bytes |-> [w.bytes EXCEPT ![x.last][off] = byte]]

\* The cluster of the first write: the file's first one, which an empty file gets now.
FirstToWrite(d, len) ==
  LET first == Entry(d.entry).first IN
  IF d.wr_cluster # 0 THEN [fat |-> fat, first |-> d.wr_cluster]
  ELSE IF first # 0 THEN [fat |-> fat, first |-> first]
  ELSE AllocateClusterChain(fat, NumCluster(len))

\* Faulty variant: the size grows by what was written.
SizeGrows(d, e, first, len) ==
  [e EXCEPT !.first = IF d.wr_cluster = 0 /\ @ = 0 THEN first ELSE @, !.size = @ + len]

\* The entry after a write.
Written(d, e, first, len) ==
  [e EXCEPT !.first = IF d.wr_cluster = 0 /\ @ = 0 THEN first ELSE @, !.size = d.wr_off + len]

Write(fd, len) ==
  /\ fds[fd] # NoFile /\ fds[fd].mode = "w"
  /\ fds[fd].wr_off + len <= MaxSize
  /\ NumFree(fat) >= NumCluster(len) + 1
  /\ LET d == fds[fd]
         s == FirstToWrite(d, len)
         write[i \in 0..len] ==
           IF i = 0 THEN [fat |-> s.fat, bytes |-> bytes, cluster |-> s.first,
                          off |-> d.wr_cluster_off, left |-> len]
           ELSE WriteByte(write[i - 1], Byte(fd, d.wr_off + i))
         w == write[len]
     IN  /\ fat' = w.fat /\ bytes' = w.bytes
         /\ SetEntry(d.entry, Written(d, Entry(d.entry), s.first, len))
         /\ fds' = [fds EXCEPT ![fd].wr_off = @ + len, ![fd].wr_cluster = w.cluster,
                               ![fd].wr_cluster_off = w.off]
  /\ out' = << >>

FatNext ==
  \E fd \in Fds :
    \/ \E n \in Names : CreateFile(fd, n) \/ \E mode \in {"r", "w"} : OpenFile(fd, n, mode)
    \/ Close(fd)
    \/ \E len \in 0..MaxLen : Read(fd, len) \/ Write(fd, len)
    \/ \E len \in 0..MaxLen, offset \in 0..MaxSize : Load(fd, len, offset)

FatSpec == FatInit /\ [][FatNext]_fatVars

-----------------------------------------------------------------------------
(* Properties *)

Files == {p \in ToSet(Entries) : Entry(p).name # ""}
Starts == {RootCluster} \cup ({Entry(p).first : p \in Files} \ {0})
ChainSet(c) == ToSet(Chain(fat, c))

\* The chains of the directory and of the files end, have no cluster in common and hold
\* every cluster that is not free, so that no write reaches another file and nothing is
\* lost (ExtendCluster and AllocateClusterChain, called by whoever needs clusters).
ChainsAreSound ==
  /\ \A p, q \in Files : Entry(p).first # 0 /\ Entry(p).first = Entry(q).first => p = q
  /\ \A p \in Files : Entry(p).first # RootCluster
  /\ \A c, d \in Starts : c # d => ChainSet(c) \cap ChainSet(d) = {}
  /\ \A c \in Starts : fat[Last(Chain(fat, c))] = kEndOfClusterchain
  /\ {c \in Cluster : fat[c] # 0} = UNION {ChainSet(c) : c \in Starts}

\* A file's chain is long enough for its size, with several writers on it too: no read
\* or mapping within the size leaves the chain.
SizeFits ==
  \A p \in Files :
    Entry(p).size <= Len(Chain(fat, Entry(p).first)) * BytesPerCluster

\* A name has one entry, however the directory grows: the file that was created is the
\* one that is found.
OneEntryPerName == \A p, q \in Files : Entry(p).name = Entry(q).name => p = q

\* The volume is sound after every step of every call, whatever the order of the descriptors.
FilesSound == ChainsAreSound /\ SizeFits /\ OneEntryPerName

\* fat.hpp:83 says of the cluster whose address is taken that it is a cluster number,
\* starting at 2: a read stays within the volume's clusters.
ReadsClusters == "wild" \notin ToSet(out)

\* The files as FileStore sees them.
Stored(n) ==
  Let(FindFile(n), LAMBDA found :
    IF found = {} THEN NoFile
    ELSE LET e == Entry(CHOOSE p \in found : TRUE) IN
         Let(SelectSeq(Places(Chain(fat, e.first), BytesPerCluster),
                       LAMBDA p : bytes[p[1]][p[2]] # <<>>), LAMBDA used :
           [bytes |-> [i \in DOMAIN used |-> bytes[used[i][1]][used[i][2]]],
            size  |-> e.size]))

OpenAs(fd) ==
  IF fds[fd] = NoFile THEN NoFile
  ELSE [name |-> Entry(fds[fd].entry).name, rd |-> fds[fd].rd_off, wr |-> fds[fd].wr_off]

Store == INSTANCE FileStore WITH
  files <- [n \in Names |-> Stored(n)],
  open <- [fd \in Fds |-> OpenAs(fd)]

\* What is read is what was written (fat.hpp, file.hpp): clusters, chains and entries
\* implement files. This is Store!Spec, which TLC need not look at in steps of other parts.
StoresFiles == Store!Init /\ [][fatVars' = fatVars \/ [Store!Next]_(Store!vars)]_fatVars

=============================================================================
