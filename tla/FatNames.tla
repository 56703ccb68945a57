------------------------------- MODULE FatNames -------------------------------
(***************************************************************************)
(* Names and paths of the FAT file system (src/kernel/fat.cpp): how a path *)
(* is searched, and which entry is made for one that is not found, by the  *)
(* system call OpenFile and by a redirection (src/kernel/syscall.cpp,      *)
(* src/kernel/terminal.cpp). A path is the sequence of what is between its *)
(* slashes, "/d/x" is <<empty, d, x>>; a name is a sequence of characters. *)
(***************************************************************************)
EXTENDS Integers, Sequences, SequencesExt, FiniteSetsExt

CONSTANTS
  BaseLen, ExtLen, \* 8 and 3 characters of a short name
  Paths,           \* the paths that are opened
  Volume,          \* the directories the volume has at first: sequences of entries
  Upper(_),        \* toupper
  AppsDir,         \* the name of the applications' directory
  MaxEntries       \* bound on the entries of a directory

RootDir == "root"

VARIABLES
  tree,   \* the entries of the directories
  made,   \* the paths an entry was made for, with its place
  opened  \* the directory and the number of the entry the last open returned; 0 and why it did not

nameVars == <<tree, made, opened>>

\* The entry of a short name: a directory by its name in tree, or a file.
DirEntry(base, ext, leads) == [base |-> base, ext |-> ext, leads |-> leads]

At(dir, i) == [dir |-> dir, i |-> i]

NamesInit == tree = Volume /\ made = {} /\ opened = At("none", 0)

-----------------------------------------------------------------------------
(* Names *)

Prefix(s, n) == SubSeq(s, 1, Min({n, Len(s)}))
Uppercase(s) == [i \in DOMAIN s |-> Upper(s[i])]
Dots(name) == {i \in DOMAIN name : name[i] = "."}

\* What is before and after a dot; all of it without one.
BaseOf(name, dots) == IF dots = {} THEN name ELSE SubSeq(name, 1, Max(dots) - 1)
ExtOf(name, dots) == IF dots = {} THEN << >> ELSE SubSeq(name, Max(dots) + 1, Len(name))

NameIsEqual(e, name) ==
  LET dots == Dots(name)
      base == BaseOf(name, dots)
      ext  == ExtOf(name, dots)
  IN  /\ \A i, j \in dots : i = j
      /\ Len(base) <= BaseLen /\ Len(ext) <= ExtLen
      /\ e.base = Uppercase(base) /\ e.ext = Uppercase(ext)

\* Faulty variant: the name is kept as it was typed.
SetNameAsTyped(name) ==
  DirEntry(Prefix(BaseOf(name, Dots(name)), BaseLen), Prefix(ExtOf(name, Dots(name)), ExtLen), "file")

\* The name is cut at its last dot, and what is too long is left out.
SetFileName(name) ==
  DirEntry(Uppercase(Prefix(BaseOf(name, Dots(name)), BaseLen)),
           Uppercase(Prefix(ExtOf(name, Dots(name)), ExtLen)), "file")

\* The name that ls shows: a dot only before an extension.
FormatName(e) == e.base \o (IF e.ext = << >> THEN << >> ELSE <<".">> \o e.ext)

\* An element that is longer than any short name is searched as the empty one.
NextPathElement(path) ==
  IF Len(Head(path)) > BaseLen + 1 + ExtLen THEN << >> ELSE Head(path)

-----------------------------------------------------------------------------
(* Paths *)

Found(dir, i, post_slash) == [dir |-> dir, i |-> i, post_slash |-> post_slash]
Missing(r) == r.i = 0
EntryAt(r) == tree[r.dir][r.i]

\* FindFile, after the slash a path starts with. An entry that is no directory ends the search
\* wherever it is in the path.
RECURSIVE FindFrom(_, _)
FindFrom(path, dir) ==
  LET elem      == NextPathElement(path)
      rest      == Tail(path)
      path_last == rest \in {<< >>, <<<< >>>>}
      same      == {i \in DOMAIN tree[dir] : NameIsEqual(tree[dir][i], elem)}
      r         == Found(dir, IF same = {} THEN 0 ELSE Min(same), rest # << >>)
  IN  IF ~Missing(r) /\ EntryAt(r).leads # "file" /\ ~path_last
      THEN IF Len(rest) > 1 /\ Head(rest) = << >>
           THEN FindFrom(Tail(rest), RootDir)
           ELSE FindFrom(rest, EntryAt(r).leads)
      ELSE r

FindPath(path, dir) ==
  IF Len(path) > 1 /\ Head(path) = << >> THEN FindFrom(Tail(path), RootDir)
  ELSE FindFrom(path, dir)

FindInRoot(path) == FindPath(path, RootDir)

\* Where CreateFile makes the entry for a path that was not found, or the reason it does not.
ParentOf(path) ==
  LET parent == FindInRoot(Front(path)) IN
  IF Len(path) = 1 \/ Front(path) = <<<< >>>> THEN RootDir
  ELSE IF Last(path) = << >> THEN "kIsDirectory"
  ELSE IF Missing(parent) THEN "kNoSuchEntry"
  ELSE EntryAt(parent).leads

CreateNamed(path) ==
  LET dir == ParentOf(path) IN
  \/ /\ dir \in {"kIsDirectory", "kNoSuchEntry"}
     /\ opened' = At(dir, 0) /\ UNCHANGED <<tree, made>>
  \/ /\ dir \in DOMAIN tree /\ Len(tree[dir]) < MaxEntries
     /\ tree' = [tree EXCEPT ![dir] = Append(@, SetFileName(Last(path)))]
     /\ opened' = At(dir, Len(tree[dir]) + 1)
     /\ made' = made \cup {<<path, opened'>>}
  \* the clusters of a file searched as a directory's
  \/ dir = "file" /\ opened' = At("wild", 0) /\ UNCHANGED <<tree, made>>

Return(p) == opened' = p /\ UNCHANGED <<tree, made>>

\* The system call OpenFile, with O_CREAT or without.
OpenPath(path, creat) ==
  LET r == FindInRoot(path) IN
  \/ Missing(r) /\ creat /\ CreateNamed(path)
  \/ Missing(r) /\ ~creat /\ Return(At("ENOENT", 0))
  \/ ~Missing(r) /\ EntryAt(r).leads = "file" /\ r.post_slash /\ Return(At("ENOENT", 0))
  \/ /\ ~Missing(r) /\ (EntryAt(r).leads # "file" \/ ~r.post_slash)
     /\ Return(At(r.dir, r.i))

\* The file of a redirection.
Redirect(path) ==
  LET r == FindInRoot(path) IN
  \/ Missing(r) /\ CreateNamed(path)
  \/ /\ ~Missing(r) /\ (EntryAt(r).leads # "file" \/ r.post_slash)
     /\ Return(At("cannot redirect", 0))
  \/ /\ ~Missing(r) /\ EntryAt(r).leads = "file" /\ ~r.post_slash
     /\ Return(At(r.dir, r.i))

\* FindCommand: a path as such, a name in the root directory and then among the applications.
RunCommand(path) ==
  LET r == FindPath(path, RootDir)
      a == FindInRoot(<<AppsDir>>)
      b == FindPath(path, EntryAt(a).leads)
      File(x) == EntryAt(x).leads = "file" /\ ~x.post_slash
  IN
  \/ ~Missing(r) /\ File(r) /\ Return(At(r.dir, r.i))
  \/ ~Missing(r) /\ ~File(r) /\ Return(At("no such command", 0))
  \/ /\ Missing(r)
     /\ (Len(path) > 1 \/ Missing(a) \/ EntryAt(a).leads = "file") /\ Return(At("no such command", 0))
  \/ /\ Missing(r) /\ Len(path) = 1 /\ ~Missing(a) /\ EntryAt(a).leads # "file"
     /\ Return(IF ~Missing(b) /\ File(b) THEN At(b.dir, b.i) ELSE At("no such command", 0))

NamesNext ==
  \E path \in Paths :
    \/ \E creat \in BOOLEAN : OpenPath(path, creat)
    \/ Redirect(path)
    \/ RunCommand(path)

-----------------------------------------------------------------------------
(* Properties *)

\* A name that a short name can hold, with a base.
Fits(name) ==
  /\ Cardinality(Dots(name)) <= 1
  /\ Len(BaseOf(name, Dots(name))) \in 1 .. BaseLen /\ Len(ExtOf(name, Dots(name))) <= ExtLen

\* After a double slash FindFile goes on in the root directory, and CreateFile does not.
Plain(path) == \A i \in 2 .. Len(path) : path[i] # << >>

\* Whatever else is created, a path whose name fits leads to the entry that was made for it, and
\* so does the name that ls shows for it;
\* no entry is made in the clusters of a file (CreateFile takes the first cluster of
\* whatever FindFile returned for the part before the last slash).
NamesAreKept ==
  /\ \A m \in made :
       Plain(m[1]) /\ Fits(Last(m[1])) =>
         /\ FindInRoot(m[1]).dir = m[2].dir /\ FindInRoot(m[1]).i = m[2].i
         /\ NameIsEqual(EntryAt(m[2]), FormatName(EntryAt(m[2])))
  /\ opened.dir # "wild"

=============================================================================
