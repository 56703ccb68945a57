----------------------------- MODULE PagingProofs -----------------------------
(***************************************************************************)
(* AppsAreApart for any number of terminals, files, pages and frames. What *)
(* keeps the applications apart is that a frame is in one place: it is a   *)
(* root, a table or a page of a single page map in use; only a page of an  *)
(* image is in several, all of them read-only and all of the same file.    *)
(***************************************************************************)
EXTENDS Paging, WellFoundedInduction, TLAPS

AnyFile == CHOOSE a \in Files : TRUE
Entry == {Absent} \cup [frame : Frame, writable : BOOLEAN]
Bytes == {"zero", "image", "none"} \cup LazyBytes \cup Tasks
Places == {"prompt", "pml4", "find", "load", "pml4again", "copy", "setup", "app", "clean", "free", "halt"}

Types ==
  /\ allocated \subseteq Frame
  /\ table \in [Frame -> Frame \cup {None}]
  /\ entry \in [Frame -> [Page -> Entry]]
  /\ content \in [Frame -> Bytes]
  /\ app_loads \in [Files -> Frame \cup {None}]
  /\ cr3 \in [Tasks -> Frame \cup {Kernel}]
  /\ pc \in [Tasks -> Places] /\ file \in [Tasks -> Files \cup {AnyFile}]
  /\ src \in [Tasks -> Frame \cup {None}] /\ todo \in [Tasks -> SUBSET Page]
  /\ lazy \in [Tasks -> LazyBytes \cup {"none"}]
  /\ view \in [Tasks -> [Page -> Bytes]]
  /\ runs \in Nat /\ wasted \in BOOLEAN /\ clobbered \subseteq Files \cup {AnyFile}

-----------------------------------------------------------------------------
(* Frames *)

\* A page map uses a frame once.
OnePlace(r) ==
  /\ table[r] # r
  /\ \A p \in Page : entry[r][p].frame # r /\ (Present(r, p) => entry[r][p].frame # table[r])
  /\ \A p, q \in Page : Present(r, p) /\ entry[r][p].frame = entry[r][q].frame => p = q

FramesApart == NoSharedWrites /\ \A r \in Live : OnePlace(r)

-----------------------------------------------------------------------------
(* Page maps *)

Copying == {"pml4again", "copy"}
\* The root is the task's alone: where ExecuteFile changes or frees what is below it.
Working == {"find", "load", "copy", "setup", "app", "clean", "free", "halt"}
Private(t) ==
  /\ cr3[t] # Kernel
  /\ \A a \in Files : app_loads[a] # cr3[t]
  /\ \A u \in Tasks : pc[u] \in Copying => src[u] # cr3[t]

Empty(r) == table[r] = None /\ \A p \in Page : entry[r][p] = Absent
\* Pages of an image and no others, read-only.
OfImage(r) == \A p \in Page : Present(r, p) => p \in Image /\ ~entry[r][p].writable

\* A task's page map, by its place in ExecuteFile.
PageMap(t) ==
  /\ pc[t] # "prompt" => file[t] \in Files
  /\ pc[t] \in Working => Private(t)
  /\ pc[t] \in {"find", "copy", "free"} => Empty(cr3[t])
  /\ pc[t] = "load" => /\ OfImage(cr3[t]) /\ todo[t] \subseteq Image
                       /\ \A p \in todo[t] : ~Present(cr3[t], p)
  /\ pc[t] \in Copying => src[t] # None /\ OfImage(src[t])
  /\ pc[t] = "pml4again" => src[t] = cr3[t]
  /\ pc[t] = "setup" =>
       /\ table[cr3[t]] # None /\ todo[t] \subseteq {Stack}
       /\ \A p \in Page : Present(cr3[t], p) /\ entry[cr3[t]][p].writable => p = Stack
       /\ \A p \in Page : Present(cr3[t], p) /\ ~entry[cr3[t]][p].writable => p \in Image
       /\ Stack \in todo[t] => ~Present(cr3[t], Stack)
       /\ Present(cr3[t], Stack) => content[entry[cr3[t]][Stack].frame] = "zero"
  /\ pc[t] = "app" =>
       /\ \A p \in Page : Present(cr3[t], p) /\ ~entry[cr3[t]][p].writable => p \in Image
       /\ lazy[t] = "none" => ~Present(cr3[t], Lazy)
       /\ lazy[t] # "none" /\ ~Present(cr3[t], Lazy) => view[t][Lazy] = lazy[t]

PageMaps ==
  /\ \A t \in Tasks : PageMap(t)
  /\ \A t, u \in Tasks : cr3[t] = cr3[u] /\ cr3[t] # Kernel => t = u
  /\ \A a \in Files : app_loads[a] # None => OfImage(app_loads[a])

-----------------------------------------------------------------------------
(* Images *)

\* The page map r has pages of the image of the file a.
Holds(a, r) ==
  \/ r # None /\ app_loads[a] = r
  \/ \E t \in Tasks : /\ file[t] = a
                      /\ \/ pc[t] \in Copying /\ src[t] = r
                         \/ pc[t] \in {"load", "setup", "app"} /\ cr3[t] = r

\* The frames of two images are not the same.
ImagesApart ==
  \A a, b \in Files : a # b => \A r, s \in Frame : Holds(a, r) /\ Holds(b, s) =>
    \A p, q \in Page : Present(r, p) => entry[r][p].frame # entry[s][q].frame

\* What is read-only is as in the file, unless a system call wrote to the image.
ImagesKept ==
  \A a \in Files \ clobbered : \A r \in Frame : Holds(a, r) =>
    \A p \in Page : Present(r, p) /\ ~entry[r][p].writable => content[entry[r][p].frame] = "image"

Images == ImagesApart /\ ImagesKept

-----------------------------------------------------------------------------
(* Lost frames *)

\* While nothing went wrong, the pages an application shares are those of the loaded image,
\* and a terminal that runs none has no page map.
SharingOf(t) ==
  /\ pc[t] \in {"prompt", "pml4"} => cr3[t] = Kernel
  /\ pc[t] \in Copying => src[t] = app_loads[file[t]]
  /\ pc[t] \in {"setup", "app", "clean"} =>
       /\ app_loads[file[t]] # None
       /\ \A p \in Page : Present(cr3[t], p) /\ ~entry[cr3[t]][p].writable =>
            \E q \in Page : entry[app_loads[file[t]]][q].frame = entry[cr3[t]][p].frame

FramesKept ==
  ~wasted => /\ \A t \in Tasks : SharingOf(t)
             /\ allocated \subseteq UNION {Reachable(r) : r \in Live}

IInv == Types /\ FramesApart /\ PageMaps /\ Images /\ Isolated /\ FramesKept

-----------------------------------------------------------------------------
(* Frames and roots, one by one *)

Owns(r, f) ==
  f # None /\ (f = r \/ f = table[r] \/ \E p \in Page : entry[r][p].writable /\ entry[r][p].frame = f)
Refers(r, f) ==
  f # None /\ (f = r \/ f = table[r] \/ \E p \in Page : entry[r][p].frame = f)
Root(r) ==
  /\ r \notin {Kernel, None}
  /\ \/ \E t \in Tasks : cr3[t] = r
     \/ \E a \in Files : app_loads[a] = r
     \/ \E t \in Tasks : pc[t] \in Copying /\ src[t] = r

\* The two values of cr3 and of a cached image that are no frames.
LEMMA Numbers == Kernel \notin Frame /\ None \notin Frame /\ Kernel # None
BY DEF Kernel, None, Frame

\* The membership of the sets of the model, now and after a step.
LEMMA Sets ==
  /\ \A r : r \in Live <=> Root(r)
  /\ \A r, f : f \in Own(r) <=> Owns(r, f)
  /\ \A r, f : f \in Reachable(r) <=> Refers(r, f)
<1>1. \A r : r \in Live <=> Root(r)
  BY DEF Live, Root, Copying
<1>2. \A r, f : f \in Own(r) <=> Owns(r, f)
  BY DEF Own, Owns
<1>3. \A r, f : f \in Reachable(r) <=> Refers(r, f)
  BY <1>2 DEF Reachable, Refers, Owns
<1> QED
  BY <1>1, <1>2, <1>3

\* And after a step.
LEMMA SetsAfter ==
  /\ \A r : r \in Live' <=> Root(r)'
  /\ \A r, f : f \in Own(r)' <=> Owns(r, f)'
  /\ \A r, f : f \in Reachable(r)' <=> Refers(r, f)'
<1>1. \A r : r \in Live' <=> Root(r)'
  BY DEF Live, Root, Copying
<1>2. \A r, f : f \in Own(r)' <=> Owns(r, f)'
  BY DEF Own, Owns
<1>3. \A r, f : f \in Reachable(r)' <=> Refers(r, f)'
  BY <1>2 DEF Reachable, Refers, Owns
<1> QED
  BY <1>1, <1>2, <1>3

\* What an entry is.
LEMMA Entries ==
  /\ Absent \in Entry /\ Absent.frame = None /\ Absent.writable = FALSE
  /\ \A e \in Entry : /\ e.writable \in BOOLEAN
                      /\ e # Absent => e.frame \in Frame
                      /\ e.writable => e # Absent
                      /\ e.frame \in Frame => e # Absent
                      /\ [e EXCEPT !.writable = FALSE] \in Entry
                      /\ [e EXCEPT !.writable = FALSE].frame = e.frame
                      /\ [e EXCEPT !.writable = FALSE].writable = FALSE
  /\ \A f \in Frame, w \in BOOLEAN :
       LET e == [frame |-> f, writable |-> w]
       IN  e \in Entry /\ e # Absent /\ e.frame = f /\ e.writable = w
<1>1. Absent \in Entry /\ Absent.frame = None /\ Absent.writable = FALSE
  BY DEF Entry, Absent
<1>2. \A e \in Entry : e = Absent \/ (e.frame \in Frame /\ e.writable \in BOOLEAN)
  BY DEF Entry
<1>3. \A e \in Entry : [e EXCEPT !.writable = FALSE] \in Entry /\ [e EXCEPT !.writable = FALSE].frame = e.frame
                       /\ [e EXCEPT !.writable = FALSE].writable = FALSE
  <2> TAKE e \in Entry
  <2>1. CASE e = Absent
    <3>1. e \in [frame : {None}, writable : {FALSE}]
      BY <2>1 DEF Absent
    <3>2. [e EXCEPT !.writable = FALSE] = [frame |-> e.frame, writable |-> FALSE]
      BY <3>1
    <3>3. e.frame = None
      BY <3>1
    <3>4. [e EXCEPT !.writable = FALSE] = Absent
      BY <3>2, <3>3 DEF Absent
    <3> QED
      BY <2>1, <3>4, <1>1
  <2>2. CASE e \in [frame : Frame, writable : BOOLEAN]
    BY <2>2 DEF Entry
  <2> QED
    BY <2>1, <2>2 DEF Entry
<1>4. \A f \in Frame, w \in BOOLEAN :
        LET e == [frame |-> f, writable |-> w]
        IN  e \in Entry /\ e # Absent /\ e.frame = f /\ e.writable = w
  BY <1>1, Numbers DEF Entry
<1> QED
  BY <1>1, <1>2, <1>3, <1>4, Numbers

\* Allocate returns a free frame.
LEMMA NewFrameIsFree ==
  ASSUME allocated \subseteq Frame, ~Full
  PROVE  NewFrame \in Frame /\ NewFrame \notin allocated
<1> DEFINE S == Frame \ allocated
<1>1. S \subseteq Nat
  BY PagingAssumption DEF Frame
<1>2. S # {}
  BY DEF Full
<1> HIDE DEF S
<1>3. PICK m \in S : \A n \in S : <<n, m>> \notin OpToRel(<, Nat)
  BY <1>1, <1>2, WFMin, NatLessThanWellFounded
<1>4. \A n \in S : ~(n < m)
  BY <1>1, <1>3 DEF OpToRel
<1>5. \A n \in S : m <= n
  BY <1>1, <1>4
<1>6. Min(S) \in S
  BY <1>5 DEF Min
<1> QED
  BY <1>6 DEF NewFrame, S

\* The frames of a page map in use are frames, and those of its pages are someone's.
LEMMA FramesOf ==
  ASSUME Types
  PROVE  /\ \A r : Root(r) => r \in Frame
         /\ \A r \in Frame : /\ table[r] \in Frame \cup {None}
                             /\ \A p \in Page : entry[r][p] \in Entry
         /\ \A r \in Frame : \A f : Refers(r, f) => f \in Frame
         /\ \A r \in Frame : \A f : Owns(r, f) => Refers(r, f)
<1>1. \A r : Root(r) => r \in Frame
  BY DEF Root, Types
<1>2. \A r \in Frame : table[r] \in Frame \cup {None} /\ \A p \in Page : entry[r][p] \in Entry
  BY DEF Types
<1>3. \A r \in Frame : \A f : Refers(r, f) => f \in Frame
  <2> SUFFICES ASSUME NEW r \in Frame, NEW f, Refers(r, f) PROVE f \in Frame
    OBVIOUS
  <2>1. CASE f = r \/ f = table[r]
    BY <2>1, <1>2 DEF Refers
  <2>2. CASE \E p \in Page : entry[r][p].frame = f
    <3>1. PICK p \in Page : entry[r][p].frame = f
      BY <2>2
    <3>2. entry[r][p] \in Entry /\ f # None
      BY <1>2 DEF Refers
    <3> QED
      BY <3>1, <3>2, Entries
  <2> QED
    BY <2>1, <2>2 DEF Refers
<1>4. \A r \in Frame : \A f : Owns(r, f) => Refers(r, f)
  BY DEF Owns, Refers
<1> QED
  BY <1>1, <1>2, <1>3, <1>4

\* NoSharedWrites, frame by frame.
FramesInUse == \A r : Root(r) => \A f : Refers(r, f) => f \in allocated
OwnersApart == \A r, s : Root(r) /\ Root(s) /\ r # s => \A f : ~(Owns(r, f) /\ Refers(s, f))

\* NoSharedWrites in terms of the relations between roots and frames.
LEMMA ApartIs == NoSharedWrites <=> FramesInUse /\ OwnersApart
<1>1. \A r, s : Own(r) \cap Reachable(s) = {} <=> \A f : ~(Owns(r, f) /\ Refers(s, f))
  BY Sets
<1>2. \A r : Reachable(r) \subseteq allocated <=> \A f : Refers(r, f) => f \in allocated
  BY Sets
<1> QED
  BY <1>1, <1>2, Sets DEF NoSharedWrites, FramesInUse, OwnersApart

\* And after a step.
LEMMA ApartIsAfter == NoSharedWrites' <=> FramesInUse' /\ OwnersApart'
<1>1. \A r, s : Own(r)' \cap Reachable(s)' = {} <=> \A f : ~(Owns(r, f)' /\ Refers(s, f)')
  BY SetsAfter
<1>2. \A r : Reachable(r)' \subseteq allocated' <=> \A f : Refers(r, f)' => f \in allocated'
  BY SetsAfter
<1> QED
  BY <1>1, <1>2, SetsAfter DEF NoSharedWrites, FramesInUse, OwnersApart

\* Below one root, r, frames are freed that were its own, and added that are new or no one's
\* own; all the other roots stay as they are.
LEMMA ChangeBelow ==
  ASSUME FramesApart, NEW r,
         \A s : Root(s)' /\ s # r => Root(s) /\ table'[s] = table[s] /\ entry'[s] = entry[s],
         \A f : f \in allocated /\ f \notin allocated' => Root(r) /\ Owns(r, f),
         Root(r)' => \A f : Refers(r, f)' =>
                       /\ f \in allocated'
                       /\ \A s : Root(s) /\ s # r => ~Owns(s, f),
         Root(r)' => \A f : Owns(r, f)' => f \notin allocated \/ (Root(r) /\ Owns(r, f)),
         Root(r)' => OnePlace(r)'
  PROVE  FramesApart'
<1>1. FramesInUse /\ OwnersApart /\ \A s : Root(s) => OnePlace(s)
  BY ApartIs, Sets DEF FramesApart
<1>2. \A s : Root(s)' /\ s # r => \A f : (Refers(s, f)' <=> Refers(s, f)) /\ (Owns(s, f)' <=> Owns(s, f))
  BY DEF Refers, Owns
<1>3. FramesInUse'
  <2> SUFFICES ASSUME NEW s, Root(s)', NEW f, Refers(s, f)' PROVE f \in allocated'
    BY DEF FramesInUse
  <2>1. CASE s # r
    <3>1. Root(s) /\ Refers(s, f) /\ f \in allocated
      BY <2>1, <1>1, <1>2 DEF FramesInUse
    <3> QED
      BY <3>1, <2>1, <1>1 DEF OwnersApart
  <2> QED
    BY <2>1
<1>4. OwnersApart'
  <2> SUFFICES ASSUME NEW s, NEW u, Root(s)', Root(u)', s # u, NEW f, Owns(s, f)', Refers(u, f)'
               PROVE  FALSE
    BY DEF OwnersApart
  <2>1. CASE s # r /\ u # r
    BY <2>1, <1>1, <1>2 DEF OwnersApart
  <2>2. CASE s = r
    <3>1. Root(u) /\ Refers(u, f) /\ f \in allocated
      BY <2>2, <1>1, <1>2 DEF FramesInUse
    <3> QED
      BY <2>2, <3>1, <1>1 DEF OwnersApart
  <2>3. CASE u = r
    BY <2>3, <1>2
  <2> QED
    BY <2>1, <2>2, <2>3
<1>5. \A s : Root(s)' => OnePlace(s)'
  <2>1. \A s : Root(s)' /\ s # r => OnePlace(s)'
    BY <1>1 DEF OnePlace, Present
  <2> QED
    BY <2>1
<1> QED
  BY <1>3, <1>4, <1>5, ApartIsAfter, SetsAfter DEF FramesApart

\* Roots come into use or out of it, and nothing changes below them.
LEMMA NothingBelow ==
  ASSUME FramesApart, UNCHANGED <<allocated, table, entry>>, \A s : Root(s)' => Root(s)
  PROVE  FramesApart'
<1>1. FramesInUse /\ OwnersApart /\ \A s : Root(s) => OnePlace(s)
  BY ApartIs, Sets DEF FramesApart
<1>2. FramesInUse' /\ OwnersApart'
  BY <1>1 DEF FramesInUse, OwnersApart, Refers, Owns
<1>3. \A s : Root(s)' => OnePlace(s)'
  BY <1>1 DEF OnePlace, Present
<1> QED
  BY <1>2, <1>3, ApartIsAfter, SetsAfter DEF FramesApart

\* The first state has the invariant.
LEMMA InitIsSound == Init => IInv
<1> SUFFICES ASSUME Init PROVE IInv
  OBVIOUS
<1> USE DEF Init
<1>1. Types
  <2>1. \A p \in Page : Initial(p) \in Bytes
    BY DEF Initial, Bytes
  <2> QED
    BY <2>1, Entries DEF Types, Bytes, Places, AnyFile
<1>2. \A r : ~Root(r)
  BY DEF Root, Copying
<1>3. FramesApart
  BY <1>2, ApartIs, Sets DEF FramesApart, FramesInUse, OwnersApart
<1>4. PageMaps
  BY DEF PageMaps, PageMap, Working, Copying
<1>5. Images
  <2>1. \A a \in Files, r \in Frame : ~Holds(a, r)
    BY Numbers DEF Holds, Copying
  <2> QED
    BY <2>1 DEF Images, ImagesApart, ImagesKept
<1>6. Isolated
  BY DEF Isolated
<1>7. FramesKept
  BY DEF FramesKept, SharingOf, Copying
<1> QED
  BY <1>1, <1>3, <1>4, <1>5, <1>6, <1>7 DEF IInv

-----------------------------------------------------------------------------
(* The other tasks *)

\* A step of t changes nothing below the roots of others, writes to frames that are free or
\* its own, or to an image that counts as clobbered from then on, and gives others no root
\* of its own but the image it has loaded.
Locally(t) ==
  /\ \A u \in Tasks : u # t =>
       /\ cr3'[u] = cr3[u] /\ pc'[u] = pc[u] /\ file'[u] = file[u] /\ src'[u] = src[u]
       /\ todo'[u] = todo[u] /\ lazy'[u] = lazy[u] /\ view'[u] = view[u]
  /\ \A r : Root(r) => \/ pc[t] \in Working /\ r = cr3[t]
                       \/ table'[r] = table[r] /\ entry'[r] = entry[r]
  /\ \A f \in Frame : \/ content'[f] = content[f]
                      \/ f \notin allocated
                      \/ pc[t] \in Working /\ Owns(cr3[t], f)
                      \/ pc[t] = "app" /\ Refers(cr3[t], f) /\ file[t] \in clobbered'
  /\ clobbered \subseteq clobbered'
  /\ \A a \in Files : \/ app_loads'[a] = app_loads[a]
                      \/ app_loads[a] = None /\ pc[t] = "load" /\ a = file[t] /\ app_loads'[a] = cr3[t]
  /\ pc'[t] \in Copying => \/ pc[t] \in Copying /\ src'[t] = src[t]
                           \/ pc[t] = "load" /\ src'[t] = cr3[t]
                           \/ \E a \in Files : src'[t] = app_loads[a]
  /\ \/ cr3'[t] = cr3[t]
     \/ cr3'[t] = Kernel
     \/ cr3'[t] \in Frame /\ cr3'[t] \notin allocated

\* Roots of different tasks, and of loaded images.
LEMMA RootsOf ==
  ASSUME Types, PageMaps
  PROVE  /\ \A u \in Tasks : pc[u] \in Working => Root(cr3[u]) /\ cr3[u] \in Frame
         /\ \A u \in Tasks : cr3[u] # Kernel => Root(cr3[u])
         /\ \A u \in Tasks : pc[u] \in Copying => Root(src[u]) /\ src[u] \in Frame
         /\ \A a \in Files : app_loads[a] # None => Root(app_loads[a]) /\ app_loads[a] \in Frame
         /\ \A a, r : r \in Frame /\ a \in Files /\ Holds(a, r) => Root(r)
         /\ \A u, v \in Tasks : pc[u] \in Working /\ u # v =>
              /\ cr3[u] # cr3[v]
              /\ pc[v] \in Copying => src[v] # cr3[u]
<1> USE Numbers DEF Types
<1>1. \A u \in Tasks : cr3[u] \in Frame \cup {Kernel} /\ src[u] \in Frame \cup {None}
  OBVIOUS
<1>2. \A u \in Tasks : cr3[u] # Kernel => Root(cr3[u]) /\ cr3[u] \in Frame
  BY <1>1 DEF Root
<1>3. \A u \in Tasks : pc[u] \in Working => cr3[u] # Kernel
  BY DEF PageMaps, PageMap, Private
<1>4. \A u \in Tasks : pc[u] \in Copying => Root(src[u]) /\ src[u] \in Frame
  BY <1>1 DEF PageMaps, PageMap, Root
<1>5. \A a \in Files : app_loads[a] # None => Root(app_loads[a]) /\ app_loads[a] \in Frame
  BY DEF Root
<1>6. \A a, r : r \in Frame /\ a \in Files /\ Holds(a, r) => Root(r)
  BY DEF Holds, Root
<1>7. \A u, v \in Tasks : pc[u] \in Working /\ u # v =>
        cr3[u] # cr3[v] /\ (pc[v] \in Copying => src[v] # cr3[u])
  BY <1>3 DEF PageMaps, PageMap, Private
<1> QED
  BY <1>2, <1>3, <1>4, <1>5, <1>6, <1>7

\* What is the task's own is not changed by another's step.
LEMMA OthersRoots ==
  ASSUME Types, FramesApart, PageMaps, NEW t \in Tasks, Locally(t), NEW u \in Tasks, u # t
  PROVE  /\ pc[u] \in Working =>
              /\ table'[cr3[u]] = table[cr3[u]] /\ entry'[cr3[u]] = entry[cr3[u]]
              /\ Private(u)'
              /\ \A f \in Frame : Owns(cr3[u], f) => content'[f] = content[f]
         /\ pc[u] \in Copying => entry'[src[u]] = entry[src[u]]
<1>1. \A r : Root(r) => \/ pc[t] \in Working /\ r = cr3[t]
                        \/ table'[r] = table[r] /\ entry'[r] = entry[r]
  BY DEF Locally
<1>2. ASSUME pc[u] \in Working
      PROVE  /\ table'[cr3[u]] = table[cr3[u]] /\ entry'[cr3[u]] = entry[cr3[u]]
             /\ \A f \in Frame : Owns(cr3[u], f) => content'[f] = content[f]
  <2>1. Root(cr3[u]) /\ cr3[u] # cr3[t] /\ cr3[u] \in Frame
    BY <1>2, RootsOf
  <2>2. ASSUME NEW f \in Frame, Owns(cr3[u], f) PROVE content'[f] = content[f]
    <3>1. f \in allocated
      BY <2>1, <2>2, FramesOf, ApartIs DEF FramesApart, FramesInUse
    <3>2. ASSUME pc[t] \in Working PROVE ~Refers(cr3[t], f) /\ ~Owns(cr3[t], f)
      <4>1. Root(cr3[t]) /\ cr3[t] \in Frame
        BY <3>2, RootsOf
      <4>2. ~Refers(cr3[t], f)
        BY <2>1, <2>2, <4>1, ApartIs DEF FramesApart, OwnersApart
      <4> QED
        BY <4>1, <4>2, FramesOf
    <3>3. pc[t] = "app" => pc[t] \in Working
      BY DEF Working
    <3> QED
      BY <3>1, <3>2, <3>3 DEF Locally
  <2> QED
    BY <2>1, <2>2, <1>1
<1>3. ASSUME pc[u] \in Working PROVE Private(u)'
  <2>1. cr3'[u] = cr3[u] /\ cr3[u] # Kernel /\ cr3[u] # cr3[t] /\ Private(u)
    BY <1>3, RootsOf DEF Locally, PageMaps, PageMap, Private
  <2>2. \A a \in Files : app_loads'[a] # cr3[u]
    BY <2>1 DEF Locally, Private
  <2>3. \A v \in Tasks : pc'[v] \in Copying => src'[v] # cr3[u]
    <3>1. \A v \in Tasks : v # t => pc'[v] = pc[v] /\ src'[v] = src[v]
      BY DEF Locally
    <3>2. pc'[t] \in Copying => src'[t] # cr3[u]
      BY <2>1 DEF Locally, Private
    <3> QED
      BY <2>1, <3>1, <3>2 DEF Private
  <2> QED
    BY <2>1, <2>2, <2>3 DEF Private
<1>4. pc[u] \in Copying => entry'[src[u]] = entry[src[u]]
  BY <1>1, RootsOf
<1> QED
  BY <1>2, <1>3, <1>4

\* A step below a task's own root leaves the page maps of the others and the images as they are.
LEMMA OthersPageMaps ==
  ASSUME Types, FramesApart, PageMaps, NEW t \in Tasks, Locally(t)
  PROVE  /\ \A u \in Tasks : u # t => PageMap(u)'
         /\ \A u, v \in Tasks : cr3'[u] = cr3'[v] /\ cr3'[u] # Kernel => u = v
         /\ \A a \in Files : app_loads[a] # None => OfImage(app_loads[a])'
<1>1. ASSUME NEW u \in Tasks, u # t PROVE PageMap(u)'
  <2>1. /\ cr3'[u] = cr3[u] /\ pc'[u] = pc[u] /\ file'[u] = file[u] /\ src'[u] = src[u]
        /\ todo'[u] = todo[u] /\ lazy'[u] = lazy[u] /\ view'[u] = view[u]
    BY <1>1 DEF Locally
  <2>2. /\ pc[u] \in Working =>
             /\ table'[cr3[u]] = table[cr3[u]] /\ entry'[cr3[u]] = entry[cr3[u]]
             /\ Private(u)'
             /\ \A f \in Frame : Owns(cr3[u], f) => content'[f] = content[f]
        /\ pc[u] \in Copying => entry'[src[u]] = entry[src[u]]
    BY <1>1, OthersRoots
  <2>3. PageMap(u)
    BY DEF PageMaps
  <2>4. pc[u] \in {"find", "copy", "free"} => Empty(cr3[u])'
    BY <2>1, <2>2, <2>3 DEF PageMap, Working, Empty
  <2>5. pc[u] = "load" => OfImage(cr3[u])' /\ \A p \in todo[u] : ~Present(cr3[u], p)'
    BY <2>1, <2>2, <2>3 DEF PageMap, Working, OfImage, Present
  <2>6. pc[u] \in Copying => OfImage(src[u])'
    BY <2>1, <2>2, <2>3 DEF PageMap, OfImage, Present
  <2>7. ASSUME pc[u] = "setup", Present(cr3[u], Stack)
        PROVE  content'[entry[cr3[u]][Stack].frame] = content[entry[cr3[u]][Stack].frame]
    <3>1. Stack \in Page /\ Stack \notin Image /\ cr3[u] \in Frame /\ pc[u] \in Working
      BY <2>7, RootsOf, PagingAssumption DEF Page, Working
    <3>2. entry[cr3[u]][Stack] \in Entry
      BY <3>1, FramesOf
    <3>3. entry[cr3[u]][Stack].frame \in Frame /\ entry[cr3[u]][Stack].writable
      BY <2>3, <2>7, <3>1, <3>2, Entries DEF Present, PageMap
    <3>4. Owns(cr3[u], entry[cr3[u]][Stack].frame)
      BY <3>1, <3>3, Numbers DEF Owns
    <3> QED
      BY <2>2, <3>1, <3>3, <3>4
  <2> QED
    <3>1. pc[u] = "setup" => pc[u] \in Working
      BY DEF Working
    <3>2. pc[u] = "app" => pc[u] \in Working
      BY DEF Working
    <3>3. Present(cr3[u], Stack)' /\ pc[u] = "setup" => Present(cr3[u], Stack)
      BY <2>1, <2>2, <3>1 DEF Present
    <3> QED
      BY <2>1, <2>2, <2>3, <2>4, <2>5, <2>6, <2>7, <3>1, <3>2, <3>3 DEF PageMap, Present
<1>2. \A u, v \in Tasks : cr3'[u] = cr3'[v] /\ cr3'[u] # Kernel => u = v
  <2>1. \A u \in Tasks : cr3[u] # Kernel => cr3[u] \in allocated
    <3>1. \A u \in Tasks : cr3[u] # Kernel => Root(cr3[u]) /\ Refers(cr3[u], cr3[u])
      BY RootsOf DEF Refers, Root
    <3> QED
      BY <3>1, ApartIs DEF FramesApart, FramesInUse
  <2> QED
    BY <2>1 DEF Locally, PageMaps
<1>3. \A a \in Files : app_loads[a] # None => OfImage(app_loads[a])'
  <2>1. ASSUME NEW a \in Files, app_loads[a] # None 
        PROVE  app_loads'[a] = app_loads[a] /\ entry'[app_loads[a]] = entry[app_loads[a]]
    <3>1. Root(app_loads[a]) /\ (pc[t] \in Working => app_loads[a] # cr3[t])
      BY <2>1, RootsOf DEF PageMaps, PageMap, Private
    <3> QED
      BY <2>1, <3>1 DEF Locally
  <2> QED
    BY <2>1 DEF PageMaps, OfImage, Present
<1> QED
  BY <1>1, <1>2, <1>3

\* The images and the memory of others, after a step that gives t only new frames or frames
\* of its file's image.
LEMMA HeldPrivately ==
  ASSUME PageMaps, NEW t \in Tasks, pc[t] \in Working, NEW a \in Files, Holds(a, cr3[t])
  PROVE  a = file[t]
<1>1. Private(t) /\ \A u \in Tasks : cr3[u] = cr3[t] /\ cr3[t] # Kernel => u = t
  BY DEF PageMaps, PageMap
<1> QED
  BY <1>1 DEF Holds, Private

\* Nor does it change what the other applications see.
LEMMA OthersIsolated ==
  ASSUME Types, FramesApart, PageMaps, Images, Isolated, NEW t \in Tasks, Locally(t),
         NEW u \in Tasks, u # t, pc'[u] = "app", file'[u] \notin clobbered',
         NEW p \in Page, Present(cr3[u], p)'
  PROVE  content'[entry'[cr3'[u]][p].frame] = view'[u][p]
<1> DEFINE r == cr3[t]
           s == cr3[u]
           g == entry[s][p].frame
<1>1. /\ cr3'[u] = s /\ pc[u] = "app" /\ file'[u] = file[u] /\ view'[u] = view[u]
      /\ file[u] \notin clobbered /\ entry'[s] = entry[s]
      /\ \A f \in Frame : Owns(s, f) => content'[f] = content[f]
  BY OthersRoots DEF Locally, Working
<1>2. Present(s, p) /\ content[g] = view[u][p]
  BY <1>1 DEF Present, Isolated
<1>3. Root(s) /\ s \in Frame /\ s # r /\ file[u] \in Files /\ Holds(file[u], s)
  BY <1>1, RootsOf DEF Working, PageMaps, PageMap, Holds
<1>4. entry[s][p] \in Entry /\ g \in Frame /\ Refers(s, g) /\ g \in allocated
  <2>1. entry[s][p] \in Entry /\ g \in Frame
    BY <1>2, <1>3, FramesOf, Entries DEF Present
  <2>2. Refers(s, g)
    BY <2>1, Numbers DEF Refers
  <2> QED
    BY <1>3, <2>1, <2>2, ApartIs DEF FramesApart, FramesInUse
<1>5. ASSUME pc[t] \in Working PROVE Root(r) /\ r \in Frame /\ ~Owns(r, g)
  BY <1>3, <1>4, <1>5, RootsOf, ApartIs DEF FramesApart, OwnersApart
<1>6. ASSUME pc[t] = "app", Refers(r, g), file[t] \in clobbered' PROVE FALSE
  <2>1. pc[t] \in Working /\ file[t] \in Files /\ Holds(file[t], r)
    BY <1>6 DEF Working, PageMaps, PageMap, Holds
  <2>2. file[t] # file[u]
    BY <1>1, <1>6
  <2>3. PICK q \in Page : entry[r][q].frame = g
    BY <1>5, <1>6, <2>1 DEF Refers, Owns
  <2>4. Present(r, q) /\ Present(s, p)
    BY <1>2, <1>4, <1>5, <2>1, <2>3, FramesOf, Entries DEF Present
  <2> QED
    BY <1>3, <1>5, <2>1, <2>2, <2>3, <2>4 DEF Images, ImagesApart
<1>7. content'[g] = content[g]
  BY <1>4, <1>5, <1>6 DEF Locally
<1> QED
  BY <1>1, <1>2, <1>7

\* The cached images are untouched by it, when it writes below its own root only.
LEMMA ImagesStay ==
  ASSUME Types, FramesApart, PageMaps, Images, NEW t \in Tasks, Locally(t),
         \A a \in Files, r \in Frame : Holds(a, r)' => \/ Holds(a, r)
                                                       \/ pc[t] \in Working /\ r = cr3[t] /\ a = file[t],
         \* below its root t gets only new frames and those of the image, and what it shares is
         \* as in the file
         \A a \in Files, r \in Frame :
           pc[t] \in Working /\ r = cr3[t] /\ a = file[t] /\ Holds(a, r)' =>
             \A p \in Page : entry'[r][p] # Absent =>
               /\ \/ entry'[r][p].frame \in Frame \ allocated
                  \/ \E x \in Frame, q \in Page : /\ Holds(a, x) /\ Present(x, q)
                                                  /\ entry'[r][p].frame = entry[x][q].frame
               /\ a \notin clobbered' /\ ~entry'[r][p].writable => content'[entry'[r][p].frame] = "image"
  PROVE  Images'
<1> DEFINE c == cr3[t]
<1>1. \A r : Root(r) /\ ~(pc[t] \in Working /\ r = c) => entry'[r] = entry[r]
  BY DEF Locally
<1>2. \A a \in Files, r \in Frame : Holds(a, r)' /\ ~(pc[t] \in Working /\ r = c) =>
        Holds(a, r) /\ entry'[r] = entry[r] /\ Root(r)
  BY <1>1, RootsOf
<1>3. \A a \in Files, r \in Frame : pc[t] \in Working /\ r = c /\ Holds(a, r)' => a = file[t]
  BY HeldPrivately
<1>4. \A s \in Frame, q \in Page : Root(s) /\ Present(s, q) =>
        entry[s][q].frame \in Frame /\ entry[s][q].frame \in allocated /\ Refers(s, entry[s][q].frame)
  <2> SUFFICES ASSUME NEW s \in Frame, NEW q \in Page, Root(s), Present(s, q)
               PROVE  entry[s][q].frame \in Frame /\ entry[s][q].frame \in allocated /\ Refers(s, entry[s][q].frame)
    OBVIOUS
  <2>1. entry[s][q].frame \in Frame
    BY FramesOf, Entries DEF Present
  <2>2. Refers(s, entry[s][q].frame)
    BY <2>1, Numbers DEF Refers
  <2> QED
    BY <2>1, <2>2, ApartIs DEF FramesApart, FramesInUse
\* t's own pages, and those of another file's image
<1>5. ASSUME pc[t] \in Working, NEW a \in Files, NEW r \in Frame, r = c, Holds(a, r)',
             NEW b \in Files, b # a, NEW s \in Frame, Holds(b, s)',
             NEW p \in Page, NEW q \in Page, entry'[r][p] # Absent
      PROVE  entry'[r][p].frame # entry'[s][q].frame
  <2>1. a = file[t] /\ s # c /\ Holds(b, s) /\ entry'[s] = entry[s] /\ Root(s)
    BY <1>2, <1>3, <1>5
  <2>2. entry[s][q] \in Entry
    BY FramesOf
  <2>3. CASE entry'[r][p].frame \in Frame \ allocated
    BY <1>4, <2>1, <2>2, <2>3, Numbers, Entries DEF Present
  <2>4. CASE \E x \in Frame, y \in Page : /\ Holds(a, x) /\ Present(x, y)
                                          /\ entry'[r][p].frame = entry[x][y].frame
    BY <1>5, <2>1, <2>4 DEF Images, ImagesApart
  <2> QED
    BY <1>5, <2>1, <2>3, <2>4
<1>6. ImagesApart'
  <2> SUFFICES ASSUME NEW a \in Files, NEW b \in Files, a # b, NEW r \in Frame, NEW s \in Frame,
                      Holds(a, r)', Holds(b, s)', NEW p \in Page, NEW q \in Page, entry'[r][p] # Absent
               PROVE  entry'[r][p].frame # entry'[s][q].frame
    BY DEF ImagesApart, Present
  <2>1. CASE pc[t] \in Working /\ r = c
    BY <2>1, <1>5
  <2>2. CASE pc[t] \in Working /\ s = c
    <3>2. ASSUME entry'[s][q] # Absent PROVE entry'[r][p].frame # entry'[s][q].frame
      BY <2>2, <3>2, <1>5
    <3>3. ASSUME entry'[s][q] = Absent, ~(pc[t] \in Working /\ r = c) PROVE entry'[r][p].frame # entry'[s][q].frame
      <4>1. Holds(a, r) /\ entry'[r] = entry[r] /\ Root(r)
        BY <3>3, <1>2
      <4>2. entry'[r][p].frame \in Frame
        BY <4>1, <1>4 DEF Present
      <4> QED
        BY <3>3, <4>2, Entries, Numbers
    <3> QED
      BY <3>2, <3>3, <2>1
  <2>3. CASE ~(pc[t] \in Working /\ r = c) /\ ~(pc[t] \in Working /\ s = c)
    BY <2>3, <1>2 DEF Images, ImagesApart, Present
  <2> QED
    BY <2>1, <2>2, <2>3
<1>7. ImagesKept'
  <2> SUFFICES ASSUME NEW a \in Files, a \notin clobbered', NEW r \in Frame, Holds(a, r)',
                      NEW p \in Page, entry'[r][p] # Absent, ~entry'[r][p].writable
               PROVE  content'[entry'[r][p].frame] = "image"
    BY DEF ImagesKept, Present
  <2>1. CASE pc[t] \in Working /\ r = c
    BY <2>1, <1>3
  <2>2. CASE ~(pc[t] \in Working /\ r = c)
    <3>1. Holds(a, r) /\ entry'[r] = entry[r] /\ Root(r) /\ a \notin clobbered
      BY <2>2, <1>2 DEF Locally
    <3> DEFINE g == entry[r][p].frame
    <3>2. content[g] = "image" /\ Present(r, p) /\ g \in Frame /\ g \in allocated /\ Refers(r, g)
      BY <3>1, <1>4 DEF Images, ImagesKept, Present
    <3>3. ASSUME pc[t] \in Working PROVE Root(c) /\ c \in Frame /\ ~Owns(c, g)
      BY <2>2, <3>1, <3>2, <3>3, RootsOf, ApartIs DEF FramesApart, OwnersApart
    <3>4. ASSUME pc[t] = "app", Refers(c, g), file[t] \in clobbered' PROVE FALSE
      <4>1. pc[t] \in Working /\ file[t] \in Files /\ Holds(file[t], c)
        BY <3>4 DEF Working, PageMaps, PageMap, Holds
      <4>2. file[t] # a
        BY <3>4
      <4>3. PICK q \in Page : entry[c][q].frame = g
        BY <3>3, <3>4, <4>1 DEF Refers, Owns
      <4> QED
        BY <3>1, <3>2, <3>3, <4>1, <4>2, <4>3 DEF Images, ImagesApart
    <3>5. content'[g] = content[g]
      BY <3>2, <3>3, <3>4 DEF Locally
    <3> QED
      BY <3>1, <3>2, <3>5
  <2> QED
    BY <2>1, <2>2
<1> QED
  BY <1>6, <1>7 DEF Images

\* No frame is lost by the step: what is new is reachable, and what t gives up is freed or
\* reachable from another root.
LEMMA KeptStay ==
  ASSUME Types, FramesApart, PageMaps, FramesKept, NEW t \in Tasks, Locally(t), ~wasted,
         SharingOf(t)',
         \A f : f \in allocated' /\ f \notin allocated => \E s : Root(s)' /\ Refers(s, f)',
         \A r : Root(r) /\ ~(pc[t] \in Working /\ r = cr3[t]) => Root(r)',
         pc[t] \in Working =>
           \A f : f \in allocated' /\ Refers(cr3[t], f) => \E s : Root(s)' /\ Refers(s, f)'
  PROVE  FramesKept'
<1>1. ASSUME NEW u \in Tasks, u # t PROVE SharingOf(u)'
  <2>1. SharingOf(u) /\ pc'[u] = pc[u] /\ cr3'[u] = cr3[u] /\ file'[u] = file[u] /\ src'[u] = src[u]
    BY <1>1 DEF FramesKept, Locally
  <2>2. pc[u] \in Copying \cup {"setup", "app", "clean"} =>
          /\ app_loads[file[u]] # None /\ file[u] \in Files
          /\ app_loads'[file[u]] = app_loads[file[u]]
          /\ entry'[app_loads[file[u]]] = entry[app_loads[file[u]]]
    <3> SUFFICES ASSUME pc[u] \in Copying \cup {"setup", "app", "clean"}
                 PROVE  /\ app_loads[file[u]] # None /\ file[u] \in Files
                        /\ app_loads'[file[u]] = app_loads[file[u]]
                        /\ entry'[app_loads[file[u]]] = entry[app_loads[file[u]]]
      OBVIOUS
    <3>1. file[u] \in Files /\ app_loads[file[u]] # None
      BY <2>1 DEF PageMaps, PageMap, SharingOf, Copying
    <3>2. Root(app_loads[file[u]]) /\ (pc[t] \in Working => app_loads[file[u]] # cr3[t])
      BY <3>1, RootsOf DEF PageMaps, PageMap, Private
    <3> QED
      BY <3>1, <3>2 DEF Locally
  <2>3. pc[u] \in {"setup", "app", "clean"} => entry'[cr3[u]] = entry[cr3[u]]
    BY <1>1, OthersRoots DEF Working
  <2> QED
    BY <2>1, <2>2, <2>3 DEF SharingOf, Present
<1>2. \A f : f \in allocated => \E r : Root(r) /\ Refers(r, f)
  BY Sets DEF FramesKept
<1>3. \A f : f \in allocated' => \E s : Root(s)' /\ Refers(s, f)'
  <2> SUFFICES ASSUME NEW f, f \in allocated', f \in allocated PROVE \E s : Root(s)' /\ Refers(s, f)'
    OBVIOUS
  <2>1. PICK r : Root(r) /\ Refers(r, f)
    BY <1>2
  <2>2. CASE pc[t] \in Working /\ r = cr3[t]
    BY <2>1, <2>2
  <2>3. CASE ~(pc[t] \in Working /\ r = cr3[t])
    <3>1. Root(r)' /\ table'[r] = table[r] /\ entry'[r] = entry[r]
      BY <2>1, <2>3 DEF Locally
    <3>2. Refers(r, f)'
      BY <2>1, <3>1 DEF Refers
    <3> QED
      BY <3>1, <3>2
  <2> QED
    BY <2>2, <2>3
<1>4. allocated' \subseteq UNION {Reachable(r)' : r \in Live'}
  <2> SUFFICES ASSUME NEW f \in allocated' PROVE f \in UNION {Reachable(r)' : r \in Live'}
    OBVIOUS
  <2>1. PICK s : s \in Live' /\ f \in Reachable(s)'
    BY <1>3, SetsAfter
  <2> QED
    BY <2>1
<1> QED
  BY <1>1, <1>4 DEF FramesKept

\* What t's memory holds, as in Isolated.
MemoryOf(t) ==
  pc[t] = "app" /\ file[t] \notin clobbered =>
    \A p \in Page : Present(cr3[t], p) => content[entry[cr3[t]][p].frame] = view[t][p]

\* A step of t is sound when it is for t.
LEMMA StepOfOne ==
  ASSUME IInv, NEW t \in Tasks, Locally(t), Types', FramesApart', PageMap(t)',
         \A a \in Files : app_loads'[a] # app_loads[a] => OfImage(app_loads[a])',
         Images', MemoryOf(t)', FramesKept'
  PROVE  IInv'
<1> USE DEF IInv
<1>1. PageMaps'
  <2>1. /\ \A u \in Tasks : u # t => PageMap(u)'
        /\ \A u, v \in Tasks : cr3'[u] = cr3'[v] /\ cr3'[u] # Kernel => u = v
        /\ \A a \in Files : app_loads[a] # None => OfImage(app_loads[a])'
    BY OthersPageMaps
  <2>2. \A a \in Files : app_loads'[a] # None => OfImage(app_loads[a])'
    BY <2>1
  <2> QED
    BY <2>1, <2>2 DEF PageMaps
<1>2. Isolated'
  <2>1. \A u \in Tasks : u # t /\ pc'[u] = "app" /\ file'[u] \notin clobbered' =>
          \A p \in Page : Present(cr3[u], p)' => content'[entry'[cr3'[u]][p].frame] = view'[u][p]
    BY OthersIsolated
  <2>2. pc'[t] = "app" /\ file'[t] \notin clobbered' =>
          \A p \in Page : Present(cr3[t], p)' => content'[entry'[cr3'[t]][p].frame] = view'[t][p]
    BY DEF MemoryOf
  <2> QED
    BY <2>1, <2>2 DEF Isolated
<1> QED
  BY <1>1, <1>2

\* The same for a step that writes nothing.
LEMMA ImagesSame ==
  ASSUME Types, FramesApart, PageMaps, Images, NEW t \in Tasks, Locally(t),
         UNCHANGED <<entry, content>>,
         \A a \in Files, r \in Frame : Holds(a, r)' => Holds(a, r)
  PROVE  Images'
<1>1. ASSUME NEW a \in Files, NEW r \in Frame, Holds(a, r)', NEW p \in Page, entry'[r][p] # Absent
      PROVE  /\ Holds(a, r) /\ Present(r, p) /\ entry'[r][p].frame = entry[r][p].frame
             /\ a \notin clobbered' /\ ~entry'[r][p].writable => content'[entry'[r][p].frame] = "image"
  <2>1. Holds(a, r) /\ entry' = entry /\ content' = content
    BY <1>1
  <2> QED
    BY <1>1, <2>1 DEF Present, Locally, Images, ImagesKept
<1> QED
  BY <1>1, ImagesStay

\* Fail keeps the invariant.
LEMMA FailIsSound ==
  ASSUME IInv, NEW t \in Tasks, Fail(t),
         UNCHANGED <<app_loads, cr3, file, src, todo, lazy, view, runs, clobbered>>
  PROVE  IInv'
<1> USE DEF IInv
<1>1. /\ pc' = [pc EXCEPT ![t] = "prompt"] /\ wasted' = TRUE
      /\ UNCHANGED <<allocated, table, entry, content, app_loads, cr3, file, src, todo, lazy, view,
                     runs, clobbered>>
  BY DEF Fail, Goto
<1>2. Types' /\ pc \in [Tasks -> Places]
  BY <1>1 DEF Types, Places
<1>3. pc'[t] = "prompt" /\ \A u \in Tasks : u # t => pc'[u] = pc[u]
  BY <1>1, <1>2
<1>4. Locally(t)
  BY <1>1, <1>3 DEF Locally, Copying
<1>5. FramesApart'
  <2>1. \A s : Root(s)' => Root(s)
    BY <1>1, <1>3 DEF Root, Copying
  <2> QED
    BY <1>1, <2>1, NothingBelow
<1>6. PageMap(t)'
  BY <1>3 DEF PageMap, Working, Copying
<1>7. Images'
  <2>1. \A a \in Files, r \in Frame : Holds(a, r)' => Holds(a, r)
    BY <1>1, <1>3 DEF Holds, Copying
  <2> QED
    BY <1>1, <1>4, <2>1, ImagesSame
<1>8. MemoryOf(t)' /\ FramesKept'
  BY <1>1, <1>3 DEF MemoryOf, FramesKept
<1> QED
  BY <1>1, <1>2, <1>4, <1>5, <1>6, <1>7, <1>8, StepOfOne

-----------------------------------------------------------------------------
(* LoadApp *)

\* ExecuteFile keeps the invariant.
LEMMA ExecuteFileIsSound ==
  ASSUME IInv, NEW t \in Tasks, NEW a \in Files, ExecuteFile(t, a)
  PROVE  IInv'
<1> USE DEF IInv
<1>1. /\ pc[t] = "prompt" /\ pc' = [pc EXCEPT ![t] = "pml4"] /\ file' = [file EXCEPT ![t] = a]
      /\ runs' = runs + 1
      /\ UNCHANGED <<allocated, table, entry, content, app_loads, cr3, src, todo, lazy, view,
                     wasted, clobbered>>
  BY DEF ExecuteFile, Goto, At
<1>2. Types' /\ pc \in [Tasks -> Places] /\ file \in [Tasks -> Files \cup {AnyFile}]
  BY <1>1 DEF Types, Places
<1>3. /\ pc'[t] = "pml4" /\ file'[t] = a
      /\ \A u \in Tasks : u # t => pc'[u] = pc[u] /\ file'[u] = file[u]
  BY <1>1, <1>2
<1>4. Locally(t)
  BY <1>1, <1>3 DEF Locally, Copying
<1>5. \A s : Root(s)' <=> Root(s)
  BY <1>1, <1>3 DEF Root, Copying
<1>6. FramesApart'
  BY <1>1, <1>5, NothingBelow
<1>7. PageMap(t)'
  BY <1>3 DEF PageMap, Working, Copying
<1>8. Images'
  <2>1. \A b \in Files, r \in Frame : Holds(b, r)' => Holds(b, r)
    BY <1>1, <1>3 DEF Holds, Copying
  <2> QED
    BY <1>1, <1>4, <2>1, ImagesSame
<1>9. FramesKept'
  <2>1. CASE ~wasted
    <3>1. SharingOf(t)' /\ pc[t] \notin Working
      BY <1>1, <1>3, <2>1 DEF FramesKept, SharingOf, Copying, Working
    <3> QED
      BY <1>1, <1>4, <1>5, <2>1, <3>1, KeptStay
  <2> QED
    BY <1>1, <2>1 DEF FramesKept
<1>10. MemoryOf(t)'
  BY <1>3 DEF MemoryOf
<1> QED
  BY <1>1, <1>2, <1>4, <1>6, <1>7, <1>8, <1>9, <1>10, StepOfOne

\* A free frame belongs to no page map in use.
LEMMA FreeFrames ==
  ASSUME Types, FramesApart, NEW n \in Frame, n \notin allocated
  PROVE  \A r : Root(r) => r # n /\ ~Refers(r, n) /\ ~Owns(r, n)
<1> SUFFICES ASSUME NEW r, Root(r) PROVE r # n /\ ~Refers(r, n) /\ ~Owns(r, n)
  OBVIOUS
<1>1. ~Refers(r, n)
  BY ApartIs DEF FramesApart, FramesInUse
<1>2. r # n
  BY <1>1 DEF Refers, Root
<1> QED
  BY <1>1, <1>2, FramesOf

\* SetupPML4 keeps the invariant.
LEMMA SetupPML4IsSound ==
  ASSUME IInv, NEW t \in Tasks, NEW next,
         \/ pc[t] = "pml4" /\ next = "find"
         \/ pc[t] = "pml4again" /\ next = "copy",
         SetupPML4(t, next), UNCHANGED <<app_loads, file, src, todo, lazy, view, runs, clobbered>>
  PROVE  IInv'
<1> USE DEF IInv
<1>1. CASE Full
  BY <1>1, FailIsSound DEF SetupPML4
<1>2. CASE ~Full
  <2>1. PICK n \in Frame : n \notin allocated /\ n = NewFrame
    BY <1>2, NewFrameIsFree DEF Types
  <2>2. /\ allocated' = allocated \cup {n} /\ table' = [table EXCEPT ![n] = None]
        /\ entry' = [entry EXCEPT ![n] = [p \in Page |-> Absent]]
        /\ cr3' = [cr3 EXCEPT ![t] = n] /\ pc' = [pc EXCEPT ![t] = next]
        /\ UNCHANGED <<content, app_loads, file, src, todo, lazy, view, runs, wasted, clobbered>>
    BY <1>2, <2>1 DEF SetupPML4, Goto
  <2>3. Types'
    <3>1. next \in Places /\ [p \in Page |-> Absent] \in [Page -> Entry]
      BY Entries DEF Places
    <3> QED
      BY <2>1, <2>2, <3>1 DEF Types
  <2>4. /\ table'[n] = None /\ \A r \in Frame : r # n => table'[r] = table[r] /\ entry'[r] = entry[r]
        /\ \A p \in Page : entry'[n][p] = Absent
        /\ cr3'[t] = n /\ pc'[t] = next /\ \A u \in Tasks : u # t => cr3'[u] = cr3[u] /\ pc'[u] = pc[u]
    BY <2>1, <2>2 DEF Types
  <2>5. Locally(t)
    <3>1. \A r : Root(r) => r # n /\ r \in Frame
      BY <2>1, FreeFrames, FramesOf
    <3>2. pc'[t] \in Copying => pc[t] \in Copying /\ src'[t] = src[t]
      BY <2>2, <2>4 DEF Copying
    <3> QED
      BY <2>1, <2>2, <2>4, <3>1, <3>2 DEF Locally
  <2>6. \A s : Root(s)' /\ s # n => Root(s)
    BY <2>2, <2>4 DEF Root, Copying
  <2>7. FramesApart'
    <3>1. \A f : Refers(n, f)' => f = n
      BY <2>4, Entries DEF Refers
    <3>2. \A f : Owns(n, f)' => f = n
      BY <2>4, Entries DEF Owns
    <3>3. OnePlace(n)'
      <4>1. table'[n] # n /\ \A p \in Page : entry'[n][p] = Absent /\ entry'[n][p].frame # n
        BY <2>1, <2>4, Numbers, Entries
      <4> QED
        BY <4>1 DEF OnePlace, Present
    <3>4. \A s : Root(s)' /\ s # n => Root(s) /\ table'[s] = table[s] /\ entry'[s] = entry[s]
      BY <2>4, <2>6, FramesOf
    <3>5. \A s : Root(s) => ~Owns(s, n)
      BY <2>1, FreeFrames
    <3> QED
      BY <2>1, <2>2, <3>1, <3>2, <3>3, <3>4, <3>5, ChangeBelow
  <2>8. PageMap(t)'
    <3>1. Private(t)'
      <4>1. \A a \in Files : app_loads'[a] # n
        BY <2>1, <2>2, RootsOf, FreeFrames, Numbers
      <4>2. \A u \in Tasks : pc'[u] \in Copying => src'[u] # n
        <5>1. \A u \in Tasks : pc'[u] \in Copying => pc[u] \in Copying
          BY <2>4 DEF Copying
        <5> QED
          BY <2>1, <2>2, <5>1, RootsOf, FreeFrames
      <4> QED
        BY <2>1, <2>4, <4>1, <4>2, Numbers DEF Private
    <3>2. Empty(cr3[t])'
      BY <2>4 DEF Empty
    <3>3. pc'[t] \in Copying => src'[t] # None /\ OfImage(src[t])'
      <4>1. pc'[t] \in Copying => pc[t] \in Copying /\ src[t] \in Frame /\ src[t] # n /\ OfImage(src[t])
        BY <2>1, <2>4, RootsOf, FreeFrames DEF Copying, PageMaps, PageMap
      <4> QED
        BY <2>2, <2>4, <4>1, Numbers DEF OfImage, Present
    <3>4. file'[t] \in Files
      BY <2>2 DEF PageMaps, PageMap
    <3> QED
      BY <2>4, <3>1, <3>2, <3>3, <3>4 DEF PageMap, Copying
  <2>9. Images'
    <3>1. \A b \in Files, r \in Frame : Holds(b, r)' => Holds(b, r)
      BY <2>2, <2>4 DEF Holds, Copying
    <3>2. pc[t] \notin Working
      BY DEF Working
    <3> QED
      BY <2>5, <3>1, <3>2, ImagesStay
  <2>10. MemoryOf(t)'
    BY <2>4 DEF MemoryOf
  <2>11. FramesKept'
    <3>1. CASE ~wasted
      <4>1. SharingOf(t) /\ pc[t] \notin Working
        BY <3>1 DEF FramesKept, Working
      <4>2. SharingOf(t)'
        BY <2>2, <2>4, <4>1 DEF SharingOf, Copying
      <4>3. \A f : f \in allocated' /\ f \notin allocated => \E s : Root(s)' /\ Refers(s, f)'
        <5>1. Root(n)' /\ Refers(n, n)'
          BY <2>1, <2>4, Numbers DEF Root, Refers
        <5> QED
          BY <2>2, <5>1
      <4>4. \A r : Root(r) => Root(r)'
        <5>1. \A r : Root(r) /\ r = cr3[t] => Root(r)'
          <6>1. pc[t] = "pml4again" => cr3[t] = src[t] /\ pc'[t] \in Copying
            BY <2>4 DEF PageMaps, PageMap, Copying
          <6>2. pc[t] = "pml4" => cr3[t] = Kernel
            BY <4>1 DEF SharingOf
          <6> QED
            BY <2>2, <6>1, <6>2 DEF Root
        <5>2. \A u \in Tasks : pc[u] \in Copying => pc'[u] \in Copying
          BY <2>4 DEF Copying
        <5> QED
          BY <2>2, <2>4, <5>1, <5>2 DEF Root
      <4> QED
        BY <3>1, <2>5, <4>1, <4>2, <4>3, <4>4, KeptStay
    <3> QED
      BY <2>2, <3>1 DEF FramesKept
  <2> QED
    BY <2>3, <2>5, <2>7, <2>8, <2>9, <2>10, <2>11, <2>2, StepOfOne
<1> QED
  BY <1>1, <1>2

\* PML4 keeps the invariant.
LEMMA PML4IsSound ==
  ASSUME IInv, NEW t \in Tasks, FirstPML4(t) \/ SecondPML4(t)
  PROVE  IInv'
BY SetupPML4IsSound DEF FirstPML4, SecondPML4, At

\* FindLoaded keeps the invariant.
LEMMA FindLoadedIsSound ==
  ASSUME IInv, NEW t \in Tasks, FindLoaded(t)
  PROVE  IInv'
<1> USE DEF IInv
<1> DEFINE a == file[t]
<1>1. /\ pc[t] = "find" /\ a \in Files
      /\ UNCHANGED <<allocated, table, entry, content, app_loads, cr3, file, lazy, view, runs, clobbered>>
  BY DEF FindLoaded, At, PageMaps, PageMap
<1>2. /\ pc[t] \in Working /\ Private(t) /\ Empty(cr3[t]) /\ cr3[t] \in Frame
      /\ pc \in [Tasks -> Places] /\ src \in [Tasks -> Frame \cup {None}] /\ todo \in [Tasks -> SUBSET Page]
      /\ app_loads[a] \in Frame \cup {None}
  BY <1>1, RootsOf DEF PageMaps, PageMap, Working, Types
<1>3. \/ /\ app_loads[a] # None /\ src' = [src EXCEPT ![t] = app_loads[a]]
         /\ pc' = [pc EXCEPT ![t] = "copy"] /\ todo' = todo /\ wasted' = wasted
      \/ /\ pc' = [pc EXCEPT ![t] = "load"] /\ todo' = [todo EXCEPT ![t] = Image]
         /\ src' = src /\ wasted' = wasted
      \/ /\ pc' = [pc EXCEPT ![t] = "prompt"] /\ src' = src /\ todo' = todo /\ wasted' = TRUE
  BY DEF FindLoaded, Goto
<1>4. /\ \A u \in Tasks : u # t => pc'[u] = pc[u] /\ src'[u] = src[u] /\ todo'[u] = todo[u]
      /\ \/ /\ pc'[t] = "copy" /\ src'[t] = app_loads[a] /\ app_loads[a] # None /\ wasted' = wasted
         \/ pc'[t] = "load" /\ todo'[t] = Image /\ wasted' = wasted
         \/ pc'[t] = "prompt" /\ wasted' = TRUE
  BY <1>2, <1>3
<1>5. Types'
  <2>1. pc' \in [Tasks -> Places]
    BY <1>2, <1>3 DEF Places
  <2>2. src' \in [Tasks -> Frame \cup {None}]
    BY <1>2, <1>3
  <2>3. todo' \in [Tasks -> SUBSET Page]
    <3>1. Image \in SUBSET Page
      BY DEF Page
    <3> QED
      BY <1>2, <1>3, <3>1
  <2>4. wasted' \in BOOLEAN
    BY <1>3 DEF Types
  <2> QED
    BY <2>1, <2>2, <2>3, <2>4, <1>1 DEF Types
<1>6. Locally(t)
  BY <1>1, <1>4 DEF Locally, Copying
<1>7. \A s : Root(s)' <=> Root(s)
  <2>1. \A s : Root(s)' => Root(s)
    BY <1>1, <1>4 DEF Root, Copying
  <2>2. \A u \in Tasks : pc[u] \in Copying => pc'[u] \in Copying /\ src'[u] = src[u]
    BY <1>1, <1>4 DEF Copying
  <2>3. \A s : Root(s) => Root(s)'
    BY <1>1, <2>2 DEF Root
  <2> QED
    BY <2>1, <2>3
<1>8. FramesApart'
  BY <1>1, <1>7, NothingBelow
<1>9. PageMap(t)'
  <2>1. ASSUME pc'[t] \in Working PROVE Private(t)'
    <3>1. pc'[t] \in Copying => src'[t] # cr3[t]
      BY <1>1, <1>2, <1>4 DEF Copying, Private
    <3> QED
      BY <1>1, <1>2, <1>4, <3>1 DEF Private
  <2>2. Empty(cr3[t])'
    BY <1>1, <1>2 DEF Empty
  <2>3. OfImage(cr3[t])' /\ \A p \in Page : ~Present(cr3[t], p)'
    BY <2>2 DEF Empty, OfImage, Present
  <2>4. pc'[t] \in Copying => src'[t] # None /\ OfImage(src[t])'
    <3>1. pc'[t] \in Copying => src'[t] = app_loads[a] /\ app_loads[a] # None /\ OfImage(app_loads[a])
      BY <1>1, <1>4 DEF Copying, PageMaps
    <3> QED
      BY <1>1, <3>1 DEF OfImage, Present
  <2>5. pc'[t] = "load" => todo'[t] \subseteq Image /\ Image \subseteq Page
    BY <1>4 DEF Page
  <2>6. pc'[t] \in {"copy", "load", "prompt"}
    BY <1>4
  <2> QED
    BY <1>1, <2>1, <2>2, <2>3, <2>4, <2>5, <2>6 DEF PageMap
<1>10. Images'
  <2>1. ASSUME NEW b \in Files, NEW r \in Frame, Holds(b, r)'
        PROVE  Holds(b, r) \/ (pc[t] \in Working /\ r = cr3[t] /\ b = file[t])
    BY <1>1, <1>2, <1>4, <2>1 DEF Holds, Copying
  <2>2. \A p \in Page : entry'[cr3[t]][p] = Absent
    BY <1>1, <1>2 DEF Empty
  <2> QED
    BY <1>6, <2>1, <2>2, ImagesStay
<1>11. MemoryOf(t)'
  BY <1>4 DEF MemoryOf
<1>12. FramesKept'
  <2>1. CASE ~wasted'
    <3>1. ~wasted /\ pc'[t] \in {"copy", "load"}
      BY <1>3, <1>4, <2>1
    <3>2. SharingOf(t)'
      BY <1>1, <1>4, <3>1 DEF SharingOf, Copying
    <3>3. \A f : f \in allocated' /\ Refers(cr3[t], f) => \E s : Root(s)' /\ Refers(s, f)'
      <4>1. \A s, f : Refers(s, f)' <=> Refers(s, f)
        BY <1>1 DEF Refers
      <4>2. Root(cr3[t])
        BY <1>2, RootsOf
      <4> QED
        BY <1>1, <1>7, <4>1, <4>2
    <3> QED
      BY <1>1, <1>6, <1>7, <3>1, <3>2, <3>3, KeptStay
  <2> QED
    BY <2>1 DEF FramesKept
<1> QED
  BY <1>1, <1>5, <1>6, <1>8, <1>9, <1>10, <1>11, <1>12, StepOfOne

\* InsertLoaded keeps the invariant.
LEMMA InsertLoadedIsSound ==
  ASSUME IInv, NEW t \in Tasks, InsertLoaded(t)
  PROVE  IInv'
<1> USE DEF IInv
<1> DEFINE a == file[t]
<1>1. /\ pc[t] = "load" /\ a \in Files
      /\ src' = [src EXCEPT ![t] = cr3[t]] /\ pc' = [pc EXCEPT ![t] = "pml4again"]
      /\ UNCHANGED <<allocated, table, entry, content, cr3, file, todo, lazy, view, runs, clobbered>>
  BY DEF InsertLoaded, At, Goto, PageMaps, PageMap
<1>2. /\ pc[t] \in Working /\ Private(t) /\ OfImage(cr3[t]) /\ cr3[t] \in Frame
      /\ pc \in [Tasks -> Places] /\ src \in [Tasks -> Frame \cup {None}]
      /\ app_loads \in [Files -> Frame \cup {None}]
  BY <1>1, RootsOf DEF PageMaps, PageMap, Working, Types
<1>3. \/ app_loads[a] = None /\ app_loads' = [app_loads EXCEPT ![a] = cr3[t]] /\ wasted' = wasted
      \/ app_loads[a] # None /\ app_loads' = app_loads /\ wasted' = TRUE
  BY DEF InsertLoaded
<1>4. /\ pc'[t] = "pml4again" /\ src'[t] = cr3[t]
      /\ \A u \in Tasks : u # t => pc'[u] = pc[u] /\ src'[u] = src[u]
      /\ \A b \in Files : b # a => app_loads'[b] = app_loads[b]
      /\ \/ app_loads[a] = None /\ app_loads'[a] = cr3[t] /\ wasted' = wasted
         \/ app_loads[a] # None /\ app_loads'[a] = app_loads[a] /\ wasted' = TRUE
  BY <1>1, <1>2, <1>3
<1>5. Types'
  <2>1. pc' \in [Tasks -> Places] /\ src' \in [Tasks -> Frame \cup {None}]
        /\ app_loads' \in [Files -> Frame \cup {None}] /\ wasted' \in BOOLEAN
    BY <1>1, <1>2, <1>3 DEF Places, Types
  <2> QED
    BY <2>1, <1>1 DEF Types
<1>6. Locally(t)
  BY <1>1, <1>4 DEF Locally
<1>7. \A s : Root(s)' <=> Root(s)
  <2>1. Root(cr3[t])
    BY <1>2, RootsOf
  <2>2. \A s : Root(s)' => Root(s)
    BY <1>1, <1>4, <2>1 DEF Root
  <2>3. \A u \in Tasks : pc[u] \in Copying => pc'[u] \in Copying /\ src'[u] = src[u]
    BY <1>1, <1>4 DEF Copying
  <2>4. \A b \in Files : app_loads[b] # None => app_loads'[b] = app_loads[b]
    BY <1>4
  <2>5. \A s : Root(s) => Root(s)'
    BY <1>1, <2>3, <2>4 DEF Root
  <2> QED
    BY <2>2, <2>5
<1>8. FramesApart'
  BY <1>1, <1>7, NothingBelow
<1>9. OfImage(cr3[t])'
  BY <1>1, <1>2 DEF OfImage, Present
<1>10. PageMap(t)'
  <2>1. OfImage(src[t])' /\ src'[t] # None /\ src'[t] = cr3'[t] /\ file'[t] \in Files
    BY <1>1, <1>2, <1>4, <1>9, Numbers DEF OfImage, Present
  <2> QED
    BY <1>4, <2>1 DEF PageMap, Working, Copying
<1>11. \A b \in Files : app_loads'[b] # app_loads[b] => OfImage(app_loads[b])'
  BY <1>1, <1>4, <1>9 DEF OfImage, Present
<1>12. Images'
  <2>1. \A b \in Files, r \in Frame : Holds(b, r)' => Holds(b, r)
    BY <1>1, <1>4 DEF Holds, Copying
  <2> QED
    BY <1>1, <1>6, <2>1, ImagesSame
<1>13. MemoryOf(t)'
  BY <1>4 DEF MemoryOf
<1>14. FramesKept'
  <2>1. CASE ~wasted'
    <3>1. ~wasted /\ src'[t] = app_loads'[file'[t]]
      BY <1>1, <1>4, <2>1
    <3>2. SharingOf(t)'
      BY <1>4, <3>1 DEF SharingOf
    <3>3. \A f : f \in allocated' /\ Refers(cr3[t], f) => \E s : Root(s)' /\ Refers(s, f)'
      <4>1. \A s, f : Refers(s, f)' <=> Refers(s, f)
        BY <1>1 DEF Refers
      <4>2. Root(cr3[t])
        BY <1>2, RootsOf
      <4> QED
        BY <1>1, <1>7, <4>1, <4>2
    <3> QED
      BY <1>1, <1>6, <1>7, <3>1, <3>2, <3>3, KeptStay
  <2> QED
    BY <2>1 DEF FramesKept
<1> QED
  BY <1>5, <1>6, <1>8, <1>10, <1>11, <1>12, <1>13, <1>14, StepOfOne

-----------------------------------------------------------------------------
(* ExecuteFile *)

\* A step of t with its page map set up, that takes and frees no frame and writes at most to
\* pages that are its own or to an image that counts as clobbered from then on.
LEMMA QuietStep ==
  ASSUME IInv, NEW t \in Tasks,
         pc[t] \in {"setup", "app"}, pc'[t] \in {"app", "clean", "halt"},
         \A u \in Tasks : u # t => pc'[u] = pc[u] /\ lazy'[u] = lazy[u] /\ view'[u] = view[u],
         UNCHANGED <<allocated, table, entry, app_loads, cr3, file, src, todo, runs, wasted>>,
         clobbered \subseteq clobbered',
         \A f \in Frame : \/ content'[f] = content[f]
                          \/ \E p \in Page : /\ pc[t] = "app" /\ f = entry[cr3[t]][p].frame
                                             /\ entry[cr3[t]][p].writable \/ file[t] \in clobbered',
         Types', PageMap(t)', MemoryOf(t)'
  PROVE  IInv'
<1> USE DEF IInv
<1> DEFINE r == cr3[t]
<1>1. pc[t] \in Working /\ r \in Frame /\ Root(r) /\ file[t] \in Files /\ pc[t] # "halt"
  BY RootsOf DEF Working, PageMaps, PageMap
<1>2. Holds(file[t], r)
  BY <1>1 DEF Holds
<1>3. Locally(t)
  <2>1. \A f \in Frame, p \in Page : f = entry[r][p].frame => Refers(r, f)
    BY Numbers DEF Refers
  <2>2. \A f \in Frame, p \in Page : f = entry[r][p].frame /\ entry[r][p].writable => Owns(r, f)
    BY Numbers DEF Owns
  <2>3. \A f \in Frame : \/ content'[f] = content[f]
                         \/ pc[t] \in Working /\ Owns(r, f)
                         \/ pc[t] = "app" /\ Refers(r, f) /\ file[t] \in clobbered'
    BY <1>1, <2>1, <2>2
  <2> QED
    BY <2>3 DEF Locally, Copying
<1>4. \A s : Root(s)' <=> Root(s)
  BY DEF Root, Copying
<1>5. FramesApart'
  BY <1>4, NothingBelow
<1>6. Images'
  <2>1. \A b \in Files, s \in Frame : Holds(b, s)' => Holds(b, s)
    BY DEF Holds, Copying
  <2>2. ASSUME NEW p \in Page, entry'[r][p] # Absent
        PROVE  /\ \E x \in Frame, q \in Page : /\ Holds(file[t], x) /\ Present(x, q)
                                               /\ entry'[r][p].frame = entry[x][q].frame
               /\ file[t] \notin clobbered' /\ ~entry'[r][p].writable => content'[entry'[r][p].frame] = "image"
    <3>1. entry'[r][p] = entry[r][p] /\ Present(r, p) /\ entry[r][p].frame \in Frame
      BY <1>1, <2>2, FramesOf, Entries DEF Present
    <3>2. ASSUME file[t] \notin clobbered', ~entry[r][p].writable
          PROVE  content'[entry[r][p].frame] = "image"
      <4>1. content[entry[r][p].frame] = "image"
        BY <1>1, <1>2, <3>1, <3>2 DEF Images, ImagesKept
      <4>2. \A q \in Page : entry[r][q].frame = entry[r][p].frame => q = p
        BY <1>1, <3>1, Sets DEF FramesApart, OnePlace
      <4> QED
        BY <3>1, <3>2, <4>1, <4>2
    <3> QED
      BY <1>1, <1>2, <3>1, <3>2
  <2> QED
    BY <1>3, <2>1, <2>2, ImagesStay
<1>7. FramesKept'
  <2>1. CASE ~wasted
    <3>1. SharingOf(t)'
      BY <2>1 DEF FramesKept, SharingOf, Copying, Present
    <3>2. \A s, f : Refers(s, f)' <=> Refers(s, f)
      BY DEF Refers
    <3> QED
      BY <1>1, <1>3, <1>4, <2>1, <3>1, <3>2, KeptStay
  <2> QED
    BY <2>1 DEF FramesKept
<1> QED
  BY <1>3, <1>5, <1>6, <1>7, StepOfOne

\* BadArguments keeps the invariant.
LEMMA BadArgumentsIsSound ==
  ASSUME IInv, NEW t \in Tasks, BadArguments(t)
  PROVE  IInv'
BY FailIsSound DEF BadArguments

\* CallApp keeps the invariant.
LEMMA CallAppIsSound ==
  ASSUME IInv, NEW t \in Tasks, CallApp(t)
  PROVE  IInv'
<1> USE DEF IInv
<1> DEFINE r == cr3[t]
<1>1. /\ pc[t] = "setup" /\ todo[t] = {} /\ pc' = [pc EXCEPT ![t] = "app"]
      /\ lazy' = [lazy EXCEPT ![t] = "none"]
      /\ view' = [view EXCEPT ![t] = [p \in Page |-> Initial(p)]]
      /\ UNCHANGED <<allocated, table, entry, content, app_loads, cr3, file, src, todo, runs,
                     wasted, clobbered>>
  BY DEF CallApp, Goto, At
<1>2. PageMap(t) /\ r \in Frame /\ file[t] \in Files /\ Private(t) /\ Holds(file[t], r)
  BY <1>1, RootsOf DEF PageMaps, PageMap, Working, Holds
<1>3. /\ pc'[t] = "app" /\ lazy'[t] = "none" /\ \A p \in Page : view'[t][p] = Initial(p)
      /\ \A u \in Tasks : u # t => pc'[u] = pc[u] /\ lazy'[u] = lazy[u] /\ view'[u] = view[u]
  BY <1>1 DEF Types
<1>4. Types'
  <2>1. [p \in Page |-> Initial(p)] \in [Page -> Bytes] /\ "app" \in Places
    BY DEF Initial, Bytes, Places
  <2> QED
    BY <1>1, <2>1 DEF Types
<1>5. Stack # Lazy /\ Stack \in Page /\ Lazy \in Page /\ Stack \notin Image /\ Lazy \notin Image
  BY PagingAssumption DEF Stack, Lazy, Page
<1>6. PageMap(t)'
  <2>1. Private(t)'
    BY <1>1, <1>2, <1>3 DEF Private, Copying
  <2>2. ~Present(r, Lazy)
    BY <1>1, <1>2, <1>5 DEF PageMap
  <2> QED
    BY <1>1, <1>2, <1>3, <2>1, <2>2 DEF PageMap, Present, Copying
<1>7. MemoryOf(t)'
  <2> SUFFICES ASSUME file[t] \notin clobbered, NEW p \in Page, Present(r, p)
               PROVE  content[entry[r][p].frame] = Initial(p)
    BY <1>1, <1>3 DEF MemoryOf, Present
  <2>1. CASE entry[r][p].writable
    <3>1. p = Stack /\ content[entry[r][p].frame] = "zero"
      BY <1>1, <1>2, <2>1 DEF PageMap
    <3> QED
      BY <3>1, <1>5 DEF Initial
  <2>2. CASE ~entry[r][p].writable
    <3>1. p \in Image
      BY <1>1, <1>2, <2>2 DEF PageMap
    <3> QED
      BY <1>2, <2>2, <3>1 DEF Images, ImagesKept, Initial
  <2> QED
    BY <2>1, <2>2
<1> QED
  BY <1>1, <1>3, <1>4, <1>6, <1>7, QuietStep

\* Extend keeps the invariant.
LEMMA ExtendIsSound ==
  ASSUME IInv, NEW t \in Tasks, Extend(t)
  PROVE  IInv'
<1> USE DEF IInv
<1> DEFINE r == cr3[t]
<1>1. PICK bytes \in LazyBytes :
        /\ pc[t] = "app" /\ lazy[t] = "none"
        /\ lazy' = [lazy EXCEPT ![t] = bytes] /\ view' = [view EXCEPT ![t][Lazy] = bytes]
        /\ UNCHANGED <<allocated, table, entry, content, app_loads, cr3, pc, file, src, todo, runs,
                       wasted, clobbered>>
  BY DEF Extend, At, locals
<1>2. /\ PageMap(t) /\ Private(t) /\ ~Present(r, Lazy) /\ file[t] \in Files
  BY <1>1 DEF PageMaps, PageMap, Working
<1>3. /\ Lazy \in Page /\ lazy'[t] = bytes /\ view'[t][Lazy] = bytes
      /\ \A p \in Page : p # Lazy => view'[t][p] = view[t][p]
      /\ \A u \in Tasks : u # t => lazy'[u] = lazy[u] /\ view'[u] = view[u]
  BY <1>1 DEF Types, Page
<1>4. Types'
  <2>1. lazy' \in [Tasks -> LazyBytes \cup {"none"}]
    BY <1>1 DEF Types
  <2>2. view' \in [Tasks -> [Page -> Bytes]]
    BY <1>1, <1>3 DEF Types, Bytes
  <2> QED
    BY <1>1, <2>1, <2>2 DEF Types
<1>5. PageMap(t)'
  <2>1. Private(t)'
    BY <1>1, <1>2 DEF Private
  <2> QED
    BY <1>1, <1>2, <1>3, <2>1 DEF PageMap, Present, Copying
<1>6. MemoryOf(t)'
  <2> SUFFICES ASSUME file[t] \notin clobbered, NEW p \in Page, Present(r, p)
               PROVE  content[entry[r][p].frame] = view'[t][p]
    BY <1>1 DEF MemoryOf, Present
  <2>1. p # Lazy
    BY <1>2
  <2> QED
    BY <1>1, <1>3, <2>1 DEF Isolated
<1> QED
  BY <1>1, <1>3, <1>4, <1>5, <1>6, QuietStep

\* LeaveApp keeps the invariant.
LEMMA LeaveAppIsSound ==
  ASSUME IInv, NEW t \in Tasks, NEW place \in {"clean", "halt"},
         pc[t] = "app", Goto(t, place),
         UNCHANGED <<allocated, table, entry, content, app_loads, cr3, file, src, todo, lazy, view,
                     runs, wasted, clobbered>>
  PROVE  IInv'
<1> USE DEF IInv
<1>1. pc'[t] = place /\ \A u \in Tasks : u # t => pc'[u] = pc[u]
  BY DEF Goto, Types
<1>2. Types'
  BY DEF Types, Goto, Places
<1>3. PageMap(t)'
  <2>1. Private(t) /\ file[t] \in Files
    BY DEF PageMaps, PageMap, Working
  <2>2. Private(t)'
    BY <1>1, <2>1 DEF Private, Copying
  <2> QED
    BY <1>1, <2>1, <2>2 DEF PageMap, Copying
<1>4. MemoryOf(t)'
  BY <1>1 DEF MemoryOf
<1> QED
  BY <1>1, <1>2, <1>3, <1>4, QuietStep

\* Exit keeps the invariant.
LEMMA ExitIsSound ==
  ASSUME IInv, NEW t \in Tasks, Fault(t) \/ ExitApp(t)
  PROVE  IInv'
<1>1. PICK place \in {"clean", "halt"} : Goto(t, place)
  BY DEF Fault, ExitApp, KillApp
<1> QED
  BY <1>1, LeaveAppIsSound DEF Fault, ExitApp, At

\* Write keeps the invariant.
LEMMA WriteIsSound ==
  ASSUME IInv, NEW t \in Tasks, NEW p \in Page, UserWrite(t, p) \/ KernelWrite(t, p)
  PROVE  IInv'
<1> USE DEF IInv
<1> DEFINE r == cr3[t]
           e == entry[r][p]
<1>1. /\ pc[t] = "app" /\ content' = [content EXCEPT ![e.frame] = t]
      /\ view' = [view EXCEPT ![t][p] = t]
      /\ UNCHANGED <<allocated, table, entry, app_loads, cr3, pc, file, src, todo, lazy, runs, wasted>>
  BY DEF UserWrite, KernelWrite, At, locals
<1>2. /\ PageMap(t) /\ Private(t) /\ r \in Frame /\ Root(r) /\ file[t] \in Files /\ e \in Entry
  BY <1>1, RootsOf, FramesOf DEF PageMaps, PageMap, Working
<1>3. Present(r, p) /\ e.frame \in Frame
  <2>1. e # Absent
    BY <1>2, Entries DEF UserWrite, KernelWrite
  <2> QED
    BY <1>2, <2>1, Entries DEF Present
<1>4. clobbered \subseteq clobbered' /\ (e.writable \/ file[t] \in clobbered')
      /\ clobbered' \subseteq clobbered \cup {file[t]}
  BY DEF UserWrite, KernelWrite
<1>5. /\ view'[t][p] = t /\ \A q \in Page : q # p => view'[t][q] = view[t][q]
      /\ \A u \in Tasks : u # t => view'[u] = view[u]
      /\ content'[e.frame] = t /\ \A f \in Frame : f # e.frame => content'[f] = content[f]
  BY <1>1, <1>3 DEF Types
<1>6. Types'
  <2>1. content' \in [Frame -> Bytes] /\ view' \in [Tasks -> [Page -> Bytes]]
    BY <1>1 DEF Types, Bytes
  <2> QED
    BY <1>1, <1>2, <1>4, <2>1 DEF Types
<1>7. PageMap(t)'
  <2>1. Private(t)'
    BY <1>1, <1>2 DEF Private
  <2>2. lazy[t] # "none" /\ ~Present(r, Lazy) => view'[t][Lazy] = lazy[t]
    BY <1>1, <1>2, <1>3, <1>5 DEF PageMap, Page
  <2> QED
    BY <1>1, <1>2, <2>1, <2>2 DEF PageMap, Present, Copying
<1>8. MemoryOf(t)'
  <2> SUFFICES ASSUME file[t] \notin clobbered', NEW q \in Page, Present(r, q)
               PROVE  content'[entry[r][q].frame] = view'[t][q]
    BY <1>1 DEF MemoryOf, Present
  <2>1. CASE q = p
    BY <2>1, <1>5
  <2>2. CASE q # p
    <3>1. entry[r][q].frame \in Frame /\ entry[r][q].frame # e.frame
      <4>1. entry[r][q] \in Entry /\ entry[r][q] # Absent
        BY <1>2, FramesOf DEF Present
      <4>2. OnePlace(r)
        BY <1>2, Sets DEF FramesApart
      <4> QED
        BY <2>2, <4>1, <4>2, Entries DEF OnePlace
    <3>2. content[entry[r][q].frame] = view[t][q]
      BY <1>1, <1>4 DEF Isolated
    <3> QED
      BY <1>5, <2>2, <3>1, <3>2
  <2> QED
    BY <2>1, <2>2
<1>9. \A f \in Frame : \/ content'[f] = content[f]
                       \/ \E q \in Page : /\ pc[t] = "app" /\ f = entry[r][q].frame
                                          /\ entry[r][q].writable \/ file[t] \in clobbered'
  BY <1>1, <1>4, <1>5
<1> QED
  BY <1>1, <1>4, <1>5, <1>6, <1>7, <1>8, <1>9, QuietStep

-----------------------------------------------------------------------------
(* Frames for tables and pages *)

\* A new frame n becomes the page p of t, which was absent or shared.
PageAdded(t, p, n, e, bytes) ==
  /\ pc[t] \in {"load", "setup", "app"} /\ ~entry[cr3[t]][p].writable
  /\ pc[t] # "app" => ~Present(cr3[t], p)
  /\ n \notin allocated /\ allocated' = allocated \cup {n}
  /\ e.frame = n /\ (e.writable \/ (bytes = "image" /\ pc[t] = "load"))
  /\ entry' = [entry EXCEPT ![cr3[t]][p] = e]
  /\ content' = [content EXCEPT ![n] = bytes]
  /\ \A u \in Tasks : u # t => todo'[u] = todo[u]
  /\ UNCHANGED <<table, app_loads, cr3, pc, file, src, lazy, view, runs, wasted, clobbered>>

\* A new page in a task's own page map: the rest of the invariant follows from its own part.
LEMMA AddPage ==
  ASSUME IInv, NEW t \in Tasks, NEW p \in Page, NEW n \in Frame, NEW e \in Entry, NEW bytes,
         PageAdded(t, p, n, e, bytes), Types', PageMap(t)', MemoryOf(t)'
  PROVE  IInv'
<1> USE DEF IInv, PageAdded
<1> DEFINE r == cr3[t]
<1>1. pc[t] \in Working /\ r \in Frame /\ Root(r) /\ file[t] \in Files /\ Private(t) /\ Holds(file[t], r)
  BY RootsOf DEF Working, PageMaps, PageMap, Holds
<1>2. /\ entry'[r][p].frame = n /\ entry'[r][p].writable = e.writable
      /\ \A q \in Page : q # p => entry'[r][q] = entry[r][q]
      /\ \A s \in Frame : s # r => entry'[s] = entry[s]
      /\ \A f \in Frame : f # n => content'[f] = content[f]
      /\ content'[n] = bytes
  BY <1>1, Entries DEF Types
<1>3. \A q \in Page : entry[r][q] \in Entry
  BY <1>1, FramesOf
<1>4. Locally(t)
  BY <1>1, <1>2, FramesOf DEF Locally, Copying
<1>5. \A s : Root(s)' <=> Root(s)
  BY DEF Root
<1>6. \A s : Root(s) => s # n /\ ~Refers(s, n) /\ ~Owns(s, n)
  BY FreeFrames
<1>7. \A q \in Page : Present(r, q) => entry[r][q].frame \in Frame /\ entry[r][q].frame # n
  <2> SUFFICES ASSUME NEW q \in Page, Present(r, q) PROVE entry[r][q].frame \in Frame /\ entry[r][q].frame # n
    OBVIOUS
  <2>1. entry[r][q].frame \in Frame
    BY <1>3, Entries DEF Present
  <2>2. Refers(r, entry[r][q].frame)
    BY <2>1, Numbers DEF Refers
  <2> QED
    BY <1>1, <1>6, <2>1, <2>2
<1>8. FramesApart'
  <2>1. OnePlace(r) /\ FramesInUse /\ OwnersApart
    BY <1>1, Sets, ApartIs DEF FramesApart
  <2>2. \A x, f : x = r /\ Refers(x, f)' => f = n \/ Refers(r, f)
    BY <1>2 DEF Refers
  <2>3. \A x, f : x = r /\ Owns(x, f)' => f = n \/ Owns(r, f)
    BY <1>2 DEF Owns
  <2>4. \A x : x = r => OnePlace(x)'
    <3>1. table[r] # n
      BY <1>1, <1>6, Numbers DEF Refers
    <3>2. n # r /\ entry'[r][p] # Absent
      BY <1>1, <1>2, <1>6, Entries, Numbers
    <3>3. \A q \in Page : entry'[r][q].frame # r /\ (entry'[r][q] # Absent => entry'[r][q].frame # table[r])
      BY <1>2, <2>1, <3>1, <3>2 DEF OnePlace, Present
    <3>4. ASSUME NEW q \in Page, NEW x \in Page, entry'[r][q] # Absent, entry'[r][q].frame = entry'[r][x].frame
          PROVE  q = x
      <4>1. CASE q # p /\ x # p
        BY <1>2, <2>1, <3>4, <4>1 DEF OnePlace, Present
      <4>2. CASE q = p /\ x # p
        <5>1. entry[r][x].frame = n /\ entry[r][x] \in Entry
          BY <1>2, <1>3, <3>4, <4>2
        <5> QED
          BY <1>7, <5>1, Entries DEF Present
      <4>3. CASE q # p /\ x = p
        BY <1>2, <1>7, <3>4, <4>3 DEF Present
      <4> QED
        BY <4>1, <4>2, <4>3
    <3>5. table'[r] # r
      BY <2>1 DEF OnePlace
    <3> QED
      BY <3>3, <3>4, <3>5 DEF OnePlace, Present
  <2>5. \A s : Root(s)' /\ s # r => Root(s) /\ table'[s] = table[s] /\ entry'[s] = entry[s]
    BY <1>2, <1>5, FramesOf
  <2>6. \A x, f : x = r /\ Refers(x, f)' => f \in allocated' /\ \A s : Root(s) /\ s # r => ~Owns(s, f)
    <3>1. \A s : Root(s) /\ s # r => ~Owns(s, n)
      BY <1>6
    <3>2. \A f : Refers(r, f) => f \in allocated /\ \A s : Root(s) /\ s # r => ~Owns(s, f)
      BY <1>1, <2>1 DEF FramesInUse, OwnersApart
    <3> QED
      BY <2>2, <3>1, <3>2
  <2>7. \A x, f : x = r /\ Owns(x, f)' => f \notin allocated \/ (Root(r) /\ Owns(r, f))
    BY <1>1, <2>3
  <2> HIDE DEF r
  <2>8. PICK x : x = r
    OBVIOUS
  <2>9. /\ \A s : Root(s)' /\ s # x => Root(s) /\ table'[s] = table[s] /\ entry'[s] = entry[s]
        /\ \A f : Refers(x, f)' => f \in allocated' /\ \A s : Root(s) /\ s # x => ~Owns(s, f)
        /\ \A f : Owns(x, f)' => f \notin allocated \/ (Root(x) /\ Owns(x, f))
        /\ OnePlace(x)'
    BY <2>4, <2>5, <2>6, <2>7, <2>8
  <2> QED
    BY <2>9, ChangeBelow
<1>9. Images'
  <2>1. \A b \in Files, s \in Frame : Holds(b, s)' => Holds(b, s)
    BY DEF Holds
  <2>2. ASSUME NEW q \in Page, entry'[r][q] # Absent
        PROVE  /\ \/ entry'[r][q].frame \in Frame \ allocated
                  \/ \E x \in Frame, y \in Page : /\ Holds(file[t], x) /\ Present(x, y)
                                                  /\ entry'[r][q].frame = entry[x][y].frame
               /\ file[t] \notin clobbered' /\ ~entry'[r][q].writable => content'[entry'[r][q].frame] = "image"
    <3>1. CASE q = p
      BY <1>2, <3>1
    <3>2. CASE q # p
      <4>1. entry'[r][q] = entry[r][q] /\ Present(r, q) /\ content'[entry[r][q].frame] = content[entry[r][q].frame]
        BY <1>2, <1>7, <2>2, <3>2 DEF Present
      <4> QED
        BY <1>1, <4>1 DEF Images, ImagesKept
    <3> QED
      BY <3>1, <3>2
  <2> QED
    BY <1>4, <2>1, <2>2, ImagesStay
<1>10. FramesKept'
  <2>1. CASE ~wasted
    <3>1. SharingOf(t)
      BY <2>1 DEF FramesKept
    <3>2. pc[t] \in {"setup", "app"} =>
            LET m == app_loads[file[t]]
            IN  m # None /\ m # r /\ m \in Frame /\ Root(m) /\ entry'[m] = entry[m] /\ table'[m] = table[m]
      BY <1>1, <1>2, <3>1, RootsOf DEF SharingOf, Private
    <3>3. SharingOf(t)'
      <4>1. pc[t] \in {"setup", "app"} =>
              \A q \in Page : entry'[r][q] # Absent /\ ~entry'[r][q].writable =>
                \E y \in Page : entry'[app_loads[file[t]]][y].frame = entry'[r][q].frame
        BY <1>2, <3>1, <3>2 DEF SharingOf, Present
      <4> QED
        BY <3>1, <4>1 DEF SharingOf, Present, Copying
    <3>4. \A f : f \in allocated' /\ f \notin allocated => \E s : Root(s)' /\ Refers(s, f)'
      <4>1. \A x : x = r => Refers(x, n)'
        BY <1>2, Numbers DEF Refers
      <4> QED
        BY <1>1, <1>5, <4>1
    <3>5. ASSUME NEW f, Refers(r, f) PROVE \E s : Root(s)' /\ Refers(s, f)'
      <4>1. CASE f = r \/ f = table[r] \/ \E q \in Page : q # p /\ entry[r][q].frame = f
        <5>1. \A x : x = r => Refers(x, f)'
          BY <1>2, <3>5, <4>1 DEF Refers
        <5> QED
          BY <1>1, <1>5, <5>1
      <4>2. CASE entry[r][p].frame = f
        <5> DEFINE m == app_loads[file[t]]
        <5>1. Present(r, p) /\ pc[t] = "app"
          <6>1. f # None
            BY <3>5 DEF Refers
          <6> QED
            BY <4>2, <6>1, Entries DEF Present
        <5>2. PICK y \in Page : entry[m][y].frame = f
          BY <3>1, <4>2, <5>1 DEF SharingOf
        <5>3. entry'[m][y].frame = f /\ Root(m) /\ f # None
          BY <3>2, <3>5, <5>1, <5>2 DEF Refers
        <5>4. \A x : x = m => Refers(x, f)'
          BY <5>3 DEF Refers
        <5> QED
          BY <1>5, <5>3, <5>4
      <4> QED
        BY <3>5, <4>1, <4>2 DEF Refers
    <3> QED
      BY <1>1, <1>4, <1>5, <2>1, <3>3, <3>4, <3>5, KeptStay
  <2> QED
    BY <2>1 DEF FramesKept
<1> QED
  BY <1>4, <1>8, <1>9, <1>10, StepOfOne

\* CopyLoadSegments keeps the invariant.
LEMMA CopyLoadSegmentsIsSound ==
  ASSUME IInv, NEW t \in Tasks, CopyLoadSegments(t)
  PROVE  IInv'
<1> USE DEF IInv
<1> DEFINE r == cr3[t]
<1>1. /\ pc[t] = "load" /\ todo[t] # {}
      /\ UNCHANGED <<app_loads, cr3, file, src, lazy, view, runs, clobbered>>
  BY DEF CopyLoadSegments, At
<1>2. /\ PageMap(t) /\ Private(t) /\ r \in Frame /\ Root(r) /\ file[t] \in Files
      /\ OfImage(r) /\ todo[t] \subseteq Image /\ \A q \in todo[t] : ~Present(r, q)
  BY <1>1, RootsOf DEF PageMaps, PageMap, Working
<1>3. CASE Full
  BY <1>1, <1>3, FailIsSound DEF CopyLoadSegments
<1>4. CASE ~Full
  <2>1. PICK p \in todo[t], n \in Frame :
          /\ n \notin allocated /\ allocated' = allocated \cup {n}
          /\ IF table[r] = None
             THEN table' = [table EXCEPT ![r] = n] /\ UNCHANGED <<entry, content>>
             ELSE /\ entry' = [entry EXCEPT ![r][p] = [frame |-> n, writable |-> FALSE]]
                  /\ content' = [content EXCEPT ![n] = "image"] /\ UNCHANGED table
          /\ todo' = [todo EXCEPT ![t] = IF table[r] = None THEN @ ELSE @ \ {p}]
          /\ UNCHANGED <<pc, wasted>>
    <3>1. NewFrame \in Frame /\ NewFrame \notin allocated
      BY <1>4, NewFrameIsFree DEF Types
    <3>2. (CHOOSE q \in todo[t] : TRUE) \in todo[t]
      BY <1>1
    <3> QED
      BY <1>4, <3>1, <3>2 DEF CopyLoadSegments, SetupPage
  <2>2. /\ p \in Page /\ p \in Image /\ ~Present(r, p)
        /\ \A u \in Tasks : u # t => todo'[u] = todo[u]
    BY <1>2, <2>1 DEF Page, Types
  <2>3. CASE table[r] = None
    <3>1. /\ allocated' = allocated \cup {n} /\ table' = [table EXCEPT ![r] = n] /\ todo' = todo
          /\ UNCHANGED <<entry, content, pc, wasted>>
      BY <2>1, <2>3 DEF Types
    <3>2. table'[r] = n /\ \A s \in Frame : s # r => table'[s] = table[s]
      BY <1>2, <3>1 DEF Types
    <3>3. Types'
      BY <1>1, <2>1, <3>1 DEF Types
    <3>4. Locally(t)
      BY <1>1, <1>2, <3>1, <3>2, FramesOf DEF Locally, Copying, Working
    <3>5. \A s : Root(s)' <=> Root(s)
      BY <1>1, <3>1 DEF Root
    <3>6. \A s : Root(s) => s # n /\ ~Refers(s, n) /\ ~Owns(s, n)
      BY <2>1, FreeFrames
    <3>7. FramesApart'
      <4>1. OnePlace(r) /\ FramesInUse /\ OwnersApart
        BY <1>2, Sets, ApartIs DEF FramesApart
      <4>2. PICK x : x = r
        OBVIOUS
      <4>3. \A f : Refers(x, f)' => f = n \/ Refers(x, f)
        BY <3>1, <3>2, <4>2 DEF Refers
      <4>4. \A f : Owns(x, f)' => f = n \/ Owns(x, f)
        BY <3>1, <3>2, <4>2 DEF Owns
      <4>5. OnePlace(x)'
        <5>1. \A q \in Page : entry[r][q].frame # n
          BY <1>2, <2>1, <3>6, Numbers DEF Refers
        <5> QED
          BY <1>2, <3>1, <3>2, <3>6, <4>1, <4>2, <5>1 DEF OnePlace, Present
      <4>6. \A f : Refers(x, f)' => f \in allocated' /\ \A s : Root(s) /\ s # x => ~Owns(s, f)
        BY <1>2, <3>1, <3>6, <4>1, <4>2, <4>3 DEF FramesInUse, OwnersApart
      <4>7. \A s : Root(s)' /\ s # x => Root(s) /\ table'[s] = table[s] /\ entry'[s] = entry[s]
        BY <3>1, <3>2, <3>5, <4>2, FramesOf
      <4>8. \A f : Owns(x, f)' => f \notin allocated \/ (Root(x) /\ Owns(x, f))
        BY <1>2, <2>1, <4>2, <4>4
      <4> QED
        BY <3>1, <4>5, <4>6, <4>7, <4>8, ChangeBelow
    <3>8. PageMap(t)'
      <4>1. Private(t)'
        BY <1>1, <1>2, <3>1 DEF Private
      <4> QED
        BY <1>1, <1>2, <3>1, <4>1 DEF PageMap, OfImage, Present, Copying
    <3>9. Images'
      <4>1. \A b \in Files, s \in Frame : Holds(b, s)' => Holds(b, s)
        BY <1>1, <3>1 DEF Holds
      <4> QED
        BY <3>1, <3>4, <4>1, ImagesSame
    <3>10. MemoryOf(t)'
      BY <1>1, <3>1 DEF MemoryOf
    <3>11. FramesKept'
      <4>1. CASE ~wasted
        <5>1. SharingOf(t)'
          BY <1>1, <3>1 DEF SharingOf, Copying
        <5>2. \A x : x = r => Refers(x, n)' /\ \A f : Refers(x, f) => Refers(x, f)'
          BY <2>3, <3>1, <3>2, Numbers DEF Refers
        <5>3. \A f : f \in allocated' /\ f \notin allocated => \E s : Root(s)' /\ Refers(s, f)'
          BY <1>2, <3>1, <3>5, <5>2
        <5>4. \A f : f \in allocated' /\ Refers(r, f) => \E s : Root(s)' /\ Refers(s, f)'
          BY <1>2, <3>5, <5>2
        <5> QED
          BY <3>4, <3>5, <4>1, <5>1, <5>3, <5>4, KeptStay
      <4> QED
        BY <3>1, <4>1 DEF FramesKept
    <3> QED
      BY <1>1, <3>3, <3>4, <3>7, <3>8, <3>9, <3>10, <3>11, StepOfOne
  <2>4. CASE table[r] # None
    <3>1. /\ allocated' = allocated \cup {n} /\ entry' = [entry EXCEPT ![r][p] = [frame |-> n, writable |-> FALSE]]
          /\ content' = [content EXCEPT ![n] = "image"] /\ UNCHANGED <<table, pc, wasted>>
          /\ todo' = [todo EXCEPT ![t] = @ \ {p}]
      BY <2>1, <2>4
    <3>2. /\ entry'[r][p].frame = n /\ entry'[r][p].writable = FALSE
          /\ \A q \in Page : q # p => entry'[r][q] = entry[r][q]
      BY <1>2, <2>2, <3>1, Entries DEF Types
    <3>3. Types'
      <4>1. entry' \in [Frame -> [Page -> Entry]]
        BY <3>1, Entries DEF Types
      <4>2. content' \in [Frame -> Bytes]
        BY <3>1 DEF Types, Bytes
      <4>3. todo' \in [Tasks -> SUBSET Page]
        BY <3>1 DEF Types
      <4> QED
        BY <1>1, <3>1, <4>1, <4>2, <4>3 DEF Types
    <3>4. PageMap(t)'
      <4>1. Private(t)'
        BY <1>1, <1>2, <3>1 DEF Private
      <4>2. OfImage(cr3[t])'
        BY <1>1, <1>2, <2>2, <3>2 DEF OfImage, Present
      <4>3. todo'[t] = todo[t] \ {p}
        BY <3>1 DEF Types
      <4>4. todo'[t] \subseteq Image /\ \A q \in todo'[t] : ~Present(cr3[t], q)'
        BY <1>1, <1>2, <3>2, <4>3 DEF Present, Page
      <4> QED
        BY <1>1, <1>2, <3>1, <4>1, <4>2, <4>4 DEF PageMap, Copying
    <3>5. MemoryOf(t)'
      BY <1>1, <3>1 DEF MemoryOf
    <3>6. ~entry[r][p].writable
      BY <1>2, <2>2, FramesOf, Entries DEF Present
    <3>7. n \notin allocated /\ UNCHANGED <<table, app_loads, cr3, pc, file, src, lazy, view, runs, wasted, clobbered>>
      BY <1>1, <2>1, <3>1
    <3>8. PICK e \in Entry : e = [frame |-> n, writable |-> FALSE] /\ e.frame = n
      BY Entries
    <3>9. PICK bytes : bytes = "image"
      OBVIOUS
    <3>10. /\ entry' = [entry EXCEPT ![cr3[t]][p] = e]
           /\ content' = [content EXCEPT ![n] = bytes]
      BY <3>1, <3>8, <3>9
    <3>11. pc[t] \in {"load", "setup", "app"} /\ (pc[t] # "app" => ~Present(cr3[t], p))
           /\ (e.writable \/ (bytes = "image" /\ pc[t] = "load"))
      BY <1>1, <2>2, <3>9
    <3>12. allocated' = allocated \cup {n} /\ \A u \in Tasks : u # t => todo'[u] = todo[u]
      BY <2>2, <3>1
    <3>13. PageAdded(t, p, n, e, bytes)
      BY <3>6, <3>7, <3>8, <3>10, <3>11, <3>12 DEF PageAdded
    <3> QED
      BY <2>2, <3>3, <3>4, <3>5, <3>13, AddPage
  <2> QED
    BY <2>3, <2>4
<1> QED
  BY <1>3, <1>4

\* SetupStack keeps the invariant.
LEMMA SetupStackIsSound ==
  ASSUME IInv, NEW t \in Tasks, SetupStack(t)
  PROVE  IInv'
<1> USE DEF IInv
<1> DEFINE r == cr3[t]
<1>1. /\ pc[t] = "setup" /\ todo[t] # {}
      /\ UNCHANGED <<app_loads, cr3, file, src, lazy, view, runs, clobbered>>
  BY DEF SetupStack, At
<1>2. /\ PageMap(t) /\ Private(t) /\ r \in Frame /\ Root(r) /\ file[t] \in Files
      /\ table[r] # None /\ Stack \in Page /\ Stack \notin Image /\ ~Present(r, Stack)
  BY <1>1, RootsOf, PagingAssumption DEF PageMaps, PageMap, Working, Page
<1>3. CASE Full
  BY <1>1, <1>3, FailIsSound DEF SetupStack
<1>4. CASE ~Full
  <2>1. PICK n \in Frame :
          /\ n \notin allocated /\ allocated' = allocated \cup {n}
          /\ entry' = [entry EXCEPT ![r][Stack] = [frame |-> n, writable |-> TRUE]]
          /\ content' = [content EXCEPT ![n] = "zero"]
          /\ todo' = [todo EXCEPT ![t] = {}]
          /\ UNCHANGED <<table, pc, wasted>>
    <3>1. NewFrame \in Frame /\ NewFrame \notin allocated
      BY <1>4, NewFrameIsFree DEF Types
    <3> QED
      BY <1>2, <1>4, <3>1 DEF SetupStack, SetupPage
  <2>2. /\ entry'[r][Stack].frame = n /\ entry'[r][Stack].writable = TRUE /\ content'[n] = "zero"
        /\ \A q \in Page : q # Stack => entry'[r][q] = entry[r][q]
        /\ todo'[t] = {} /\ \A u \in Tasks : u # t => todo'[u] = todo[u]
    BY <1>2, <2>1, Entries DEF Types
  <2>3. Types'
    <3>1. entry' \in [Frame -> [Page -> Entry]]
      BY <2>1, Entries DEF Types
    <3>2. content' \in [Frame -> Bytes]
      BY <2>1 DEF Types, Bytes
    <3>3. todo' \in [Tasks -> SUBSET Page]
      BY <2>1 DEF Types
    <3> QED
      BY <1>1, <2>1, <3>1, <3>2, <3>3 DEF Types
  <2>4. PageMap(t)'
    <3>1. Private(t)'
      BY <1>1, <1>2, <2>1 DEF Private
    <3> QED
      BY <1>1, <1>2, <2>1, <2>2, <3>1 DEF PageMap, Present, Copying
  <2>5. MemoryOf(t)'
    BY <1>1, <2>1 DEF MemoryOf
  <2>6. ~entry[r][Stack].writable
    BY <1>2, FramesOf, Entries DEF Present
  <2>7. n \notin allocated /\ UNCHANGED <<table, app_loads, cr3, pc, file, src, lazy, view, runs, wasted, clobbered>>
    BY <1>1, <2>1
  <2>8. PICK e \in Entry : e = [frame |-> n, writable |-> TRUE] /\ e.frame = n /\ e.writable
    BY Entries
  <2>9. PICK bytes : bytes = "zero"
    OBVIOUS
  <2>10. /\ entry' = [entry EXCEPT ![cr3[t]][Stack] = e]
         /\ content' = [content EXCEPT ![n] = bytes]
    BY <2>1, <2>8, <2>9
  <2>11. pc[t] \in {"load", "setup", "app"} /\ (pc[t] # "app" => ~Present(cr3[t], Stack))
         /\ (e.writable \/ (bytes = "image" /\ pc[t] = "load"))
    BY <1>1, <1>2, <2>8
  <2>12. allocated' = allocated \cup {n} /\ \A u \in Tasks : u # t => todo'[u] = todo[u]
    BY <2>1, <2>2
  <2>13. PageAdded(t, Stack, n, e, bytes)
    BY <2>6, <2>7, <2>8, <2>10, <2>11, <2>12 DEF PageAdded
  <2> QED
    BY <1>2, <2>3, <2>4, <2>5, <2>13, AddPage
<1> QED
  BY <1>3, <1>4

\* PageFault keeps the invariant.
LEMMA PageFaultIsSound ==
  ASSUME IInv, NEW t \in Tasks, NEW p \in Page, NEW user \in BOOLEAN, PageFault(t, p, user)
  PROVE  IInv'
<1> USE DEF IInv
<1> DEFINE r == cr3[t]
<1>1. /\ pc[t] = "app"
      /\ UNCHANGED <<table, app_loads, cr3, file, src, todo, lazy, view, runs, wasted, clobbered>>
  BY DEF PageFault, At
<1>2. /\ PageMap(t) /\ Private(t) /\ r \in Frame /\ Root(r) /\ file[t] \in Files
      /\ \A q \in Page : entry[r][q] \in Entry
  BY <1>1, RootsOf, FramesOf DEF PageMaps, PageMap, Working
<1>3. CASE KillApp(t, user) /\ UNCHANGED <<allocated, entry, content>>
  <2>1. PICK place \in {"clean", "halt"} : Goto(t, place)
    BY <1>3 DEF KillApp
  <2> QED
    BY <1>1, <1>3, <2>1, LeaveAppIsSound
<1>4. CASE ~Full /\ UNCHANGED pc /\ \/ Present(r, p) /\ user /\ ~entry[r][p].writable /\ CopyOnePage(r, p)
                                    \/ ~Present(r, p) /\ p = Lazy /\ lazy[t] # "none" /\ PreparePage(r, p, lazy[t])
  <2>1. PICK n \in Frame : n \notin allocated /\ n = NewFrame
    BY <1>4, NewFrameIsFree DEF Types
  <2>2. PICK e \in Entry : e = [frame |-> n, writable |-> TRUE] /\ e.frame = n /\ e.writable /\ e # Absent
    BY Entries
  <2>3. PICK bytes \in Bytes :
          /\ content' = [content EXCEPT ![n] = bytes]
          /\ \/ Present(r, p) /\ bytes = content[entry[r][p].frame]
             \/ p = Lazy /\ lazy[t] # "none" /\ ~Present(r, p) /\ bytes = lazy[t]
    <3>1. CASE Present(r, p) /\ CopyOnePage(r, p)
      <4>1. content[entry[r][p].frame] \in Bytes
        BY <1>2, <3>1, Entries DEF Types, Present
      <4> QED
        BY <2>1, <3>1, <4>1 DEF CopyOnePage
    <3>2. CASE ~Present(r, p) /\ p = Lazy /\ lazy[t] # "none" /\ PreparePage(r, p, lazy[t])
      <4>1. lazy[t] \in Bytes
        BY DEF Types, Bytes
      <4> QED
        BY <2>1, <3>2, <4>1 DEF PreparePage
    <3> QED
      BY <1>4, <3>1, <3>2
  <2>4. allocated' = allocated \cup {n} /\ entry' = [entry EXCEPT ![r][p] = e]
    BY <1>4, <2>1, <2>2 DEF CopyOnePage, PreparePage
  <2>5. ~entry[r][p].writable
    BY <1>2, <1>4, Entries DEF Present
  <2>6. PageAdded(t, p, n, e, bytes)
    <3>1. \A u \in Tasks : u # t => todo'[u] = todo[u]
      BY <1>1
    <3>2. UNCHANGED <<table, app_loads, cr3, pc, file, src, lazy, view, runs, wasted, clobbered>>
      BY <1>1, <1>4
    <3> QED
      BY <1>1, <2>1, <2>2, <2>3, <2>4, <2>5, <3>1, <3>2 DEF PageAdded
  <2>7. /\ entry'[r][p] = e /\ \A q \in Page : q # p => entry'[r][q] = entry[r][q]
        /\ content'[n] = bytes /\ \A f \in Frame : f # n => content'[f] = content[f]
    BY <1>2, <2>3, <2>4 DEF Types
  <2>8. Types'
    <3>1. entry' \in [Frame -> [Page -> Entry]] /\ content' \in [Frame -> Bytes]
      BY <2>3, <2>4 DEF Types
    <3>2. allocated' \subseteq Frame
      BY <2>4 DEF Types
    <3> QED
      BY <1>1, <1>4, <3>1, <3>2 DEF Types
  <2>9. PageMap(t)'
    <3>1. Private(t)'
      BY <1>1, <1>2, <1>4 DEF Private
    <3>2. \A q \in Page : entry'[r][q] # Absent /\ ~entry'[r][q].writable => q \in Image
      BY <1>1, <1>2, <2>2, <2>7 DEF PageMap, Present
    <3>3. p = Lazy => lazy[t] # "none"
      BY <1>1, <1>2, <1>4 DEF PageMap
    <3>4. Lazy \in Page
      BY DEF Page
    <3>5. lazy[t] = "none" => entry'[r][Lazy] = Absent
      BY <1>1, <1>2, <2>7, <3>3, <3>4 DEF PageMap, Present
    <3>6. lazy[t] # "none" /\ entry'[r][Lazy] = Absent => view[t][Lazy] = lazy[t]
      BY <1>1, <1>2, <2>2, <2>7, <3>4 DEF PageMap, Present
    <3> QED
      BY <1>1, <1>2, <1>4, <3>1, <3>2, <3>5, <3>6 DEF PageMap, Present, Copying
  <2>10. MemoryOf(t)'
    <3> SUFFICES ASSUME file[t] \notin clobbered, NEW q \in Page, entry'[r][q] # Absent
                 PROVE  content'[entry'[r][q].frame] = view[t][q]
      BY <1>1, <1>4 DEF MemoryOf, Present
    <3>1. \A x \in Page : Present(r, x) => content[entry[r][x].frame] = view[t][x]
      BY <1>1 DEF Isolated
    <3>2. CASE q = p
      <4>1. content'[entry'[r][q].frame] = bytes
        BY <2>2, <2>7, <3>2
      <4>2. bytes = view[t][p]
        BY <1>1, <1>2, <2>3, <3>1 DEF PageMap
      <4> QED
        BY <3>2, <4>1, <4>2
    <3>3. CASE q # p
      <4>1. entry'[r][q] = entry[r][q] /\ Present(r, q)
        BY <2>7, <3>3 DEF Present
      <4>2. entry[r][q].frame \in Frame
        BY <1>2, <4>1, Entries DEF Present
      <4>3. entry[r][q].frame # n
        BY <1>2, <2>1, <4>2, FreeFrames, Numbers DEF Refers
      <4> QED
        BY <2>7, <3>1, <4>1, <4>2, <4>3
    <3> QED
      BY <3>2, <3>3
  <2> QED
    BY <2>6, <2>8, <2>9, <2>10, AddPage
<1> QED
  BY <1>3, <1>4 DEF PageFault

-----------------------------------------------------------------------------
(* Frames given back *)

\* The page map of a task that cleans it up holds no image.
LEMMA HoldsNothing ==
  ASSUME PageMaps, NEW t \in Tasks, pc[t] \in {"clean", "free"}, NEW a \in Files
  PROVE  ~Holds(a, cr3[t])
<1>1. Private(t) /\ \A u \in Tasks : cr3[u] = cr3[t] /\ cr3[t] # Kernel => u = t
  BY DEF PageMaps, PageMap, Working
<1> QED
  BY <1>1 DEF Holds, Private

\* FreePML4 keeps the invariant.
LEMMA FreePML4IsSound ==
  ASSUME IInv, NEW t \in Tasks, FreePML4(t)
  PROVE  IInv'
<1> USE DEF IInv
<1> DEFINE r == cr3[t]
<1>1. /\ pc[t] = "free" /\ allocated' = allocated \ {r}
      /\ cr3' = [cr3 EXCEPT ![t] = Kernel] /\ pc' = [pc EXCEPT ![t] = "prompt"]
      /\ UNCHANGED <<table, entry, content, app_loads, file, src, todo, lazy, view, runs, wasted,
                     clobbered>>
  BY DEF FreePML4, At, Goto
<1>2. /\ cr3'[t] = Kernel /\ pc'[t] = "prompt"
      /\ \A u \in Tasks : u # t => cr3'[u] = cr3[u] /\ pc'[u] = pc[u]
  BY <1>1 DEF Types
<1>3. Private(t) /\ r \in Frame /\ Root(r) /\ Empty(r)
  BY <1>1, RootsOf DEF PageMaps, PageMap, Working
<1>4. Types'
  BY <1>1 DEF Types, Places
<1>5. Locally(t)
  BY <1>1, <1>2 DEF Locally, Copying
<1>6. PICK x : x = r
  OBVIOUS
<1>7. ~Root(x)'
  <2>1. \A u \in Tasks : cr3'[u] # x
    BY <1>1, <1>2, <1>3, <1>6, Numbers, RootsOf DEF Working
  <2>2. \A u \in Tasks : pc'[u] \in Copying => src'[u] # x
    BY <1>1, <1>2, <1>3, <1>6 DEF Private, Copying
  <2> QED
    BY <1>1, <1>3, <1>6, <2>1, <2>2 DEF Root, Private
<1>8. \A s : Root(s)' => Root(s)
  BY <1>1, <1>2 DEF Root, Copying
<1>9. \A s : Root(s) /\ s # r => Root(s)'
  BY <1>1, <1>2 DEF Root, Copying
<1>10. FramesApart'
  <2>1. Owns(r, r)
    BY <1>3, Numbers DEF Owns
  <2>2. \A f : f \in allocated /\ f \notin allocated' => Root(x) /\ Owns(x, f)
    BY <1>1, <1>3, <1>6, <2>1
  <2> QED
    BY <1>1, <1>7, <1>8, <2>2, ChangeBelow
<1>11. PageMap(t)'
  BY <1>2 DEF PageMap, Working, Copying
<1>12. Images'
  <2>1. \A a \in Files, s \in Frame : Holds(a, s)' => Holds(a, s)
    BY <1>1, <1>2 DEF Holds, Copying
  <2> QED
    BY <1>1, <1>5, <2>1, ImagesSame
<1>13. MemoryOf(t)'
  BY <1>2 DEF MemoryOf
<1>14. FramesKept'
  <2>1. CASE ~wasted
    <3>1. SharingOf(t)'
      BY <1>2 DEF SharingOf, Copying
    <3>2. \A f : f \in allocated' => f # r /\ f \in allocated
      BY <1>1
    <3>3. \A f : Refers(r, f) => f = r
      BY <1>3, Entries DEF Refers, Empty
    <3>4. pc[t] \in Working
      BY <1>1 DEF Working
    <3> QED
      BY <1>5, <1>9, <2>1, <3>1, <3>2, <3>3, <3>4, KeptStay
  <2> QED
    BY <1>1, <2>1 DEF FramesKept
<1> QED
  BY <1>1, <1>4, <1>5, <1>10, <1>11, <1>12, <1>13, <1>14, StepOfOne

\* A page leaves the page map of an application that has ended.
LEMMA CleanPageIsSound ==
  ASSUME IInv, NEW t \in Tasks, CleanPageMaps(t), NEW q \in Page, Present(cr3[t], q)
  PROVE  IInv'
<1> USE DEF IInv
<1> DEFINE r == cr3[t]
<1>1. /\ pc[t] = "clean"
      /\ UNCHANGED <<table, app_loads, cr3, pc, file, src, todo, lazy, view, runs, wasted, clobbered>>
  BY DEF CleanPageMaps, At
<1>2. PICK p \in Page :
        /\ Present(r, p) /\ entry' = [entry EXCEPT ![r][p] = Absent]
        /\ IF entry[r][p].writable
           THEN /\ allocated' = allocated \ {entry[r][p].frame}
                /\ content' = [content EXCEPT ![entry[r][p].frame] = "zero"]
           ELSE UNCHANGED <<allocated, content>>
  <2>1. /\ (CHOOSE x \in Page : Present(r, x)) \in Page
        /\ Present(r, CHOOSE x \in Page : Present(r, x))
    OBVIOUS
  <2> QED
    BY <2>1 DEF CleanPageMaps, Cleared
<1> DEFINE g == entry[r][p].frame
<1>3. /\ Private(t) /\ r \in Frame /\ Root(r) /\ OnePlace(r) /\ file[t] \in Files
      /\ \A x \in Page : entry[r][x] \in Entry
  BY <1>1, RootsOf, FramesOf, Sets DEF PageMaps, PageMap, Working, FramesApart
<1>4. g \in Frame
  BY <1>2, <1>3, Entries DEF Present
<1>5. /\ entry'[r][p] = Absent /\ \A x \in Page : x # p => entry'[r][x] = entry[r][x]
      /\ \A s \in Frame : s # r => entry'[s] = entry[s]
      /\ \A f \in Frame : f # g => content'[f] = content[f]
      /\ ~entry[r][p].writable => content' = content
  BY <1>2, <1>3, <1>4 DEF Types
<1>6. Types'
  <2>1. entry' \in [Frame -> [Page -> Entry]]
    BY <1>2, Entries DEF Types
  <2>2. content' \in [Frame -> Bytes] /\ allocated' \subseteq Frame
    BY <1>2 DEF Types, Bytes
  <2> QED
    BY <1>1, <2>1, <2>2 DEF Types
<1>7. entry[r][p].writable => Owns(r, g)
  BY <1>4, Numbers DEF Owns
<1>8. Locally(t)
  <2>1. \A f \in Frame : content'[f] = content[f] \/ (pc[t] \in Working /\ Owns(r, f))
    BY <1>1, <1>5, <1>7 DEF Working
  <2>2. \A s : Root(s) => s = r \/ (table'[s] = table[s] /\ entry'[s] = entry[s])
    BY <1>1, <1>5, FramesOf
  <2> QED
    BY <1>1, <2>1, <2>2 DEF Locally, Copying, Working
<1>9. \A s : Root(s)' <=> Root(s)
  BY <1>1 DEF Root
<1>10. FramesApart'
  <2>1. FramesInUse /\ OwnersApart
    BY ApartIs DEF FramesApart
  <2> HIDE DEF r, g
  <2>2. PICK x : x = r
    OBVIOUS
  <2>3. \A f : Refers(x, f)' => Refers(x, f) /\ (entry[r][p].writable => f # g)
    <3>1. \A f : Refers(x, f)' => f = r \/ f = table[r] \/ \E y \in Page : y # p /\ entry[r][y].frame = f
      BY <1>1, <1>5, <2>2, Entries DEF Refers
    <3>2. r # g /\ table[r] # g
      BY <1>2, <1>3 DEF OnePlace, g
    <3>3. \A y \in Page : y # p => entry[r][y].frame # g
      BY <1>2, <1>3 DEF OnePlace, g
    <3>4. \A f : Refers(x, f)' => f # None
      BY DEF Refers
    <3> QED
      BY <2>2, <3>1, <3>2, <3>3, <3>4 DEF Refers
  <2>4. \A f : Owns(x, f)' => Owns(x, f)
    BY <1>1, <1>5, <2>2, Entries DEF Owns
  <2>5. OnePlace(x)'
    <3>1. \A y \in Page : entry'[r][y].frame # r /\ (entry'[r][y] # Absent => entry'[r][y].frame # table[r])
      BY <1>3, <1>4, <1>5, Entries, Numbers DEF OnePlace, Present
    <3>2. \A y, z \in Page : entry'[r][y] # Absent /\ entry'[r][y].frame = entry'[r][z].frame => y = z
      <4> TAKE y, z \in Page
      <4> HAVE entry'[r][y] # Absent /\ entry'[r][y].frame = entry'[r][z].frame
      <4>1. y # p /\ entry'[r][y] = entry[r][y] /\ Present(r, y)
        BY <1>5 DEF Present
      <4>2. entry[r][y].frame # None
        BY <1>3, <4>1, Entries, Numbers DEF Present
      <4>3. z # p
        BY <1>5, <4>1, <4>2, Entries
      <4> QED
        BY <1>3, <1>5, <4>1, <4>3 DEF OnePlace
    <3> QED
      BY <1>1, <1>3, <2>2, <3>1, <3>2 DEF OnePlace, Present
  <2>6. \A f : f \in allocated /\ f \notin allocated' => Root(x) /\ Owns(x, f)
    BY <1>2, <1>3, <1>7, <2>2 DEF g
  <2>7. \A f : Refers(x, f)' => f \in allocated' /\ \A s : Root(s) /\ s # x => ~Owns(s, f)
    <3>1. \A f : Refers(x, f) => f \in allocated /\ \A s : Root(s) /\ s # x => ~Owns(s, f)
      BY <1>3, <2>1, <2>2 DEF FramesInUse, OwnersApart
    <3> QED
      BY <1>2, <2>3, <3>1 DEF g
  <2>8. \A s : Root(s)' /\ s # x => Root(s) /\ table'[s] = table[s] /\ entry'[s] = entry[s]
    BY <1>1, <1>5, <1>9, <2>2, FramesOf
  <2> QED
    BY <1>3, <2>2, <2>4, <2>5, <2>6, <2>7, <2>8, ChangeBelow
<1>11. PageMap(t)'
  <2>1. Private(t)'
    BY <1>1, <1>3 DEF Private
  <2> QED
    BY <1>1, <1>3, <2>1 DEF PageMap, Copying
<1>12. Images'
  <2>1. \A b \in Files, s \in Frame : Holds(b, s)' => Holds(b, s)
    BY <1>1 DEF Holds
  <2>2. \A b \in Files : ~Holds(b, r)
    BY <1>1, HoldsNothing
  <2> QED
    BY <1>8, <2>1, <2>2, ImagesStay
<1>13. MemoryOf(t)'
  BY <1>1 DEF MemoryOf
<1>14. FramesKept'
  <2>1. CASE ~wasted
    <3> DEFINE m == app_loads[file[t]]
    <3>1. SharingOf(t)
      BY <2>1 DEF FramesKept
    <3>2. m # None /\ m \in Frame /\ Root(m) /\ m # r
      BY <1>1, <1>3, <3>1, RootsOf DEF SharingOf, Private
    <3>3. SharingOf(t)'
      <4>1. \A x \in Page : entry'[r][x] # Absent /\ ~entry'[r][x].writable =>
              \E y \in Page : entry'[m][y].frame = entry'[r][x].frame
        <5> TAKE x \in Page
        <5> HAVE entry'[r][x] # Absent /\ ~entry'[r][x].writable
        <5>1. entry'[r][x] = entry[r][x] /\ Present(r, x) /\ ~entry[r][x].writable
          BY <1>5 DEF Present
        <5>2. PICK y \in Page : entry[m][y].frame = entry[r][x].frame
          BY <1>1, <3>1, <5>1 DEF SharingOf
        <5> QED
          BY <1>5, <3>2, <5>1, <5>2
      <4> QED
        BY <1>1, <3>2, <4>1 DEF SharingOf, Present, Copying
    <3>4. ASSUME NEW f, f \in allocated', Refers(r, f) PROVE \E s : Root(s)' /\ Refers(s, f)'
      <4>1. CASE f = r \/ f = table[r] \/ \E y \in Page : y # p /\ entry[r][y].frame = f
        <5>1. \A x : x = r => Refers(x, f)'
          BY <1>1, <1>5, <3>4, <4>1 DEF Refers
        <5> QED
          BY <1>3, <1>9, <5>1
      <4>2. CASE f = g
        <5>1. ~entry[r][p].writable
          BY <1>2, <3>4, <4>2
        <5>2. PICK y \in Page : entry[m][y].frame = g
          BY <1>1, <1>2, <3>1, <5>1 DEF SharingOf
        <5>3. \A x : x = m => Refers(x, f)'
          BY <1>4, <1>5, <3>2, <4>2, <5>2, Numbers DEF Refers
        <5> QED
          BY <1>9, <3>2, <5>3
      <4> QED
        BY <3>4, <4>1, <4>2 DEF Refers
    <3>5. \A f : f \in allocated' => f \in allocated
      BY <1>2
    <3> QED
      BY <1>8, <1>9, <2>1, <3>3, <3>4, <3>5, KeptStay
  <2> QED
    BY <1>1, <2>1 DEF FramesKept
<1> QED
  BY <1>1, <1>6, <1>8, <1>10, <1>11, <1>12, <1>13, <1>14, StepOfOne

\* The table of an application that has ended, when it is empty.
LEMMA CleanTableIsSound ==
  ASSUME IInv, NEW t \in Tasks, CleanPageMaps(t), \A q \in Page : ~Present(cr3[t], q)
  PROVE  IInv'
<1> USE DEF IInv
<1> DEFINE r == cr3[t]
<1>1. /\ pc[t] = "clean" /\ allocated' = allocated \ {table[r]}
      /\ table' = [table EXCEPT ![r] = None] /\ pc' = [pc EXCEPT ![t] = "free"]
      /\ UNCHANGED <<entry, content, app_loads, cr3, file, src, todo, lazy, view, runs, wasted, clobbered>>
  BY DEF CleanPageMaps, At, Goto
<1>2. /\ Private(t) /\ r \in Frame /\ Root(r) /\ OnePlace(r) /\ file[t] \in Files
      /\ \A q \in Page : entry[r][q] = Absent
  BY <1>1, RootsOf, Sets DEF PageMaps, PageMap, Working, FramesApart, Present
<1>3. /\ table'[r] = None /\ \A s \in Frame : s # r => table'[s] = table[s]
      /\ pc'[t] = "free" /\ \A u \in Tasks : u # t => pc'[u] = pc[u]
  BY <1>1, <1>2 DEF Types
<1>4. Types'
  BY <1>1 DEF Types, Places
<1>5. Locally(t)
  BY <1>1, <1>3, FramesOf DEF Locally, Copying, Working
<1>6. \A s : Root(s)' <=> Root(s)
  BY <1>1, <1>3 DEF Root, Copying
<1>7. FramesApart'
  <2>1. FramesInUse /\ OwnersApart
    BY ApartIs DEF FramesApart
  <2> HIDE DEF r
  <2>2. PICK x : x = r
    OBVIOUS
  <2>3. \A f : Refers(x, f)' \/ Owns(x, f)' => f = x
    BY <1>1, <1>2, <1>3, <2>2, Entries DEF Refers, Owns
  <2>4. Refers(x, x) /\ Owns(x, x)
    BY <1>2, <2>2, Numbers DEF Refers, Owns
  <2>5. x \in allocated' /\ \A s : Root(s) /\ s # x => ~Owns(s, x)
    BY <1>1, <1>2, <2>1, <2>2, <2>4 DEF FramesInUse, OwnersApart, OnePlace
  <2>6. \A f : f \in allocated /\ f \notin allocated' => Root(x) /\ Owns(x, f)
    BY <1>1, <1>2, <2>2, Numbers DEF Owns, Types
  <2>7. OnePlace(x)'
    <3>1. \A q \in Page : entry'[r][q] = Absent /\ entry'[r][q].frame # r
      BY <1>1, <1>2, Entries, Numbers
    <3> QED
      BY <1>2, <1>3, <2>2, <3>1, Numbers DEF OnePlace, Present
  <2>8. \A s : Root(s)' /\ s # x => Root(s) /\ table'[s] = table[s] /\ entry'[s] = entry[s]
    BY <1>1, <1>3, <1>6, <2>2, FramesOf
  <2> QED
    BY <1>2, <2>2, <2>3, <2>4, <2>5, <2>6, <2>7, <2>8, ChangeBelow
<1>8. PageMap(t)'
  <2>1. Private(t)'
    BY <1>1, <1>2, <1>3 DEF Private, Copying
  <2> QED
    BY <1>1, <1>2, <1>3, <2>1 DEF PageMap, Copying, Empty
<1>9. Images'
  <2>1. \A b \in Files, s \in Frame : Holds(b, s)' => Holds(b, s)
    BY <1>1, <1>3 DEF Holds, Copying
  <2> QED
    BY <1>1, <1>5, <2>1, ImagesSame
<1>10. MemoryOf(t)'
  BY <1>3 DEF MemoryOf
<1>11. FramesKept'
  <2>1. CASE ~wasted
    <3>1. SharingOf(t)'
      BY <1>3 DEF SharingOf, Copying
    <3>2. \A f : f \in allocated' => f # table[r] /\ f \in allocated
      BY <1>1
    <3>3. \A f : f \in allocated' /\ Refers(r, f) => f = r
      BY <1>2, <3>2, Entries DEF Refers
    <3>4. \A x : x = r => Root(x)' /\ Refers(x, x)'
      BY <1>2, <1>6, Numbers DEF Refers
    <3> QED
      BY <1>5, <1>6, <2>1, <3>1, <3>2, <3>3, <3>4, KeptStay
  <2> QED
    BY <1>1, <2>1 DEF FramesKept
<1> QED
  BY <1>1, <1>4, <1>5, <1>7, <1>8, <1>9, <1>10, <1>11, StepOfOne

\* CleanPageMaps keeps the invariant.
LEMMA CleanPageMapsIsSound ==
  ASSUME IInv, NEW t \in Tasks, CleanPageMaps(t)
  PROVE  IInv'
BY CleanPageIsSound, CleanTableIsSound

-----------------------------------------------------------------------------
(* The image, shared *)

\* CopyPageMaps keeps the invariant.
LEMMA CopyPageMapsIsSound ==
  ASSUME IInv, NEW t \in Tasks, CopyPageMaps(t)
  PROVE  IInv'
<1> USE DEF IInv
<1> DEFINE r == cr3[t]
           s == src[t]
<1>1. pc[t] = "copy" /\ UNCHANGED <<app_loads, cr3, file, src, lazy, view, runs, clobbered>>
  BY DEF CopyPageMaps, At
<1>2. CASE Full
  BY <1>1, <1>2, FailIsSound DEF CopyPageMaps
<1>3. CASE ~Full
  <2>1. PICK n \in Frame : n \notin allocated /\ n = NewFrame
    BY <1>3, NewFrameIsFree DEF Types
  <2>2. /\ allocated' = allocated \cup {n} /\ table' = [table EXCEPT ![r] = n]
        /\ entry' = [entry EXCEPT ![r] = ReadOnly(s)]
        /\ todo' = [todo EXCEPT ![t] = {Stack}] /\ pc' = [pc EXCEPT ![t] = "setup"]
        /\ UNCHANGED <<content, wasted>>
    BY <1>3, <2>1 DEF CopyPageMaps, Goto
  <2>3. /\ Private(t) /\ r \in Frame /\ Root(r) /\ Empty(r) /\ file[t] \in Files
        /\ s \in Frame /\ Root(s) /\ OfImage(s) /\ s # r /\ Holds(file[t], s)
        /\ OnePlace(s) /\ OnePlace(r)
    <3>1. pc[t] \in Copying /\ pc[t] \in Working
      BY <1>1 DEF Copying, Working
    <3>2. PageMap(t) /\ Private(t)
      BY <3>1 DEF PageMaps, PageMap
    <3> QED
      BY <1>1, <3>1, <3>2, RootsOf, Sets DEF PageMap, Private, Holds, FramesApart
  <2>4. \A q \in Page : entry[s][q] \in Entry
    BY <2>3, FramesOf
  <2>5. /\ table'[r] = n /\ pc'[t] = "setup" /\ todo'[t] = {Stack}
        /\ \A x \in Frame : x # r => table'[x] = table[x] /\ entry'[x] = entry[x]
        /\ \A u \in Tasks : u # t => pc'[u] = pc[u] /\ todo'[u] = todo[u]
        /\ \A q \in Page : entry'[r][q] = [entry[s][q] EXCEPT !.writable = FALSE]
    BY <2>2, <2>3 DEF Types, ReadOnly
  <2>6. \A q \in Page : /\ entry'[r][q] \in Entry /\ entry'[r][q].frame = entry[s][q].frame
                        /\ entry'[r][q].writable = FALSE
                        /\ entry'[r][q] # Absent => Present(s, q) /\ entry[s][q].frame \in Frame
    <3> TAKE q \in Page
    <3>1. /\ entry'[r][q] \in Entry /\ entry'[r][q].frame = entry[s][q].frame
          /\ entry'[r][q].writable = FALSE
      <4>1. PICK e \in Entry : e = entry[s][q]
        BY <2>4
      <4>2. /\ [e EXCEPT !.writable = FALSE] \in Entry /\ [e EXCEPT !.writable = FALSE].frame = e.frame
            /\ [e EXCEPT !.writable = FALSE].writable = FALSE
        BY Entries
      <4>3. entry'[r][q] = [e EXCEPT !.writable = FALSE]
        BY <2>5, <4>1
      <4> QED
        BY <4>1, <4>2, <4>3
    <3>2. entry'[r][q] # Absent => entry[s][q].frame \in Frame
      BY <3>1, Entries
    <3>3. entry[s][q].frame \in Frame => Present(s, q)
      BY <2>4, Entries DEF Present
    <3> QED
      BY <3>1, <3>2, <3>3
  <2>7. Types'
    <3>1. ReadOnly(s) \in [Page -> Entry]
      BY <2>4, Entries DEF ReadOnly
    <3>2. entry' \in [Frame -> [Page -> Entry]]
      BY <2>2, <3>1 DEF Types
    <3>3. Stack \in Page
      BY DEF Page
    <3> QED
      BY <1>1, <2>2, <3>2, <3>3 DEF Types, Places
  <2>8. Locally(t)
    <3>1. \A x : Root(x) => x = r \/ (table'[x] = table[x] /\ entry'[x] = entry[x])
      BY <2>5, FramesOf
    <3> QED
      BY <1>1, <2>2, <2>5, <3>1 DEF Locally, Working, Copying
  <2>9. \A x : Root(x)' => Root(x)
    BY <1>1, <2>5 DEF Root, Copying
  <2>10. \A x : x = r => Root(x)'
    BY <1>1, <2>3, Numbers DEF Root
  <2>11. FramesInUse /\ OwnersApart
    BY ApartIs DEF FramesApart
  <2>12. \A q \in Page : entry[s][q].frame \in Frame =>
           /\ entry[s][q].frame \in allocated /\ entry[s][q].frame # n /\ entry[s][q].frame # r
           /\ \A x : Root(x) => ~Owns(x, entry[s][q].frame)
    <3> SUFFICES ASSUME NEW q \in Page, NEW f \in Frame, f = entry[s][q].frame
                 PROVE  f \in allocated /\ f # n /\ f # r /\ \A x : Root(x) => ~Owns(x, f)
      OBVIOUS
    <3>1. Refers(s, f) /\ f \in allocated /\ Present(s, q)
      BY <2>3, <2>4, <2>11, Entries, Numbers DEF Refers, Present, FramesInUse
    <3>2. Owns(r, r)
      BY <2>3, Numbers DEF Owns
    <3>3. f # r
      BY <2>3, <2>11, <3>1, <3>2 DEF OwnersApart
    <3>4. \A x : Root(x) /\ x # s => ~Owns(x, f)
      BY <2>3, <2>11, <3>1 DEF OwnersApart
    <3>5. ~Owns(s, f)
      <4>1. f # s /\ f # table[s]
        BY <2>3, <3>1 DEF OnePlace
      <4>2. \A y \in Page : ~entry[s][y].writable
        BY <2>3, <2>4, Entries DEF OfImage, Present
      <4> QED
        BY <4>1, <4>2 DEF Owns
    <3> QED
      BY <2>1, <3>1, <3>3, <3>4, <3>5
  <2>13. FramesApart'
    <3> HIDE DEF r, s
    <3>1. PICK x : x = r
      OBVIOUS
    <3>2. \A f : Refers(x, f)' => f \in Frame /\ (f = r \/ f = n \/ \E q \in Page : entry[s][q].frame = f)
      <4>1. \A f : Refers(x, f)' => f = r \/ f = n \/ \E q \in Page : entry[s][q].frame = f /\ f # None
        BY <2>5, <2>6, <3>1 DEF Refers
      <4>2. \A q \in Page : entry[s][q].frame \in Frame \cup {None}
        BY <2>4, Entries
      <4> QED
        BY <2>3, <4>1, <4>2
    <3>3. \A f : Owns(x, f)' => f = r \/ f = n
      BY <2>5, <2>6, <3>1 DEF Owns
    <3>4. \A f : Refers(x, f)' => f \in allocated' /\ \A y : Root(y) /\ y # x => ~Owns(y, f)
      <4>1. r \in allocated /\ \A y : Root(y) /\ y # r => ~Owns(y, r)
        <5>1. Refers(r, r)
          BY <2>3, Numbers DEF Refers
        <5> QED
          BY <2>3, <2>11, <5>1 DEF FramesInUse, OwnersApart
      <4>2. \A y : Root(y) => ~Owns(y, n)
        BY <2>1, FreeFrames
      <4> QED
        BY <2>2, <2>12, <3>1, <3>2, <4>1, <4>2
    <3>5. OnePlace(x)'
      <4>1. n # r
        BY <2>1, <2>3, FreeFrames
      <4>2. \A q \in Page : entry'[r][q].frame # r /\ (entry'[r][q] # Absent => entry'[r][q].frame # n)
        <5>1. \A q \in Page : entry[s][q].frame # r
          BY <2>3, <2>12
        <5> QED
          BY <2>6, <2>12, <5>1
      <4>3. \A q, y \in Page : entry'[r][q] # Absent /\ entry'[r][q].frame = entry'[r][y].frame => q = y
        BY <2>3, <2>6 DEF OnePlace
      <4> QED
        BY <2>5, <3>1, <4>1, <4>2, <4>3 DEF OnePlace, Present
    <3>6. \A y : Root(y)' /\ y # x => Root(y) /\ table'[y] = table[y] /\ entry'[y] = entry[y]
      BY <2>5, <2>9, <3>1, FramesOf
    <3>7. \A f : Owns(x, f)' => f \notin allocated \/ (Root(x) /\ Owns(x, f))
      <4>1. Owns(r, r)
        BY <2>3, Numbers DEF Owns
      <4> QED
        BY <2>1, <2>3, <3>1, <3>3, <4>1
    <3> QED
      BY <2>2, <3>4, <3>5, <3>6, <3>7, ChangeBelow
  <2>14. PageMap(t)'
    <3>1. Private(t)'
      BY <1>1, <2>3, <2>5 DEF Private, Copying
    <3>2. \A q \in Page : entry'[r][q] # Absent => q \in Image
      BY <2>3, <2>6 DEF OfImage
    <3>3. Stack \in Page /\ Stack \notin Image
      BY PagingAssumption DEF Page
    <3>4. entry'[r][Stack] = Absent /\ table'[r] # None
      BY <2>5, <3>2, <3>3, Numbers
    <3> QED
      BY <1>1, <2>3, <2>5, <2>6, <3>1, <3>2, <3>4 DEF PageMap, Present, Copying
  <2>15. Images'
    <3>1. pc[t] \in Working
      BY <1>1 DEF Working
    <3>2. \A b \in Files, x \in Frame : Holds(b, x)' => Holds(b, x) \/ (x = r /\ b = file[t])
      BY <1>1, <2>5 DEF Holds, Copying
    <3>3. ASSUME NEW q \in Page, entry'[r][q] # Absent
          PROVE  /\ entry'[r][q].frame = entry[s][q].frame /\ Present(s, q)
                 /\ file[t] \notin clobbered' => content'[entry'[r][q].frame] = "image"
      <4>1. Present(s, q) /\ ~entry[s][q].writable
        BY <2>3, <2>6, <3>3 DEF OfImage
      <4> QED
        BY <1>1, <2>2, <2>3, <2>6, <4>1 DEF Images, ImagesKept
    <3> QED
      BY <2>3, <2>8, <3>1, <3>2, <3>3, ImagesStay
  <2>16. MemoryOf(t)'
    BY <2>5 DEF MemoryOf
  <2>17. FramesKept'
    <3>1. CASE ~wasted
      <4>1. s = app_loads[file[t]] /\ s # None
        BY <1>1, <2>3, <3>1, Numbers DEF FramesKept, SharingOf, Copying
      <4>2. SharingOf(t)'
        <5>1. \A q \in Page : entry'[s][q].frame = entry'[r][q].frame
          BY <2>3, <2>5, <2>6
        <5> QED
          BY <1>1, <2>5, <4>1, <5>1 DEF SharingOf, Copying
      <4>3. \A x : x = r => Refers(x, n)' /\ Refers(x, x)'
        BY <2>3, <2>5, Numbers DEF Refers
      <4>4. \A f : Refers(r, f) => f = r
        BY <2>3, Entries DEF Refers, Empty
      <4>5. \A x : Root(x) => Root(x)'
        BY <1>1, <2>3, <2>5, <4>1 DEF Root, Copying
      <4>6. \A f : f \in allocated' /\ f \notin allocated => \E x : Root(x)' /\ Refers(x, f)'
        BY <2>2, <2>10, <4>3
      <4>7. \A f : Refers(r, f) => \E x : Root(x)' /\ Refers(x, f)'
        BY <2>10, <4>3, <4>4
      <4> QED
        BY <2>8, <3>1, <4>2, <4>5, <4>6, <4>7, KeptStay
    <3> QED
      BY <2>2, <3>1 DEF FramesKept
  <2> QED
    BY <1>1, <2>7, <2>8, <2>13, <2>14, <2>15, <2>16, <2>17, StepOfOne
<1> QED
  BY <1>2, <1>3

-----------------------------------------------------------------------------
(* The theorem *)

\* A step that changes nothing keeps it.
LEMMA StutterIsSound ==
  ASSUME IInv, UNCHANGED vars
  PROVE  IInv'
<1>1. /\ Types' = Types /\ FramesApart' = FramesApart /\ PageMaps' = PageMaps /\ Images' = Images
      /\ Isolated' = Isolated /\ FramesKept' = FramesKept
  BY DEF vars, locals, Types, FramesApart, NoSharedWrites, Live, Own, Reachable, OnePlace, Present,
         PageMaps, PageMap, Private, Empty, OfImage, Images, ImagesApart, ImagesKept, Holds, Isolated,
         FramesKept, SharingOf
<1> QED
  BY <1>1 DEF IInv

\* The invariant says that applications are apart.
LEMMA SoundIsApart == IInv => AppsAreApart
<1> SUFFICES ASSUME IInv PROVE AppsAreApart
  OBVIOUS
<1> USE DEF IInv
<1>1. NoSharedWrites /\ Isolated
  BY DEF FramesApart
<1>2. NoFrameLost
  <2>1. ~wasted => allocated \subseteq UNION {Reachable(r) : r \in Live}
    BY DEF FramesKept
  <2>2. UNION {Reachable(r) : r \in Live} \subseteq allocated
    BY <1>1 DEF NoSharedWrites
  <2> QED
    BY <2>1, <2>2 DEF NoFrameLost
<1> QED
  BY <1>1, <1>2 DEF AppsAreApart

\* However many terminals load, run, kill and clean up applications, at whatever point they
\* are preempted: no page map in use leads to a freed frame or may write to a frame another
\* can see, an application finds in its memory what it wrote there or what its file
\* holds, and as long as every load succeeded no frame is lost
\* (CopyLoadSegments, CopyPageMaps, HandlePageFault, CleanPageMaps).
THEOREM AppsStayApart == Spec => []AppsAreApart
<1>1. Init => IInv
  BY InitIsSound
<1>2. IInv /\ [Next]_vars => IInv'
  <2> SUFFICES ASSUME IInv, [Next]_vars PROVE IInv'
    OBVIOUS
  <2>1. CASE UNCHANGED vars
    BY <2>1, StutterIsSound
  <2>2. ASSUME NEW t \in Tasks, Step(t) PROVE IInv'
    <3>1. ASSUME NEW a \in Files, ExecuteFile(t, a) PROVE IInv'
      BY <3>1, ExecuteFileIsSound
    <3>2. CASE FirstPML4(t) \/ SecondPML4(t)
      BY <3>2, PML4IsSound
    <3>3. CASE FindLoaded(t)
      BY <3>3, FindLoadedIsSound
    <3>4. CASE CopyLoadSegments(t)
      BY <3>4, CopyLoadSegmentsIsSound
    <3>5. CASE InsertLoaded(t)
      BY <3>5, InsertLoadedIsSound
    <3>6. CASE CopyPageMaps(t)
      BY <3>6, CopyPageMapsIsSound
    <3>7. CASE SetupStack(t)
      BY <3>7, SetupStackIsSound
    <3>8. CASE BadArguments(t)
      BY <3>8, BadArgumentsIsSound
    <3>9. CASE CallApp(t)
      BY <3>9, CallAppIsSound
    <3>10. CASE Extend(t)
      BY <3>10, ExtendIsSound
    <3>11. CASE Fault(t) \/ ExitApp(t)
      BY <3>11, ExitIsSound
    <3>12. CASE CleanPageMaps(t)
      BY <3>12, CleanPageMapsIsSound
    <3>13. CASE FreePML4(t)
      BY <3>13, FreePML4IsSound
    <3>14. ASSUME NEW p \in Page, UserWrite(t, p) \/ KernelWrite(t, p) PROVE IInv'
      BY <3>14, WriteIsSound
    <3>15. ASSUME NEW p \in Page, NEW user \in BOOLEAN, PageFault(t, p, user) PROVE IInv'
      BY <3>15, PageFaultIsSound
    <3> QED
      BY <2>2, <3>1, <3>2, <3>3, <3>4, <3>5, <3>6, <3>7, <3>8, <3>9, <3>10, <3>11, <3>12, <3>13,
         <3>14, <3>15 DEF Step
  <2> QED
    BY <2>1, <2>2 DEF Next
<1> QED
  BY <1>1, <1>2, SoundIsApart, PTL DEF Spec

=============================================================================
