-------------------------- MODULE PathMappingProofs --------------------------
(***************************************************************************)
(* Archives and restores of well-formed lists of paths, for any names, any *)
(* layout of the two machines and any files on them.                       *)
(***************************************************************************)
EXTENDS PathMapping, SequenceTheorems, TLAPS

-----------------------------------------------------------------------------
(* Sequences of names *)

LEMMA PrefixByElement ==
    ASSUME NEW S, NEW s \in Seq(S), NEW t \in Seq(S)
    PROVE  IsPrefix(s, t) <=>
              Len(s) <= Len(t) /\ \A i \in 1 .. Len(s) : s[i] = t[i]
<1>1. ASSUME Len(s) <= Len(t)
      PROVE  /\ SubSeq(s, 1, Len(s)) = s
             /\ Len(SubSeq(t, 1, Len(s))) = Len(s)
             /\ SubSeq(t, 1, Len(s)) \in Seq(S)
             /\ \A i \in 1 .. Len(s) : SubSeq(t, 1, Len(s))[i] = t[i]
  BY <1>1
<1>2. ASSUME Len(s) <= Len(t), \A i \in 1 .. Len(s) : s[i] = t[i]
      PROVE  s = SubSeq(t, 1, Len(s))
  BY <1>1, <1>2
<1>3. QED
  BY <1>1, <1>2 DEF IsPrefix

\* What is left of a location below one of its prefixes.
LEMMA BelowPrefix ==
    ASSUME NEW S, NEW d \in Seq(S), NEW t \in Seq(S), IsPrefix(d, t)
    PROVE  /\ Below(d, t) \in Seq(S)
           /\ Len(Below(d, t)) = Len(t) - Len(d)
           /\ \A i \in 1 .. Len(t) - Len(d) : Below(d, t)[i] = t[Len(d) + i]
           /\ t = d \o Below(d, t)
<1>1. Len(d) <= Len(t) /\ \A i \in 1 .. Len(d) : d[i] = t[i]
  BY PrefixByElement
<1>2. /\ Below(d, t) \in Seq(S)
      /\ Len(Below(d, t)) = Len(t) - Len(d)
      /\ \A i \in 1 .. Len(t) - Len(d) : Below(d, t)[i] = t[Len(d) + i]
  BY <1>1 DEF Below
<1>3. t = d \o Below(d, t)
  <2> DEFINE b == Below(d, t)
  <2> HIDE DEF b
  <2>1. b \in Seq(S) /\ Len(b) = Len(t) - Len(d)
        /\ \A i \in 1 .. Len(b) : b[i] = t[Len(d) + i]
    BY <1>2 DEF b
  <2>2. /\ d \o b \in Seq(S) /\ Len(d \o b) = Len(t)
        /\ \A i \in 1 .. Len(t) : (d \o b)[i] = IF i <= Len(d) THEN d[i] ELSE b[i - Len(d)]
    BY <1>1, <2>1, ConcatProperties
  <2>3. ASSUME NEW i \in 1 .. Len(t)
        PROVE  (d \o b)[i] = t[i]
    <3>1. CASE i <= Len(d)
      BY <1>1, <2>2, <3>1
    <3>2. CASE i > Len(d)
      <4>1. i - Len(d) \in 1 .. Len(b)
        BY <2>1, <3>2
      <4>2. QED
        BY <2>1, <2>2, <3>2, <4>1
    <3>3. i <= Len(d) \/ i > Len(d)
      OBVIOUS
    <3>4. QED
      BY <3>1, <3>2, <3>3, Zenon
  <2>4. d \o b = t
    BY <2>2, <2>3, SeqEqual, Zenon
  <2>5. QED
    BY <2>4 DEF b
<1>4. QED
  BY <1>2, <1>3

\* A prefix of a location in two pieces.
LEMMA PrefixInPieces ==
    ASSUME NEW S, NEW d \in Seq(S), NEW r \in Seq(S), NEW t \in Seq(S), IsPrefix(d \o r, t)
    PROVE  IsPrefix(d, t) /\ IsPrefix(r, Below(d, t))
<1> DEFINE u == d \o r
<1> HIDE DEF u
<1>0. Len(d) \in Nat /\ Len(r) \in Nat /\ Len(t) \in Nat /\ IsPrefix(u, t)
  BY DEF u
<1>1. /\ u \in Seq(S) /\ Len(u) = Len(d) + Len(r)
      /\ \A i \in 1 .. Len(d) + Len(r) : u[i] = IF i <= Len(d) THEN d[i] ELSE r[i - Len(d)]
  BY ConcatProperties DEF u
<1>2. /\ Len(d) + Len(r) <= Len(t)
      /\ \A i \in 1 .. Len(d) + Len(r) : u[i] = t[i]
  <2>1. Len(u) <= Len(t) /\ \A i \in 1 .. Len(u) : u[i] = t[i]
    BY <1>0, <1>1, PrefixByElement, Zenon
  <2>2. QED
    BY <1>1, <2>1
<1>3. IsPrefix(d, t)
  <2>1. \A i \in 1 .. Len(d) : d[i] = t[i]
    BY <1>0, <1>1, <1>2
  <2>2. QED
    BY <1>0, <1>2, <2>1, PrefixByElement
<1>4. IsPrefix(r, Below(d, t))
  <2> DEFINE b == Below(d, t)
  <2> HIDE DEF b
  <2>1. /\ b \in Seq(S) /\ Len(b) = Len(t) - Len(d)
        /\ \A i \in 1 .. Len(t) - Len(d) : b[i] = t[Len(d) + i]
    BY <1>3, BelowPrefix DEF b
  <2>2. ASSUME NEW i \in 1 .. Len(r)
        PROVE  r[i] = b[i]
    <3>1. /\ Len(d) + i \in 1 .. Len(d) + Len(r) /\ ~(Len(d) + i <= Len(d))
          /\ Len(d) + i - Len(d) = i /\ i \in 1 .. Len(t) - Len(d)
      BY <1>0, <1>2
    <3>2. u[Len(d) + i] = r[i] /\ u[Len(d) + i] = t[Len(d) + i] /\ b[i] = t[Len(d) + i]
      BY <1>1, <1>2, <2>1, <3>1
    <3>3. QED
      BY <3>2
  <2>3. IsPrefix(r, b)
    BY <1>0, <1>2, <2>1, <2>2, PrefixByElement
  <2>4. QED
    BY <2>3 DEF b
<1>5. QED
  BY <1>3, <1>4

LEMMA PrefixOfBoth ==
    ASSUME NEW S, NEW d \in Seq(S), NEW r \in Seq(S), NEW n \in Seq(S), IsPrefix(r, n)
    PROVE  IsPrefix(d \o r, d \o n)
<1>1. Len(r) <= Len(n) /\ \A i \in 1 .. Len(r) : r[i] = n[i]
  BY PrefixByElement
<1> DEFINE u == d \o r
           v == d \o n
<1> HIDE DEF u, v
<1>0. Len(d) \in Nat /\ Len(r) \in Nat /\ Len(n) \in Nat
  OBVIOUS
<1>2. /\ u \in Seq(S) /\ Len(u) = Len(d) + Len(r)
      /\ \A i \in 1 .. Len(d) + Len(r) : u[i] = IF i <= Len(d) THEN d[i] ELSE r[i - Len(d)]
      /\ v \in Seq(S) /\ Len(v) = Len(d) + Len(n)
      /\ \A i \in 1 .. Len(d) + Len(n) : v[i] = IF i <= Len(d) THEN d[i] ELSE n[i - Len(d)]
  BY ConcatProperties DEF u, v
<1>3. ASSUME NEW i \in 1 .. Len(d) + Len(r)
      PROVE  u[i] = v[i]
  <2>1. i \in 1 .. Len(d) + Len(n)
    BY <1>0, <1>1
  <2>2. i <= Len(d) \/ (i > Len(d) /\ i - Len(d) \in 1 .. Len(r))
    BY <1>0
  <2>3. QED
    BY <1>0, <1>1, <1>2, <2>1, <2>2
<1>4. IsPrefix(u, v)
  <2>1. Len(u) <= Len(v) /\ \A i \in 1 .. Len(u) : u[i] = v[i]
    BY <1>0, <1>1, <1>2, <1>3
  <2>2. QED
    BY <1>2, <2>1, PrefixByElement
<1>5. QED
  BY <1>4 DEF u, v

\* A path is a textual prefix of the names below it ...
LEMMA OwnNameMatches ==
    ASSUME NEW r \in Seq(Names) \ {<<>>}, NEW n \in Seq(Names), IsPrefix(r, n)
    PROVE  HasPrefix(n, r)
<1>1. Len(r) <= Len(n) /\ \A i \in 1 .. Len(r) : r[i] = n[i]
  BY PrefixByElement
<1>2. Len(r) \in 1 .. Len(n) /\ r[Len(r)] \in Names
  BY <1>1
<1>3. QED
  BY <1>1, <1>2, ExtendsAssumption DEF HasPrefix

\* ... and another path that is one too is comparable with it.
LEMMA MatchesAreComparable ==
    ASSUME NEW r \in Seq(Names) \ {<<>>}, NEW q \in Seq(Names) \ {<<>>},
           NEW n \in Seq(Names), IsPrefix(r, n), HasPrefix(n, q)
    PROVE  HasPrefix(r, q) \/ HasPrefix(q, r)
<1>1. Len(r) <= Len(n) /\ \A i \in 1 .. Len(r) : r[i] = n[i]
  BY PrefixByElement
<1>2. /\ Len(q) \in 1 .. Len(n) /\ \A i \in 1 .. Len(q) - 1 : q[i] = n[i]
      /\ <<q[Len(q)], n[Len(q)]>> \in Extends
  BY DEF HasPrefix
<1>3. Len(r) \in Nat /\ Len(q) \in Nat /\ Len(r) >= 1
  OBVIOUS
<1>4. CASE Len(q) <= Len(r)
  <2>1. Len(q) \in 1 .. Len(r) /\ r[Len(q)] = n[Len(q)]
    BY <1>1, <1>2, <1>3, <1>4
  <2>2. \A i \in 1 .. Len(q) - 1 : q[i] = r[i]
    BY <1>1, <1>2, <1>3, <1>4
  <2>3. QED
    BY <1>2, <2>1, <2>2 DEF HasPrefix
<1>5. CASE Len(q) > Len(r)
  <2>1. /\ \A i \in 1 .. Len(r) : r[i] = q[i]
        /\ r[Len(r)] = q[Len(r)] /\ q[Len(r)] \in Names
    BY <1>1, <1>2, <1>3, <1>5
  <2>2. QED
    BY <1>3, <1>5, <2>1, ExtendsAssumption DEF HasPrefix
<1>6. QED
  BY <1>3, <1>4, <1>5

-----------------------------------------------------------------------------
(* Mappings of well-formed paths *)

ShortPath == [form : {"home", "rel"}, segs : Seq(Names) \ {<<>>}]

\* A path in its shortest form is a way from its root.
LEMMA ShortPathFacts ==
    ASSUME NEW p \in ShortPath, NEW m \in {Saver, Restorer}
    PROVE  /\ Root(p, m) \in Seq(Names)
           /\ Chroot(p, m) = Root(p, m)
           /\ ResolvedPath(p, m) = Root(p, m) \o p.segs
           /\ RelativePath(p) = p.segs
           /\ p.segs \in Seq(Names) \ {<<>>}
           /\ Removable(p)
<1>1. /\ p.form \in {"home", "rel"} /\ p.segs \in Seq(Names) /\ p.segs # <<>>
      /\ m.home \in Seq(Names) /\ m.cwd \in Seq(Names)
  BY MachineAssumption DEF ShortPath
<1>2. \A i \in DOMAIN p.segs : p.segs[i] \in Names
  BY <1>1
<1>3. Clean(p.segs) = p.segs
  BY <1>2 DEF Clean
<1>4. Last(p.segs) \in Names
  BY <1>1 DEF Last
<1>5. QED
  BY <1>1, <1>3, <1>4, NamesAssumption
  DEF Root, Chroot, ResolvedPath, RelativePath, Removable, Blank

\* An entry's name is the way from its path's root, by which it can be found again.
LEMMA EntryFacts ==
    ASSUME NEW p \in ShortPath, NEW f \in Found(p)
    PROVE  /\ f \in Files
           /\ IsPrefix(Chroot(p, Saver), f)
           /\ EntryName(p, f) \in Seq(Names)
           /\ f = Root(p, Saver) \o EntryName(p, f)
           /\ IsPrefix(p.segs, EntryName(p, f))
           /\ HasPrefix(EntryName(p, f), RelativePath(p))
           /\ Image(p, f) = Target(p, EntryName(p, f))
           /\ Image(p, f) \in Seq(Names)
           /\ IsPrefix(ResolvedPath(p, Restorer), Image(p, f))
<1> DEFINE root == Root(p, Saver)
           name == EntryName(p, f)
<1>1. /\ root \in Seq(Names) /\ Chroot(p, Saver) = root /\ p.segs \in Seq(Names) \ {<<>>}
      /\ ResolvedPath(p, Saver) = root \o p.segs /\ RelativePath(p) = p.segs
  BY ShortPathFacts
<1>2. f \in Files /\ f \in Seq(Names) /\ IsPrefix(root \o p.segs, f)
  BY <1>1, FilesAssumption DEF Found
<1>3. name = Below(root, f)
  BY <1>1 DEF EntryName
<1>4. IsPrefix(root, f) /\ IsPrefix(p.segs, name)
  <2> HIDE DEF root, name
  <2>1. QED
    BY <1>1, <1>2, <1>3, PrefixInPieces
<1>5. name \in Seq(Names) /\ f = root \o name
  <2> HIDE DEF root, name
  <2>1. QED
    BY <1>1, <1>2, <1>3, <1>4, BelowPrefix
<1>6. HasPrefix(name, p.segs)
  <2> HIDE DEF name
  <2>1. QED
    BY <1>1, <1>4, <1>5, OwnNameMatches
<1>7. /\ Root(p, Restorer) \in Seq(Names) /\ Chroot(p, Restorer) = Root(p, Restorer)
      /\ ResolvedPath(p, Restorer) = Root(p, Restorer) \o p.segs
  BY ShortPathFacts
<1>8. Image(p, f) = Root(p, Restorer) \o name /\ Target(p, name) = Root(p, Restorer) \o name
  BY <1>3, <1>7 DEF Image, Target
<1>9. /\ IsPrefix(Root(p, Restorer) \o p.segs, Root(p, Restorer) \o name)
      /\ Root(p, Restorer) \o name \in Seq(Names)
  <2> HIDE DEF name
  <2>1. QED
    BY <1>1, <1>4, <1>5, <1>7, PrefixOfBoth
<1>10. QED
  BY <1>1, <1>2, <1>4, <1>5, <1>6, <1>7, <1>8, <1>9

\* The mapper finds the right root for an entry, although another path may be taken
\* for its own.
LEMMA MapperFindsRoot ==
    ASSUME WellFormed, Unambiguous, paths \in Seq(ShortPath),
           NEW i \in DOMAIN paths, NEW f \in Found(paths[i]),
           NEW j \in First(EntryName(paths[i], f))
    PROVE  Target(paths[j], EntryName(paths[i], f)) = Image(paths[i], f)
<1> DEFINE name == EntryName(paths[i], f)
<1>1. /\ paths[i] \in ShortPath /\ paths[j] \in ShortPath /\ j \in DOMAIN paths
      /\ i \in Int /\ j \in Int
  BY DEF First, Matching
<1>2. /\ name \in Seq(Names) /\ IsPrefix(paths[i].segs, name)
      /\ HasPrefix(name, RelativePath(paths[i])) /\ Image(paths[i], f) = Target(paths[i], name)
  BY <1>1, EntryFacts
<1>3. /\ RelativePath(paths[i]) = paths[i].segs /\ paths[i].segs \in Seq(Names) \ {<<>>}
      /\ RelativePath(paths[j]) = paths[j].segs /\ paths[j].segs \in Seq(Names) \ {<<>>}
  BY <1>1, ShortPathFacts
<1>4. j <= i /\ HasPrefix(name, paths[j].segs)
  BY <1>2, <1>3 DEF First, Matching
<1>5. HasPrefix(paths[i].segs, paths[j].segs) \/ HasPrefix(paths[j].segs, paths[i].segs)
  <2> HIDE DEF name
  <2>1. QED
    BY <1>2, <1>3, <1>4, MatchesAreComparable
<1>6. paths[i].form = paths[j].form
  BY <1>1, <1>4, <1>5 DEF Unambiguous
<1>7. Chroot(paths[i], Restorer) = Chroot(paths[j], Restorer)
  BY <1>6 DEF Chroot
<1>8. QED
  BY <1>2, <1>7 DEF Target

-----------------------------------------------------------------------------
(* The invariant *)

Phases == {"archive", "clean", "extract", "restored", "saveFailed", "refused"}

TypeInv ==
    /\ paths \in PathLists
    /\ clean \in BOOLEAN
    /\ phase \in Phases
    /\ next \in 1 .. Len(paths) + 1
    /\ todo \subseteq archive
    /\ phase = "clean" => todo = archive
    /\ phase = "restored" => todo = {}

Entry(path, file) == [name |-> EntryName(path, file), file |-> file]

\* The archive is what its paths say: nothing else, and all of it once it is built.
ArchiveInv ==
    /\ \A e \in archive : \E i \in DOMAIN paths : \E f \in Found(paths[i]) : e = Entry(paths[i], f)
    /\ \A i \in DOMAIN paths : \A f \in Found(paths[i]) :
          phase # "archive" \/ i < next => Entry(paths[i], f) \in archive

\* The targets that have been cleaned hold nothing old.
CleanInv ==
    \A i \in DOMAIN paths : \A l \in DOMAIN disk :
        ( /\ clean
          /\ phase \in {"extract", "restored"} \/ (phase = "clean" /\ i < next)
          /\ IsPrefix(ResolvedPath(paths[i], Restorer), l) ) => disk[l] # Old

\* An entry is waiting, or its file is where it belongs.
PlacedInv ==
    phase \in {"extract", "restored"} =>
        \A i \in DOMAIN paths : \A f \in Found(paths[i]) :
            \/ Entry(paths[i], f) \in todo
            \/ Image(paths[i], f) \in DOMAIN disk /\ disk[Image(paths[i], f)] = f

Accepted == phase \notin {"saveFailed", "refused"}

IInv ==
    /\ TypeInv
    /\ WellFormed => Accepted /\ ArchiveInv /\ CleanInv
    /\ OnlyTargetsTouched
    /\ WellFormed /\ Unambiguous /\ Apart => PlacedInv

LEMMA ListType ==
    ASSUME paths \in PathLists, WellFormed
    PROVE  paths \in Seq(ShortPath)
<1> DEFINE P == [form : {"home", "rel", "abs"}, segs : Seq(Names \cup Blank)]
<1>0. paths \in Seq(P)
  BY ListAssumption
<1>1. ASSUME NEW i \in 1 .. Len(paths)
      PROVE  paths[i] \in ShortPath
  <2>1. paths[i] \in P
    <3> HIDE DEF P
    <3>1. QED
      BY <1>0
  <2>2. /\ paths[i].form \in {"home", "rel"}
        /\ paths[i].segs \in Seq(Names) \ {<<>>}
    <3> HIDE DEF P
    <3>1. i \in DOMAIN paths
      BY <1>0
    <3>2. QED
      BY <3>1 DEF WellFormed
  <2>3. paths[i] = [form |-> paths[i].form, segs |-> paths[i].segs]
    BY <2>1
  <2>4. QED
    BY <2>2, <2>3 DEF ShortPath
<1>2. paths = [i \in 1 .. Len(paths) |-> paths[i]] /\ Len(paths) \in Nat
  <2> HIDE DEF P
  <2>1. QED
    BY <1>0
<1>3. QED
  BY <1>1, <1>2, SeqDef

\* What a step that leaves the list alone can not change.
LEMMA SameList ==
    ASSUME UNCHANGED paths
    PROVE  /\ WellFormed' = WellFormed /\ Unambiguous' = Unambiguous /\ Apart' = Apart
  BY DEF WellFormed, Unambiguous, Apart

LEMMA InitIInv == Init => IInv
<1> SUFFICES ASSUME Init
             PROVE  IInv
  OBVIOUS
<1>1. TypeInv
  <2>1. Len(paths) \in Nat
    BY ListAssumption DEF Init
  <2>2. QED
    BY <2>1 DEF Init, TypeInv, Phases
<1>2. Accepted /\ CleanInv /\ PlacedInv
  BY DEF Init, Accepted, CleanInv, PlacedInv
<1>3. WellFormed => ArchiveInv
  <2>1. WellFormed => \A i \in DOMAIN paths : i >= 1
    BY ListType DEF Init
  <2>2. QED
    BY <2>1, ListType DEF Init, ArchiveInv
<1>4. OnlyTargetsTouched
  BY DEF Init, OnlyTargetsTouched
<1>5. QED
  BY <1>1, <1>2, <1>3, <1>4 DEF IInv

LEMMA ArchivePathIInv ==
    ASSUME IInv, ArchivePath
    PROVE  IInv'
<1> DEFINE path == paths[next]
           entries == {Entry(path, f) : f \in Found(path)}
<1>0. /\ phase = "archive" /\ next \in DOMAIN paths
      /\ UNCHANGED <<paths, clean, todo, disk>>
      /\ paths \in PathLists /\ DOMAIN paths = 1 .. Len(paths) /\ Len(paths) \in Nat
  BY ListAssumption DEF ArchivePath, IInv, TypeInv
<1>1. \/ archive' = archive \cup entries /\ next' = next + 1 /\ phase' = phase
      \/ archive' = archive /\ next' = next /\ phase' = "saveFailed"
  BY DEF ArchivePath, Entry
<1>2. TypeInv'
  BY <1>0, <1>1 DEF IInv, TypeInv, Phases
<1>3. ASSUME WellFormed
      PROVE  archive' = archive \cup entries /\ next' = next + 1 /\ phase' = phase
  <2>1. path \in ShortPath
    BY <1>0, <1>3, ListType
  <2>2. \A f \in Found(path) : IsPrefix(Chroot(path, Saver), f)
    BY <2>1, EntryFacts
  <2>3. QED
    BY <2>2 DEF ArchivePath, Entry
<1>4. WellFormed => Accepted' /\ ArchiveInv' /\ CleanInv'
  <2> SUFFICES ASSUME WellFormed
               PROVE  Accepted' /\ ArchiveInv' /\ CleanInv'
    OBVIOUS
  <2>1. Accepted' /\ CleanInv'
    BY <1>0, <1>3 DEF Accepted, CleanInv
  <2>2. ArchiveInv /\ next \in Int
    BY <1>0 DEF IInv
  <2>3. ASSUME NEW e \in archive'
        PROVE  \E i \in DOMAIN paths : \E f \in Found(paths[i]) : e = Entry(paths[i], f)
    <3>1. CASE e \in archive
      BY <2>2, <3>1 DEF ArchiveInv
    <3>2. CASE e \in entries
      BY <1>0, <3>2
    <3>3. QED
      BY <1>3, <3>1, <3>2
  <2>4. ASSUME NEW i \in DOMAIN paths, NEW f \in Found(paths[i]), i < next + 1
        PROVE  Entry(paths[i], f) \in archive'
    <3>1. i < next \/ i = next
      BY <1>0, <2>2, <2>4
    <3>2. QED
      BY <1>3, <2>2, <3>1 DEF ArchiveInv
  <2>5. QED
    BY <1>0, <1>3, <2>1, <2>3, <2>4 DEF ArchiveInv
<1>5. OnlyTargetsTouched'
  BY <1>0, SameList DEF IInv, OnlyTargetsTouched
<1>6. PlacedInv'
  BY <1>0, <1>1 DEF PlacedInv
<1>7. QED
  BY <1>0, <1>2, <1>4, <1>5, <1>6, SameList DEF IInv

LEMMA CleanPathIInv ==
    ASSUME IInv, CleanPath
    PROVE  IInv'
<1> DEFINE dir == ResolvedPath(paths[next], Restorer)
<1>0. /\ phase = "clean" /\ next \in DOMAIN paths
      /\ UNCHANGED <<paths, clean, archive, todo>>
      /\ paths \in PathLists /\ DOMAIN paths = 1 .. Len(paths) /\ Len(paths) \in Nat
  BY ListAssumption DEF CleanPath, IInv, TypeInv
<1>1. \/ /\ disk' = [l \in {x \in DOMAIN disk : ~IsPrefix(dir, x)} |-> disk[l]]
         /\ next' = next + 1 /\ phase' = phase
      \/ disk' = disk /\ next' = next /\ phase' = "refused"
  BY DEF CleanPath, CleanDir
<1>2. TypeInv'
  BY <1>0, <1>1 DEF IInv, TypeInv, Phases
<1>3. ASSUME WellFormed
      PROVE  /\ disk' = [l \in {x \in DOMAIN disk : ~IsPrefix(dir, x)} |-> disk[l]]
             /\ next' = next + 1 /\ phase' = phase
  <2>1. paths[next] \in ShortPath
    BY <1>0, <1>3, ListType
  <2>2. Removable(paths[next])
    BY <2>1, ShortPathFacts
  <2>3. QED
    BY <2>2 DEF CleanPath, CleanDir
<1>4. WellFormed => Accepted' /\ ArchiveInv' /\ CleanInv'
  <2> SUFFICES ASSUME WellFormed
               PROVE  Accepted' /\ ArchiveInv' /\ CleanInv'
    OBVIOUS
  <2>1. Accepted' /\ ArchiveInv'
    BY <1>0, <1>3 DEF IInv, Accepted, ArchiveInv
  <2>2. ASSUME NEW i \in DOMAIN paths, NEW l \in DOMAIN disk', clean, i < next + 1,
               IsPrefix(ResolvedPath(paths[i], Restorer), l)
        PROVE  disk'[l] # Old
    <3>1. l \in DOMAIN disk /\ ~IsPrefix(dir, l) /\ disk'[l] = disk[l]
      BY <1>3, <2>2
    <3>2. i # next
      BY <2>2, <3>1
    <3>3. i < next
      BY <1>0, <2>2, <3>2
    <3>4. QED
      BY <1>0, <2>2, <3>1, <3>3 DEF IInv, CleanInv
  <2>3. CleanInv'
    BY <1>0, <1>3, <2>2 DEF CleanInv
  <2>4. QED
    BY <2>1, <2>3
<1>5. OnlyTargetsTouched'
  <2> SUFFICES ASSUME WellFormed, Unambiguous, NEW l \in DOMAIN disk' \cup Present
               PROVE  \/ l \in DOMAIN disk' /\ l \in Present /\ disk'[l] = Old
                      \/ \E i \in DOMAIN paths : IsPrefix(ResolvedPath(paths[i], Restorer), l)
    BY <1>0, SameList DEF OnlyTargetsTouched
  <2>1. CASE IsPrefix(dir, l)
    BY <1>0, <2>1
  <2>2. CASE ~IsPrefix(dir, l)
    <3>1. l \in DOMAIN disk \cup Present /\ (l \in DOMAIN disk => l \in DOMAIN disk' /\ disk'[l] = disk[l])
      BY <1>3, <2>2
    <3>2. QED
      BY <3>1 DEF IInv, OnlyTargetsTouched
  <2>3. QED
    BY <2>1, <2>2
<1>6. PlacedInv'
  BY <1>0, <1>1 DEF PlacedInv
<1>7. QED
  BY <1>0, <1>2, <1>4, <1>5, <1>6, SameList DEF IInv

\* The steps between the loops.
LEMMA PhaseIInv ==
    ASSUME IInv, ArchiveBuilt \/ Cleaned \/ Extracted \/ UNCHANGED vars
    PROVE  IInv'
<1>0. /\ UNCHANGED <<paths, clean, archive, disk>>
      /\ paths \in PathLists /\ DOMAIN paths = 1 .. Len(paths) /\ Len(paths) \in Nat
      /\ TypeInv /\ next \in Int
  BY ListAssumption DEF ArchiveBuilt, Cleaned, Extracted, vars, IInv, TypeInv
<1>1. OnlyTargetsTouched'
  BY <1>0, SameList DEF IInv, OnlyTargetsTouched
<1>2. CASE ArchiveBuilt
  <2>1. /\ phase = "archive" /\ next > Len(paths) /\ next' = 1 /\ todo' = archive
        /\ phase' = IF clean THEN "clean" ELSE "extract"
    BY <1>2 DEF ArchiveBuilt
  <2>2. TypeInv' /\ Accepted'
    BY <1>0, <2>1 DEF TypeInv, Phases, Accepted
  <2>3. WellFormed => ArchiveInv'
    BY <1>0, <2>1 DEF IInv, ArchiveInv
  <2>4. CleanInv'
    BY <1>0, <2>1 DEF CleanInv
  <2>5. WellFormed => PlacedInv'
    BY <1>0, <2>1 DEF IInv, ArchiveInv, PlacedInv
  <2>6. QED
    BY <1>0, <1>1, <2>2, <2>3, <2>4, <2>5, SameList DEF IInv
<1>3. CASE Cleaned
  <2>1. /\ phase = "clean" /\ next > Len(paths) /\ phase' = "extract"
        /\ UNCHANGED <<next, todo>>
    BY <1>3 DEF Cleaned
  <2>2. TypeInv' /\ Accepted'
    BY <1>0, <2>1 DEF TypeInv, Phases, Accepted
  <2>3. WellFormed => ArchiveInv' /\ CleanInv'
    BY <1>0, <2>1 DEF IInv, ArchiveInv, CleanInv
  <2>4. WellFormed => PlacedInv'
    BY <1>0, <2>1 DEF IInv, TypeInv, ArchiveInv, PlacedInv
  <2>5. QED
    BY <1>0, <1>1, <2>2, <2>3, <2>4, SameList DEF IInv
<1>4. CASE Extracted
  <2>1. /\ phase = "extract" /\ todo = {} /\ phase' = "restored"
        /\ UNCHANGED <<next, todo>>
    BY <1>4 DEF Extracted
  <2>2. TypeInv' /\ Accepted'
    BY <1>0, <2>1 DEF TypeInv, Phases, Accepted
  <2>3. WellFormed => ArchiveInv' /\ CleanInv'
    BY <1>0, <2>1 DEF IInv, ArchiveInv, CleanInv
  <2>4. PlacedInv => PlacedInv'
    BY <1>0, <2>1 DEF PlacedInv
  <2>5. QED
    BY <1>0, <1>1, <2>2, <2>3, <2>4, SameList DEF IInv
<1>5. CASE UNCHANGED vars
  BY <1>0, <1>1, <1>5, SameList
  DEF vars, IInv, TypeInv, Accepted, ArchiveInv, CleanInv, PlacedInv
<1>6. QED
  BY <1>2, <1>3, <1>4, <1>5

LEMMA ExtractEntryIInv ==
    ASSUME IInv, NEW entry \in todo, ExtractEntry(entry)
    PROVE  IInv'
<1>0. /\ phase = "extract" /\ entry \in archive
      /\ UNCHANGED <<paths, clean, next, archive>>
      /\ paths \in PathLists /\ DOMAIN paths = 1 .. Len(paths) /\ Len(paths) \in Nat
  BY ListAssumption DEF ExtractEntry, IInv, TypeInv
<1>1. TypeInv'
  BY <1>0 DEF ExtractEntry, IInv, TypeInv, Phases
<1>2. CASE ~WellFormed
  <2>1. ~WellFormed'
    BY <1>0, <1>2, SameList
  <2>2. QED
    BY <1>1, <2>1 DEF IInv, OnlyTargetsTouched
<1>3. CASE WellFormed
  <2>0. PICK i \in DOMAIN paths : \E f \in Found(paths[i]) : entry = Entry(paths[i], f)
    BY <1>0, <1>3 DEF IInv, ArchiveInv
  <2>1. PICK f \in Found(paths[i]) : entry = Entry(paths[i], f)
    BY <2>0
  <2> DEFINE name == EntryName(paths[i], f)
             image == Image(paths[i], f)
  <2>2. paths \in Seq(ShortPath) /\ paths[i] \in ShortPath
    BY <1>0, <1>3, ListType
  <2>3. /\ entry.name = name /\ entry.file = f
        /\ f \in Files /\ HasPrefix(name, RelativePath(paths[i]))
        /\ IsPrefix(ResolvedPath(paths[i], Restorer), image)
    BY <2>1, <2>2, EntryFacts DEF Entry
  <2>4. PICK j \in First(name) :
           LET target == Target(paths[j], name) IN
           /\ disk' = [l \in DOMAIN disk \cup {target} |-> IF l = target THEN f ELSE disk[l]]
           /\ todo' = todo \ {entry}
           /\ UNCHANGED phase
    <3>1. Matching(name) # {}
      BY <2>3 DEF Matching
    <3>2. QED
      BY <2>3, <3>1 DEF ExtractEntry
  <2>5. PICK target : target = Target(paths[j], name)
    OBVIOUS
  <2>6. /\ DOMAIN disk' = DOMAIN disk \cup {target}
        /\ disk'[target] = f
        /\ \A l \in DOMAIN disk \ {target} : disk'[l] = disk[l]
        /\ todo' = todo \ {entry} /\ phase' = phase
    BY <2>4, <2>5
  <2>7. Accepted' /\ ArchiveInv'
    BY <1>0, <1>3, <2>6 DEF IInv, Accepted, ArchiveInv
  <2>8. CleanInv'
    <3>1. f # Old
      BY <2>3, FilesAssumption
    <3>2. ASSUME NEW l \in DOMAIN disk', l # target
          PROVE  l \in DOMAIN disk /\ disk'[l] = disk[l]
      BY <2>6, <3>2
    <3>3. QED
      BY <1>0, <1>3, <2>6, <3>1, <3>2 DEF IInv, CleanInv
  <2>9. Unambiguous => target = image
    BY <1>3, <2>2, <2>5, MapperFindsRoot
  <2>10. OnlyTargetsTouched'
    <3> SUFFICES ASSUME Unambiguous, NEW l \in DOMAIN disk' \cup Present
                 PROVE  \/ l \in DOMAIN disk' /\ l \in Present /\ disk'[l] = Old
                        \/ \E k \in DOMAIN paths : IsPrefix(ResolvedPath(paths[k], Restorer), l)
      BY <1>0, SameList DEF OnlyTargetsTouched
    <3>1. CASE l = target
      BY <2>3, <2>9, <3>1
    <3>2. CASE l # target
      <4>1. l \in DOMAIN disk \cup Present /\ (l \in DOMAIN disk => disk'[l] = disk[l])
        BY <2>6, <3>2
      <4>2. QED
        BY <1>3, <2>6, <4>1 DEF IInv, OnlyTargetsTouched
    <3>3. QED
      BY <3>1, <3>2
  <2>11. Unambiguous /\ Apart => PlacedInv'
    <3> SUFFICES ASSUME Unambiguous, Apart, NEW k \in DOMAIN paths, NEW g \in Found(paths[k])
                 PROVE  \/ Entry(paths[k], g) \in todo'
                        \/ /\ Image(paths[k], g) \in DOMAIN disk'
                           /\ disk'[Image(paths[k], g)] = g
      BY <1>0 DEF PlacedInv
    <3>1. \/ Entry(paths[k], g) \in todo
          \/ Image(paths[k], g) \in DOMAIN disk /\ disk[Image(paths[k], g)] = g
      BY <1>0, <1>3 DEF IInv, PlacedInv
    <3>2. CASE Image(paths[k], g) = image
      <4>1. g = f
        BY <3>2 DEF Apart
      <4>2. QED
        BY <2>6, <2>9, <3>2, <4>1
    <3>3. CASE Image(paths[k], g) # image
      <4>1. CASE Entry(paths[k], g) = entry
        <5>1. EntryName(paths[k], g) = name /\ g = f
          BY <2>3, <4>1 DEF Entry
        <5>2. Target(paths[k], name) = Image(paths[k], g) /\ HasPrefix(name, RelativePath(paths[k]))
          <6>1. paths[k] \in ShortPath
            BY <2>2
          <6>2. QED
            BY <5>1, <6>1, EntryFacts
        <5>3. QED
          BY <1>3, <2>2, <2>4, <2>5, <2>6, <2>9, <5>1, MapperFindsRoot
      <4>2. CASE Entry(paths[k], g) # entry
        BY <2>6, <2>9, <3>1, <3>3, <4>2
      <4>3. QED
        BY <4>1, <4>2
    <3>4. QED
      BY <3>2, <3>3
  <2>12. QED
    BY <1>0, <1>1, <2>7, <2>8, <2>10, <2>11, SameList DEF IInv
<1>4. QED
  BY <1>2, <1>3

LEMMA NextIInv == IInv /\ [Next]_vars => IInv'
  BY ArchivePathIInv, CleanPathIInv, PhaseIInv, ExtractEntryIInv DEF Next, Ended

LEMMA IInvAlways == Spec => []IInv
  BY InitIInv, NextIInv, PTL DEF Spec

-----------------------------------------------------------------------------

\* What has been saved with a list in its shortest form can be restored with it: no
\* file is refused on either side, on machines of any layout.
THEOREM ShortListsRestore == Spec => []WellFormedRestores
<1>1. IInv => WellFormedRestores
  BY DEF IInv, Accepted, WellFormedRestores
<1>2. QED
  BY <1>1, IInvAlways, PTL

\* Every file comes back to its place, whatever else is in the archive, when no path
\* is taken for a later one of the other root and no two files share a place.
THEOREM FilesComeBack == Spec => []PlacedWhereSaved
<1>1. IInv => PlacedWhereSaved
  BY DEF IInv, TypeInv, PlacedInv, PlacedWhereSaved
<1>2. QED
  BY <1>1, IInvAlways, PTL

\* --clean leaves nothing old in a target.
THEOREM CleanIsExact == Spec => []CleanRestoreExact
<1>1. IInv => CleanRestoreExact
  BY DEF IInv, CleanInv, CleanRestoreExact
<1>2. QED
  BY <1>1, IInvAlways, PTL

\* Nothing outside the targets is written or removed, also by a restore in progress.
THEOREM RestoreStaysInTargets == Spec => []OnlyTargetsTouched
<1>1. IInv => OnlyTargetsTouched
  BY DEF IInv
<1>2. QED
  BY <1>1, IInvAlways, PTL

-----------------------------------------------------------------------------
(* Types: lists in any form, also those that name a path twice or in another *)
(* way than the shortest.                                                    *)

\* Every entry is named by the way to its file from one of the saver's roots, and
\* whatever is on the restoring machine's disk is at a location.
NamesInv ==
    /\ \A e \in archive :
          /\ e.name \in Seq(Names) /\ e.file \in Files
          /\ \E i \in DOMAIN paths : e.file = Root(paths[i], Saver) \o e.name
    /\ DOMAIN disk \subseteq Seq(Names)
    /\ \A l \in DOMAIN disk : disk[l] \in Files \/ disk[l] = Old

LEMMA RootTypes ==
    ASSUME NEW path, NEW machine \in {Saver, Restorer}
    PROVE  /\ Root(path, machine) \in Seq(Names)
           /\ Chroot(path, machine) = Root(path, machine)
  BY MachineAssumption DEF Root, Chroot

LEMMA NamesStep ==
    ASSUME TypeInv, NamesInv, [Next]_vars
    PROVE  NamesInv'
<1>1. CASE ArchivePath
  <2> DEFINE path == paths[next]
             entries == {Entry(path, f) : f \in Found(path)}
  <2>1. next \in DOMAIN paths /\ UNCHANGED <<paths, disk>>
    BY <1>1 DEF ArchivePath
  <2>2. CASE \A f \in Found(path) : IsPrefix(Chroot(path, Saver), f)
    <3>1. archive' = archive \cup entries
      BY <1>1, <2>2 DEF ArchivePath, Entry
    <3>2. ASSUME NEW f \in Found(path)
          PROVE  /\ EntryName(path, f) \in Seq(Names) /\ f \in Files
                 /\ f = Root(path, Saver) \o EntryName(path, f)
      <4>1. f \in Files /\ f \in Seq(Names)
        BY FilesAssumption DEF Found
      <4>2. Root(path, Saver) \in Seq(Names) /\ Chroot(path, Saver) = Root(path, Saver)
        BY RootTypes
      <4>3. IsPrefix(Root(path, Saver), f)
        BY <2>2, <4>2
      <4>4. QED
        BY <4>1, <4>2, <4>3, BelowPrefix DEF EntryName
    <3>3. ASSUME NEW e \in entries
          PROVE  /\ e.name \in Seq(Names) /\ e.file \in Files
                 /\ e.file = Root(path, Saver) \o e.name
      <4>1. PICK f \in Found(path) : e = Entry(path, f)
        BY <3>3
      <4>2. e.name = EntryName(path, f) /\ e.file = f
        BY <4>1 DEF Entry
      <4> HIDE DEF path
      <4>3. QED
        BY <3>2, <4>2
    <3> HIDE DEF entries
    <3>4. QED
      BY <2>1, <3>1, <3>3 DEF NamesInv
  <2>3. CASE ~\A f \in Found(path) : IsPrefix(Chroot(path, Saver), f)
    <3>1. UNCHANGED archive
      BY <1>1, <2>3 DEF ArchivePath
    <3>2. QED
      BY <2>1, <3>1 DEF NamesInv
  <2>4. QED
    BY <2>2, <2>3
<1>2. CASE CleanPath
  BY <1>2 DEF CleanPath, NamesInv
<1>3. ASSUME NEW entry \in todo, ExtractEntry(entry)
      PROVE  NamesInv'
  <2>1. UNCHANGED <<paths, archive>> /\ entry \in archive
    BY <1>3 DEF ExtractEntry, TypeInv
  <2>2. CASE UNCHANGED disk
    BY <2>1, <2>2 DEF NamesInv
  <2>3. ASSUME NEW i \in First(entry.name),
               LET target == Target(paths[i], entry.name) IN
               disk' = [l \in DOMAIN disk \cup {target} |->
                           IF l = target THEN entry.file ELSE disk[l]]
        PROVE  NamesInv'
    <3>1. Target(paths[i], entry.name) \in Seq(Names)
      <4>1. entry.name \in Seq(Names) /\ Chroot(paths[i], Restorer) \in Seq(Names)
        BY <2>1, RootTypes DEF NamesInv
      <4>2. QED
        BY <4>1 DEF Target
    <3>2. entry.file \in Files
      BY <2>1 DEF NamesInv
    <3>3. QED
      BY <2>1, <2>3, <3>1, <3>2 DEF NamesInv
  <2>4. QED
    BY <1>3, <2>2, <2>3 DEF ExtractEntry
<1>4. CASE ArchiveBuilt \/ Cleaned \/ Extracted \/ Ended \/ UNCHANGED vars
  BY <1>4 DEF ArchiveBuilt, Cleaned, Extracted, Ended, vars, NamesInv
<1>5. QED
  BY <1>1, <1>2, <1>3, <1>4 DEF Next

\* Type correctness; every entry of the archive, under whichever form its path was
\* written, leads from one of the saver's two roots to the file it holds.
THEOREM TypeCorrect == Spec => []TypeOK
<1>1. Init => NamesInv
  BY FilesAssumption DEF Init, NamesInv
<1>2. Spec => []TypeInv
  BY IInvAlways, PTL DEF IInv
<1>3. Spec => []NamesInv
  BY <1>1, <1>2, NamesStep, PTL DEF Spec
<1>4. TypeInv /\ NamesInv => TypeOK
  BY DEF TypeInv, NamesInv, TypeOK, Phases
<1>5. QED
  BY <1>2, <1>3, <1>4, PTL

-----------------------------------------------------------------------------
(* Lists that no restore accepts *)

\* A path written ./x, or an absolute one: its relative path begins with something
\* that is not the name of a file.
Unmatchable(path) ==
    \/ path.form = "rel" /\ Len(path.segs) > 1 /\ path.segs[1] = "."
    \/ path.form = "abs" /\ path.segs # <<>>

AllUnmatchable == \A i \in DOMAIN paths : Unmatchable(paths[i])

NothingExtracted == AllUnmatchable /\ phase \in {"extract", "restored"} => todo = archive

LEMMA PutInFront ==
    ASSUME NEW S, NEW x \in S, NEW s \in Seq(S), s # <<>>
    PROVE  Len(<<x>> \o s) > 1 /\ (<<x>> \o s)[1] = x
<1>1. Len(s) \in Nat /\ Len(s) # 0
  BY EmptySeq
<1> DEFINE e == <<x>>
<1>2. e \in Seq(S) /\ Len(e) = 1 /\ e[1] = x
  OBVIOUS
<1> HIDE DEF e
<1>3. Len(e \o s) = 1 + Len(s) /\ (e \o s)[1] = x
  BY <1>1, <1>2, ConcatProperties
<1>4. QED
  BY <1>1, <1>3 DEF e

LEMMA UnmatchableNeverMatches ==
    ASSUME TypeInv, AllUnmatchable, NEW name \in Seq(Names)
    PROVE  Matching(name) = {}
<1> SUFFICES ASSUME NEW i \in DOMAIN paths, HasPrefix(name, RelativePath(paths[i]))
             PROVE  FALSE
  BY DEF Matching
<1>1. paths[i].segs \in Seq(Names \cup Blank) /\ Unmatchable(paths[i])
  <2> DEFINE Path == [form : {"home", "rel", "abs"}, segs : Seq(Names \cup Blank)]
  <2>1. paths \in Seq(Path)
    BY ListAssumption DEF TypeInv
  <2>2. \A path \in Path : path.segs \in Seq(Names \cup Blank)
    OBVIOUS
  <2> HIDE DEF Path
  <2>3. paths[i] \in Path
    BY <2>1
  <2>4. Unmatchable(paths[i])
    BY DEF AllUnmatchable
  <2>5. QED
    BY <2>2, <2>3, <2>4
<1> DEFINE prefix == RelativePath(paths[i])
<1>2. Len(prefix) > 1 /\ prefix[1] \in Blank
  <2>1. CASE paths[i].form = "rel"
    <3>1. prefix = paths[i].segs
      BY <2>1 DEF RelativePath
    <3>2. Len(paths[i].segs) > 1 /\ paths[i].segs[1] = "."
      BY <1>1, <2>1 DEF Unmatchable
    <3> HIDE DEF prefix
    <3>3. QED
      BY <3>1, <3>2 DEF Blank
  <2>2. CASE paths[i].form = "abs"
    <3>1. prefix = <<"">> \o paths[i].segs
      BY <2>2 DEF RelativePath
    <3>2. paths[i].segs # <<>>
      BY <1>1, <2>2 DEF Unmatchable
    <3>3. "" \in Names \cup Blank /\ "" \in Blank
      BY DEF Blank
    <3> HIDE DEF prefix
    <3>4. QED
      BY <1>1, <3>1, <3>2, <3>3, PutInFront
  <2>3. QED
    BY <1>1, <2>1, <2>2 DEF Unmatchable
<1>3. /\ Len(prefix) \in 1 .. Len(name)
      /\ \A j \in 1 .. Len(prefix) - 1 : prefix[j] = name[j]
  BY DEF HasPrefix
<1> HIDE DEF prefix
<1>4. 1 \in 1 .. Len(prefix) - 1 /\ 1 \in 1 .. Len(name)
  BY <1>2, <1>3
<1>5. prefix[1] \in Names
  BY <1>3, <1>4
<1>6. QED
  BY <1>2, <1>5, NamesAssumption

LEMMA NothingExtractedStep ==
    ASSUME TypeInv, NamesInv, NothingExtracted, [Next]_vars
    PROVE  NothingExtracted'
<1>1. ASSUME NEW entry \in todo, ExtractEntry(entry), AllUnmatchable
      PROVE  phase' = "refused"
  <2>1. entry.name \in Seq(Names)
    BY <1>1 DEF TypeInv, NamesInv
  <2>2. Matching(entry.name) = {}
    BY <1>1, <2>1, UnmatchableNeverMatches
  <2>3. QED
    BY <1>1, <2>2 DEF ExtractEntry, First
<1>2. UNCHANGED paths /\ AllUnmatchable' = AllUnmatchable
  BY DEF Next, ArchivePath, ArchiveBuilt, CleanPath, Cleaned, ExtractEntry, Extracted, Ended,
         vars, AllUnmatchable
<1>3. CASE ArchivePath \/ CleanPath \/ UNCHANGED vars \/ Ended
  BY <1>2, <1>3 DEF ArchivePath, CleanPath, Ended, vars, NothingExtracted
<1>4. CASE ArchiveBuilt \/ Cleaned \/ Extracted
  BY <1>2, <1>4 DEF ArchiveBuilt, Cleaned, Extracted, NothingExtracted, TypeInv
<1>5. QED
  BY <1>1, <1>2, <1>3, <1>4 DEF Next, NothingExtracted

\* What is saved with paths that are absolute or begin with ./ can not be restored with
\* them: a restore that succeeds had an archive with no files in it.  The mappings keep
\* such a path as it is written, and no entry's name begins that way.
THEOREM DottedAndAbsoluteAreLost ==
    Spec => [](AllUnmatchable /\ phase = "restored" => archive = {})
<1>1. Init => NamesInv /\ NothingExtracted
  BY FilesAssumption DEF Init, NamesInv, NothingExtracted
<1>2. Spec => []TypeInv
  BY IInvAlways, PTL DEF IInv
<1>3. Spec => [](NamesInv /\ NothingExtracted)
  BY <1>1, <1>2, NamesStep, NothingExtractedStep, PTL DEF Spec
<1>4. TypeInv /\ NothingExtracted =>
         (AllUnmatchable /\ phase = "restored" => archive = {})
  BY DEF TypeInv, NothingExtracted
<1>5. QED
  BY <1>2, <1>3, <1>4, PTL

=============================================================================
