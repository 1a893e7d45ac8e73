----------------------------- MODULE PathMapping -----------------------------
(***************************************************************************)
(* pkg/archive: which files a list of paths puts in an archive, under      *)
(* which names, and where a restore with the same list puts them, on a     *)
(* machine whose home and working directories may lie elsewhere.  The      *)
(* archive keeps names that are relative to a root, and does not say which *)
(* root: the restore finds that out again, entry by entry, from the paths. *)
(*                                                                         *)
(* A path is written with ~/, relative to the working directory, or        *)
(* absolutely, and then names separated by slashes.  A location is the     *)
(* sequence of names that leads to it from the file system's root.         *)
(***************************************************************************)
EXTENDS Integers, Sequences, SequencesExt, FiniteSets

CONSTANTS
    Names,      \* of files and directories
    Extends,    \* pairs of a written name and a name whose text begins with it
    PathLists,  \* lists of paths a save and its restores are given
    Saver,      \* the machine that saves: its home and cwd
    Restorer,   \* the machine that restores
    Files,      \* locations of the saver's files
    Present,    \* locations of the restorer's files, before
    Old         \* what those hold

\* "." and what follows a trailing slash are written as names, and name nothing.
Blank == {".", ""}

ASSUME NamesAssumption == Names \cap Blank = {}
ASSUME ExtendsAssumption == \A n \in Names : <<n, n>> \in Extends
ASSUME MachineAssumption ==
    {Saver, Restorer} \subseteq [home : Seq(Names), cwd : Seq(Names)]
ASSUME ListAssumption ==
    PathLists \subseteq Seq([form : {"home", "rel", "abs"}, segs : Seq(Names \cup Blank)])
ASSUME FilesAssumption == 
    /\ Files \subseteq Seq(Names) /\ Present \subseteq Seq(Names)
    /\ Old \notin Files

VARIABLES
    paths,    \* the list
    clean,    \* the --clean flag
    phase,    \* "archive", "clean", "extract", "restored", "saveFailed", "refused"
    next,     \* index in the list of the path in work
    archive,  \* the archive's entries: a name and the file it came from
    todo,     \* entries still to be extracted
    disk      \* what each location of the restorer's disk holds

vars == <<paths, clean, phase, next, archive, todo, disk>>

-----------------------------------------------------------------------------
(* PathsToMappings *)

\* filepath.Clean; a path with nothing to clean is returned as it is.
Clean(segs) ==
    IF \A i \in DOMAIN segs : segs[i] \in Names
      THEN segs ELSE SelectSeq(segs, LAMBDA s : s \notin Blank)

Root(path, machine) == IF path.form = "rel" THEN machine.cwd ELSE machine.home

\* Where a path leads, as ResolveHomeDir and then the operating system take it.
ResolvedPath(path, machine) ==
    CASE path.form = "abs" -> Clean(path.segs)
      [] path.form = "home" -> machine.home \o Clean(path.segs)
      [] path.form = "rel" -> machine.cwd \o Clean(path.segs)

\* A mapping without the filepath.Rel for a path under ~/.
RelativePath_AsWritten(path) ==
    CASE path.form = "home" -> <<"~">> \o path.segs
      [] path.form = "rel" -> path.segs
      [] path.form = "abs" -> <<"">> \o path.segs
\* What the names of a path's entries are expected to begin with: the path from the
\* home directory, cleaned, for one under ~/, and any other as it is written.
RelativePath(path) ==
    CASE path.form = "home" /\ Clean(path.segs) = <<>> -> <<".">>
      [] path.form = "home" /\ Clean(path.segs) # <<>> -> Clean(path.segs)
      [] path.form = "rel" -> path.segs
      [] path.form = "abs" -> <<"">> \o path.segs

\* chrootPath: home for what has become absolute, the working directory otherwise.
Chroot(path, machine) == IF path.form = "rel" THEN machine.cwd ELSE machine.home

\* strings.HasPrefix of the two texts: the last name may be cut short.
HasPrefix(name, prefix) ==
    /\ Len(prefix) \in 1 .. Len(name)
    /\ \A i \in 1 .. Len(prefix) - 1 : prefix[i] = name[i]
    /\ <<prefix[Len(prefix)], name[Len(prefix)]>> \in Extends

Below(dir, location) == SubSeq(location, Len(dir) + 1, Len(location))

-----------------------------------------------------------------------------

Init ==
    /\ paths \in PathLists
    /\ clean \in BOOLEAN
    /\ phase = "archive"
    /\ next = 1
    /\ archive = {}
    /\ todo = {}
    /\ disk = [location \in Present |-> Old]

\* The files that Walk finds under a path: none when it does not exist.
Found(path) == {f \in Files : IsPrefix(ResolvedPath(path, Saver), f)}

\* Names that lead to the file from the file system's root.
EntryName_Absolute(path, file) == file
\* quickzip names an entry by the way from the mapping's chroot to the file.
EntryName(path, file) == Below(Chroot(path, Saver), file)

\* BuildArchive's loop, for one path.  quickzip refuses a file that is outside of
\* the chroot; isUnderHome's verdict is not looked at.
ArchivePath ==
    /\ phase = "archive"
    /\ next \in DOMAIN paths
    /\ LET path == paths[next] IN
       IF \A f \in Found(path) : IsPrefix(Chroot(path, Saver), f)
         THEN /\ archive' = archive \cup
                     {[name |-> EntryName(path, f), file |-> f] : f \in Found(path)}
              /\ next' = next + 1
              /\ UNCHANGED phase
         ELSE /\ phase' = "saveFailed"
              /\ UNCHANGED <<archive, next>>
    /\ UNCHANGED <<paths, clean, todo, disk>>

\* The archive is complete; a restore has downloaded it, on the other machine.
ArchiveBuilt ==
    /\ phase = "archive"
    /\ next > Len(paths)
    /\ next' = 1
    /\ todo' = archive
    /\ phase' = IF clean THEN "clean" ELSE "extract"
    /\ UNCHANGED <<paths, clean, archive, disk>>

\* os.RemoveAll does not take a path that ends in a dot.
Removable(path) == path.form = "home" \/ path.segs = <<>> \/ Last(path.segs) # "."

\* --clean without ResolveHomeDir.
CleanDir_Unresolved(path) == Restorer.cwd \o Clean(path.segs)
CleanDir(path) == ResolvedPath(path, Restorer)

\* cleanPath, for one path.
CleanPath ==
    /\ phase = "clean"
    /\ next \in DOMAIN paths
    /\ IF Removable(paths[next])
         THEN /\ disk' = [l \in {x \in DOMAIN disk : ~IsPrefix(CleanDir(paths[next]), x)} |->
                            disk[l]]
              /\ next' = next + 1
              /\ UNCHANGED phase
         ELSE /\ phase' = "refused"
              /\ UNCHANGED <<next, disk>>
    /\ UNCHANGED <<paths, clean, archive, todo>>

Cleaned ==
    /\ phase = "clean"
    /\ next > Len(paths)
    /\ phase' = "extract"
    /\ UNCHANGED <<paths, clean, next, archive, todo, disk>>

\* The mappings that would take an entry.
Matching(name) == {i \in DOMAIN paths : HasPrefix(name, RelativePath(paths[i]))}

\* ExtractFiles' mapper takes the first mapping that matches.
First(name) == {i \in Matching(name) : \A j \in Matching(name) : i <= j}

\* As if every archive were extracted in the home directory.
Target_AtHome(path, name) == Restorer.home \o name
\* The entry's last name alone.
Target_Base(path, name) == Chroot(path, Restorer) \o <<Last(name)>>
Target(path, name) == Chroot(path, Restorer) \o name

\* One entry is extracted, or refused for want of a mapping.
ExtractEntry(entry) ==
    /\ phase = "extract"
    /\ \/ \E i \in First(entry.name) :
             LET target == Target(paths[i], entry.name) IN
             /\ disk' = [l \in DOMAIN disk \cup {target} |->
                            IF l = target THEN entry.file ELSE disk[l]]
             /\ todo' = todo \ {entry}
             /\ UNCHANGED phase
       \/ /\ Matching(entry.name) = {}
          /\ phase' = "refused"
          /\ UNCHANGED <<disk, todo>>
    /\ UNCHANGED <<paths, clean, next, archive>>

Extracted ==
    /\ phase = "extract"
    /\ todo = {}
    /\ phase' = "restored"
    /\ UNCHANGED <<paths, clean, next, archive, todo, disk>>

Ended ==
    /\ phase \in {"restored", "saveFailed", "refused"}
    /\ UNCHANGED vars

Next ==
    \/ ArchivePath
    \/ ArchiveBuilt
    \/ CleanPath
    \/ Cleaned
    \/ \E entry \in todo : ExtractEntry(entry)
    \/ Extracted
    \/ Ended

Spec == Init /\ [][Next]_vars

-----------------------------------------------------------------------------
(* Properties *)

\* Lists whose paths are relative, or under ~/, and in their shortest form.
WellFormed ==
    \A i \in DOMAIN paths :
        /\ paths[i].form \in {"home", "rel"}
        /\ paths[i].segs \in Seq(Names) \ {<<>>}

\* No path is taken for a later one of the other root: neither of the two begins
\* with the text of the other.
Unambiguous ==
    \A i, j \in DOMAIN paths :
        i < j /\ paths[i].form # paths[j].form =>
            /\ ~HasPrefix(paths[i].segs, paths[j].segs)
            /\ ~HasPrefix(paths[j].segs, paths[i].segs)

\* Where a saver's file belongs on the restoring machine.
Image(path, file) == Root(path, Restorer) \o Below(Root(path, Saver), file)

\* On the restoring machine, no two files belong at one place: its two roots may lie
\* in each other in another way than the saver's.
Apart ==
    \A i, j \in DOMAIN paths : \A f \in Found(paths[i]), g \in Found(paths[j]) :
        Image(paths[i], f) = Image(paths[j], g) => f = g

\* Types; the archive's names are those of files below the root of one of the paths.
TypeOK ==
    /\ paths \in PathLists
    /\ clean \in BOOLEAN
    /\ phase \in {"archive", "clean", "extract", "restored", "saveFailed", "refused"}
    /\ next \in 1 .. Len(paths) + 1
    /\ \A e \in archive :
          /\ e.file \in Files
          /\ \E i \in DOMAIN paths : e.file = Root(paths[i], Saver) \o e.name
    /\ todo \subseteq archive
    /\ DOMAIN disk \subseteq Seq(Names)
    /\ \A l \in DOMAIN disk : disk[l] \in Files \/ disk[l] = Old

\* Every file comes back to the place that corresponds to the one it was saved from,
\* although the entry's name does not say which root that is.
PlacedWhereSaved ==
    phase = "restored" /\ WellFormed /\ Unambiguous /\ Apart =>
        \A i \in DOMAIN paths : \A f \in Found(paths[i]) :
            /\ Image(paths[i], f) \in DOMAIN disk
            /\ disk[Image(paths[i], f)] = f

\* Neither the save nor the restore refuses a list in its shortest form, ambiguous or
\* not: what has been saved can be restored.
WellFormedRestores == WellFormed => phase \notin {"saveFailed", "refused"}

\* After a restore with --clean, a target holds nothing but the archive's files.
CleanRestoreExact ==
    phase = "restored" /\ clean /\ WellFormed =>
        \A i \in DOMAIN paths : \A l \in DOMAIN disk :
            IsPrefix(ResolvedPath(paths[i], Restorer), l) => disk[l] # Old

\* A restore, wherever it stops, leaves alone what lies outside its targets.
OnlyTargetsTouched ==
    WellFormed /\ Unambiguous =>
        \A l \in DOMAIN disk \cup Present :
            \/ l \in DOMAIN disk /\ l \in Present /\ disk[l] = Old
            \/ \E i \in DOMAIN paths : IsPrefix(ResolvedPath(paths[i], Restorer), l)

=============================================================================
