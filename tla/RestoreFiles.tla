---------------------------- MODULE RestoreFiles ----------------------------
(***************************************************************************)
(* The client's half of RestoreCmd.restore: download the parts, sort them, *)
(* append them to one zip file, optionally remove the target paths, and    *)
(* extract.  Any of these may fail half way, and nothing is undone.        *)
(***************************************************************************)
EXTENDS PartDownloader, Sorting

VARIABLES
    phase,   \* restore: "download", "combine", "clean", "extract", "done", "failed"
    clean,   \* the --clean flag
    zip,     \* the downloaded files appended to the zip file
    target   \* the target paths: "old", "cleaned", "mixed" or "new"

fileVars == <<phase, clean, zip, target>>

\* The files as they came.
SortedDownloads_AsAppended == downloads
\* slices.SortFunc on the part numbers.
SortedDownloads == SortBy(downloads, [i \in DOMAIN downloads |-> downloads[i].part])

\* The zip reader can make sense of the file: it starts from the directory at the
\* end, so that a second copy of the archive does no harm, and a document does.
Readable == \A i \in DOMAIN zip : zip[i].body # "document"

-----------------------------------------------------------------------------

RestoreInit ==
    /\ Init
    /\ phase = "download"
    /\ clean \in BOOLEAN
    /\ zip = <<>>
    /\ target = "old"

Downloading == Next /\ UNCHANGED fileVars

Downloaded ==
    /\ phase = "download"
    /\ main \in {"ok", "err"}
    /\ phase' = IF main = "ok" THEN "combine" ELSE "failed"
    /\ UNCHANGED <<vars, clean, zip, target>>

\* One iteration of combineParts.
AppendToFile ==
    /\ phase = "combine"
    /\ Len(zip) < Len(downloads)
    /\ zip' = Append(zip, SortedDownloads[Len(zip) + 1])
    /\ UNCHANGED <<vars, phase, clean, target>>

Combined ==
    /\ phase = "combine"
    /\ Len(zip) = Len(downloads)
    /\ phase' = IF clean THEN "clean" ELSE "extract"
    /\ UNCHANGED <<vars, clean, zip, target>>

\* cleanPath for every path.
CleanPaths ==
    /\ phase = "clean"
    /\ target' = "cleaned"
    /\ phase' = "extract"
    /\ UNCHANGED <<vars, clean, zip>>

\* Parsing and checksums refuse an archive with a document in it.
ExtractFiles ==
    /\ phase = "extract"
    /\ Readable
    /\ target' = "new"
    /\ phase' = "done"
    /\ UNCHANGED <<vars, clean, zip>>

\* An error while combining, cleaning or extracting; the last two leave what
\* they had done by then.
StepFails ==
    /\ phase \in {"combine", "clean", "extract"}
    /\ phase' = "failed"
    /\ \/ UNCHANGED target
       \/ phase = "clean" /\ target' = "cleaned"
       \/ phase = "extract" /\ target' = "mixed"
    /\ UNCHANGED <<vars, clean, zip>>

Ended == phase \in {"done", "failed"} /\ UNCHANGED <<vars, fileVars>>

RestoreSteps ==
    Downloaded \/ AppendToFile \/ Combined \/ CleanPaths \/ ExtractFiles \/ StepFails

RestoreNext == Downloading \/ RestoreSteps \/ Ended

\* The command runs to its end; the downloader's goroutines as in PartDownloader.
RestoreSpec ==
    /\ RestoreInit
    /\ [][RestoreNext]_<<vars, fileVars>>
    /\ Fairness
    /\ WF_<<vars, fileVars>>(RestoreSteps)

-----------------------------------------------------------------------------
(* Properties *)

\* The files that were there are not touched before every part of the archive has
\* been downloaded and put in its place: no failure up to then costs them.
TargetTouchedLast ==
    target # "old" => [i \in DOMAIN zip |-> zip[i].part] = [i \in Parts |-> i]

\* restore comes to an end, whatever its downloads do, as long as fewer of them fail
\* than there are slots.
RestoreEnds == <>(phase \in {"done", "failed"})

=============================================================================
