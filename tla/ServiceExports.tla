--------------------------- MODULE ServiceExports --------------------------
(***************************************************************************)
(* The export of a service to a file, and its download (ExportService in   *)
(* internal/dokku, handleServiceExport and handleServiceDownload in        *)
(* internal/handlers/api).                                                 *)
(*                                                                         *)
(* An export writes /tmp/<type>_<service>_<minute>.dump, compresses it     *)
(* into a file of the same name and .gz, and removes the dump.  Exports of *)
(* one service within one minute have the same two files, and nothing      *)
(* keeps them apart.                                                       *)
(*                                                                         *)
(* A shell that opens a file for an export empties it; a file that is      *)
(* removed is written on without a name.                                   *)
(***************************************************************************)
EXTENDS Naturals, FiniteSets

CONSTANTS Exports,   \* the requests to export, each once
          Names      \* a service and a minute

Paths == {"dump", "gz"} \X Names

VARIABLES file,      \* [Paths -> {"none", "empty", "mixed", "whole"}]
          step,      \* [Exports -> Steps]
          name,      \* [Exports -> Names], that of the export
          writes,    \* [Exports -> Paths or Nowhere], what its command writes to
          sole,      \* [Exports -> BOOLEAN], no other export has had its name
          left       \* [Names -> BOOLEAN], an export command has failed

vars == <<file, step, name, writes, sole, left>>

Nowhere == <<"nowhere", "nowhere">>

Steps == {"asked", "exporting", "exported", "compressing", "compressed", "not-compressed",
          "dropped", "announced", "downloading", "failed", "done"}

Dump(e) == <<"dump", name[e]>>
Gz(e) == <<"gz", name[e]>>

Init == /\ file = [p \in Paths |-> "none"]
        /\ step = [e \in Exports |-> "asked"]
        /\ name \in [Exports -> Names]
        /\ writes = [e \in Exports |-> Nowhere]
        /\ sole = [e \in Exports |-> TRUE]
        /\ left = [n \in Names |-> FALSE]

Move(e, to) == step' = [step EXCEPT ![e] = to]

\* The shell opens the file its command's output goes to.
Redirect(e, p) ==
    /\ file' = [file EXCEPT ![p] = "empty"]
    /\ writes' = [writes EXCEPT ![e] = p]

\* The command writes content to the file: nowhere if that was removed, and into
\* what another command writes if both have it open.
Written(e, content) ==
    /\ file' = IF writes[e] = Nowhere THEN file
               ELSE [file EXCEPT ![writes[e]] =
                       IF \E d \in Exports \ {e}: writes[d] = writes[e] THEN "mixed" ELSE content]
    /\ writes' = [writes EXCEPT ![e] = Nowhere]

Remove(p) ==
    /\ file' = [file EXCEPT ![p] = "none"]
    /\ writes' = [d \in Exports |-> IF writes[d] = p THEN Nowhere ELSE writes[d]]
-----------------------------------------------------------------------------
(***************************************************************************)
(* ExportService, from the time that names its files on.                   *)
(***************************************************************************)
Export(e) ==
    /\ step[e] = "asked"
    /\ sole' = [d \in Exports |->
                  IF d = e THEN \A c \in Exports \ {e}: name[c] = name[e] => step[c] = "asked"
                  ELSE sole[d] /\ (name[d] = name[e] => step[d] = "asked")]
    /\ Redirect(e, Dump(e))
    /\ Move(e, "exporting")
    /\ UNCHANGED <<name, left>>

\* A service may have nothing to export.
ExportSucceeds(e) ==
    /\ step[e] = "exporting"
    /\ \E content \in {"whole", "empty"}: Written(e, content)
    /\ Move(e, "exported")
    /\ UNCHANGED <<name, sole, left>>

\* What was written up to then stays.
ExportFails(e) ==
    /\ step[e] = "exporting"
    /\ \E content \in {"mixed", "empty"}: Written(e, content)
    /\ left' = [left EXCEPT ![name[e]] = TRUE]
    /\ Move(e, "failed")
    /\ UNCHANGED <<name, sole>>

DumpMissing(e) ==
    /\ step[e] = "exported"
    /\ file[Dump(e)] = "none"
    /\ Move(e, "failed")
    /\ UNCHANGED <<file, writes, name, sole, left>>

DumpEmpty(e) ==
    /\ step[e] = "exported"
    /\ file[Dump(e)] = "empty"
    /\ Remove(Dump(e))
    /\ Move(e, "failed")
    /\ UNCHANGED <<name, sole, left>>

Compress(e) ==
    /\ step[e] = "exported"
    /\ file[Dump(e)] \notin {"none", "empty"}
    /\ Redirect(e, Gz(e))
    /\ Move(e, "compressing")
    /\ UNCHANGED <<name, sole, left>>

\* gzip reads the dump while it is what it is: a part of it, if another export
\* writes it now.
DumpIsRead(e) == IF \E d \in Exports: writes[d] = Dump(e) THEN "mixed" ELSE file[Dump(e)]

CompressSucceeds(e) ==
    /\ step[e] = "compressing"
    /\ file[Dump(e)] # "none"
    /\ Written(e, DumpIsRead(e))
    /\ Move(e, "compressed")
    /\ UNCHANGED <<name, sole, left>>

\* An error of gzip is taken for a success.
Mutant_CompressErrorIgnored(e) ==
    /\ step[e] = "compressing"
    /\ Written(e, "mixed")
    /\ Move(e, "compressed")
    /\ UNCHANGED <<name, sole, left>>

\* gzip fails half way, or finds no dump.
CompressFails(e) ==
    /\ step[e] = "compressing"
    /\ Written(e, "mixed")
    /\ Move(e, "not-compressed")
    /\ UNCHANGED <<name, sole, left>>

\* The dump stays when it could not be compressed.
Mutant_DropOnSuccess(e) ==
    /\ step[e] \in {"compressed", "not-compressed"}
    /\ IF step[e] = "compressed" THEN Remove(Dump(e)) ELSE UNCHANGED <<file, writes>>
    /\ Move(e, IF step[e] = "compressed" THEN "dropped" ELSE "failed")
    /\ UNCHANGED <<name, sole, left>>

DropDump(e) ==
    /\ step[e] \in {"compressed", "not-compressed"}
    /\ Remove(Dump(e))
    /\ Move(e, IF step[e] = "compressed" THEN "dropped" ELSE "failed")
    /\ UNCHANGED <<name, sole, left>>

\* The compressed file is looked at, and made readable for all.
Announce(e) ==
    /\ step[e] = "dropped"
    /\ file[Gz(e)] \notin {"none", "empty"}
    /\ Move(e, "announced")
    /\ UNCHANGED <<file, writes, name, sole, left>>

\* It is gone, or empty, or may not be changed.
NotAnnounced(e) ==
    /\ step[e] = "dropped"
    /\ IF file[Gz(e)] = "empty" THEN Remove(Gz(e)) ELSE UNCHANGED <<file, writes>>
    /\ Move(e, "failed")
    /\ UNCHANGED <<name, sole, left>>

(***************************************************************************)
(* handleServiceDownload: the file is looked for, sent, and removed,       *)
(* whether the browser got it or not.                                      *)
(***************************************************************************)
Download(e) ==
    /\ step[e] = "announced"
    /\ Move(e, IF file[Gz(e)] = "none" THEN "failed" ELSE "downloading")
    /\ UNCHANGED <<file, writes, name, sole, left>>

SendFile(e) ==
    /\ step[e] = "downloading"
    /\ Remove(Gz(e))
    /\ Move(e, "done")
    /\ UNCHANGED <<name, sole, left>>

ExportStep(e) ==
    \/ Export(e) \/ ExportSucceeds(e) \/ ExportFails(e)
    \/ DumpMissing(e) \/ DumpEmpty(e)
    \/ Compress(e) \/ CompressSucceeds(e) \/ CompressFails(e) \/ DropDump(e)
    \/ Announce(e) \/ NotAnnounced(e)
    \/ Download(e) \/ SendFile(e)

Next == \E e \in Exports: ExportStep(e)

Spec == Init /\ [][Next]_vars
-----------------------------------------------------------------------------
(***************************************************************************)
(* Properties                                                              *)
(***************************************************************************)
\* An export that was announced, while no other had its name, has a whole file
\* until that is downloaded: every command that failed before kept it from being
\* announced (ExportService).  Exports that share a name can be announced with a
\* part of a dump.
AnnouncedIsWhole ==
    \A e \in Exports: step[e] \in {"announced", "downloading"} /\ sole[e]
        => file[Gz(e)] = "whole"

\* Once all exports of a name are over there is no dump of that name, however they
\* overlapped, unless the command that writes it has failed: that one failure
\* leaves its dump behind in /tmp (ExportService).
Over(n) == \A e \in Exports: name[e] = n =>
              step[e] \in {"asked", "dropped", "announced", "downloading", "failed", "done"}

DumpsAreRemoved ==
    \A n \in Names: Over(n) /\ ~left[n] => file[<<"dump", n>>] = "none"
=============================================================================
