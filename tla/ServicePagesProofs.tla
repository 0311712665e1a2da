------------------------- MODULE ServicePagesProofs -------------------------
(***************************************************************************)
(* What the pages of services leave in /tmp and what they offer: imports   *)
(* (ImportTasks), for any number of uploads and sockets, and exports       *)
(* (ServiceExports), for any number of them, whatever names they share.    *)
(* And what users are shown of the audit log (AuditTrail), for any events, *)
(* any apps of theirs and any limits of the lists.                         *)
(***************************************************************************)
EXTENDS MCServicePages, FiniteSetTheorems, TLAPS

LEMMA InitImports == Init => IInv
<1>. SUFFICES ASSUME Init PROVE IInv
  OBVIOUS
<1>. USE DEF Init
<1>1. TypeOK
  BY DEF TypeOK, FileStates, UploadPCs, SocketPCs
<1>2. OneOwner
  BY DEF OneOwner, Holders
<1>3. FileIsOwned
  BY TaskAssumption DEF FileIsOwned, Owned, Holders
<1>4. PcMatches
  BY TaskAssumption DEF PcMatches
<1>. QED
  BY <1>1, <1>2, <1>3, <1>4 DEF IInv

LEMMA UploadImports ==
    ASSUME IInv, NEW t \in Tasks, CreateTemp(t) \/ UploadStep(t)
    PROVE  IInv'
<1>. USE TaskAssumption DEF IInv, GoTo, Holders
<1>1. TypeOK'
  BY DEF UploadStep, CreateTemp, SaveFile, PluginInstalled, ServiceExists,
     UploadRefused, Register, TypeOK, FileStates, UploadPCs
<1>2. CASE CreateTemp(t)
  BY <1>1, <1>2 DEF CreateTemp, Fresh, TypeOK, OneOwner, FileIsOwned, Owned, PcMatches
<1>3. CASE SaveFile(t)
  BY <1>1, <1>3 DEF SaveFile, TypeOK, OneOwner, FileIsOwned, Owned, PcMatches
<1>4. CASE PluginInstalled(t) \/ ServiceExists(t)
  BY <1>1, <1>4 DEF PluginInstalled, ServiceExists, TypeOK, OneOwner, FileIsOwned,
     Owned, PcMatches
<1>5. CASE UploadRefused(t)
  BY <1>1, <1>5 DEF UploadRefused, TypeOK, OneOwner, FileIsOwned, Owned, PcMatches
<1>6. CASE Register(t)
  BY <1>1, <1>6 DEF Register, TypeOK, OneOwner, FileIsOwned, Owned, PcMatches
<1>. QED
  BY <1>2, <1>3, <1>4, <1>5, <1>6 DEF UploadStep

LEMMA ClaimIInv ==
    ASSUME IInv, NEW s \in Sockets, NEW t \in Tasks, Claim(s, t)
    PROVE  IInv'
<1>. USE TaskAssumption DEF IInv, Holders, Claim
<1>1. TypeOK'
  BY DEF TypeOK, SocketPCs
<1>2. OneOwner'
  BY DEF TypeOK, OneOwner, PcMatches
<1>3. FileIsOwned'
  <2>1. \A u \in Tasks : Owned(u)' <=> Owned(u)
    BY DEF TypeOK, Owned, PcMatches
  <2>2. file[t] = "saved" /\ UNCHANGED <<file, import>>
    BY DEF FileIsOwned
  <2>3. \A u \in Tasks : (u \in table \/ Holders(u) # {})'
                             => u = t \/ u \in table \/ Holders(u) # {}
    BY DEF TypeOK
  <2>4. \A u \in Tasks : Holders(u) # {} => Holders(u)' # {}
    BY DEF TypeOK, PcMatches
  <2>. QED
    BY <2>1, <2>2, <2>3, <2>4 DEF FileIsOwned
<1>4. PcMatches'
  BY DEF TypeOK, FileIsOwned, PcMatches, OneOwner
<1>. QED
  BY <1>1, <1>2, <1>3, <1>4

LEMMA SocketIInv ==
    ASSUME IInv, NEW s \in Sockets, SocketStep(s)
    PROVE  IInv'
<1>. USE TaskAssumption DEF IInv, Holders
<1>1. TypeOK'
  <2>. USE DEF TypeOK, SocketPCs
  <2>1. CASE StartImport(s) \/ StartImportFails(s) \/ SocketGone(s)
    BY <2>1 DEF StartImport, StartImportFails, SocketGone
  <2>2. CASE ImportEnds(s) \/ ClosePTY(s)
    BY <2>2 DEF ImportEnds, ClosePTY
  <2>3. CASE RemoveFile(s)
    BY <2>3 DEF RemoveFile, FileStates
  <2>. QED
    BY <2>1, <2>2, <2>3 DEF SocketStep
<1>2. CASE StartImport(s)
  BY <1>1, <1>2 DEF StartImport, TypeOK, OneOwner, FileIsOwned, Owned, PcMatches
<1>3. CASE StartImportFails(s)
  BY <1>1, <1>3 DEF StartImportFails, TypeOK, OneOwner, FileIsOwned, Owned, PcMatches
<1>4. CASE ImportEnds(s) \/ ClosePTY(s)
  BY <1>1, <1>4 DEF ImportEnds, ClosePTY, TypeOK, OneOwner, FileIsOwned, Owned,
     PcMatches
<1>5. CASE SocketGone(s)
  BY <1>1, <1>5 DEF SocketGone, TypeOK, OneOwner, FileIsOwned, Owned, PcMatches
<1>6. CASE RemoveFile(s)
  BY <1>1, <1>6 DEF RemoveFile, TypeOK, OneOwner, FileIsOwned, Owned, PcMatches
<1>. QED
  BY <1>2, <1>3, <1>4, <1>5, <1>6 DEF SocketStep

LEMMA NextIInv == IInv /\ [Next]_vars => IInv'
<1>. SUFFICES ASSUME IInv, [Next]_vars PROVE IInv'
  OBVIOUS
<1>1. ASSUME NEW t \in Tasks, CreateTemp(t) \/ UploadStep(t) PROVE IInv'
  BY <1>1, UploadImports
<1>2. ASSUME NEW s \in Sockets, NEW t \in Tasks, Claim(s, t) PROVE IInv'
  BY <1>2, ClaimIInv
<1>3. ASSUME NEW s \in Sockets, SocketStep(s) PROVE IInv'
  BY <1>3, SocketIInv
<1>4. CASE Restart
  BY <1>4, TaskAssumption DEF Restart, IInv, TypeOK, OneOwner, FileIsOwned, Owned,
     PcMatches, Holders, FileStates, UploadPCs, SocketPCs
<1>5. CASE UNCHANGED vars
  BY <1>5 DEF vars, IInv, TypeOK, OneOwner, FileIsOwned, Owned, PcMatches, Holders
<1>. QED
  BY <1>1, <1>2, <1>3, <1>4, <1>5 DEF Next

LEMMA Inductive == Spec => []IInv
BY InitImports, NextIInv, PTL DEF Spec

(***************************************************************************)
(* No two sockets import the same upload, and none imports one whose       *)
(* upload is still checked.                                                *)
(***************************************************************************)
THEOREM SingleOwner == Spec => []OneOwner
<1>1. IInv => OneOwner
  BY DEF IInv
<1>. QED
  BY <1>1, Inductive, PTL

(***************************************************************************)
(* As long as the server runs no temporary file is left behind, and none   *)
(* is removed under a task that still needs it.                            *)
(***************************************************************************)
THEOREM FilesHaveOwners == Spec => []FileIsOwned
<1>1. IInv => FileIsOwned
  BY DEF IInv
<1>. QED
  BY <1>1, Inductive, PTL

-----------------------------------------------------------------------------

(***************************************************************************)
(* A command writes to the file its step is about, or to no file any more. *)
(***************************************************************************)
MayWrite(e) == CASE xStep[e] = "exporting"   -> {S!Dump(e), S!Nowhere}
                 [] xStep[e] = "compressing" -> {S!Gz(e), S!Nowhere}
                 [] OTHER                   -> {S!Nowhere}

Working == {"exporting", "exported", "compressing", "compressed", "not-compressed"}

ExportTypes ==
    /\ xFile \in [S!Paths -> {"none", "empty", "mixed", "whole"}]
    /\ xStep \in [Exports -> S!Steps]
    /\ xName \in [Exports -> Names]
    /\ xWrites \in [Exports -> S!Paths \cup {S!Nowhere}]
    /\ \A e \in Exports : xWrites[e] \in MayWrite(e)
    /\ xSole \in [Exports -> BOOLEAN]
    /\ xLeft \in [Names -> BOOLEAN]

(***************************************************************************)
(* A dump has an export that works on it, or is what a failed one left.    *)
(***************************************************************************)
DumpIsOwned ==
    \A n \in Names :
        xFile[<<"dump", n>>] # "none"
            => xLeft[n] \/ \E e \in Exports : xName[e] = n /\ xStep[e] \in Working

DumpInv == ExportTypes /\ DumpIsOwned

LEMMA PathsDiffer ==
    /\ \A m, n \in Names : <<"dump", m>> # <<"gz", n>>
    /\ \A n \in Names : <<"dump", n>> \in S!Paths /\ <<"gz", n>> \in S!Paths
    /\ \A n \in Names : <<"dump", n>> # S!Nowhere /\ <<"gz", n>> # S!Nowhere
    /\ \A m, n \in Names : /\ m # n => <<"dump", m>> # <<"dump", n>>
                           /\ m # n => <<"gz", m>> # <<"gz", n>>
    /\ S!Nowhere \notin S!Paths
  BY DEF S!Paths, S!Nowhere

LEMMA ExportPaths ==
    ASSUME ExportTypes, NEW e \in Exports
    PROVE  /\ xName[e] \in Names /\ S!Dump(e) \in S!Paths /\ S!Gz(e) \in S!Paths
           /\ S!Dump(e) # S!Gz(e) /\ S!Dump(e) # S!Nowhere /\ S!Gz(e) # S!Nowhere
  BY PathsDiffer DEF ExportTypes, S!Dump, S!Gz

LEMMA OtherDumps ==
    ASSUME ExportTypes, NEW e \in Exports, NEW n \in Names
    PROVE  /\ <<"dump", n>> \in S!Paths \ {S!Gz(e)}
           /\ n # xName[e] => <<"dump", n>> \in S!Paths \ {S!Dump(e)}
           /\ <<"dump", n>> # S!Nowhere
  BY ExportPaths, PathsDiffer DEF S!Dump, S!Gz

(***************************************************************************)
(* What the parts of a step do to the types.                               *)
(***************************************************************************)
LEMMA MoveTyped ==
    ASSUME ExportTypes, NEW e \in Exports, NEW to \in S!Steps, S!Move(e, to),
           UNCHANGED xName
    PROVE  /\ xStep' \in [Exports -> S!Steps] /\ xStep'[e] = to
           /\ \A d \in Exports \ {e} : xStep'[d] = xStep[d] /\ MayWrite(d)' = MayWrite(d)
  BY DEF ExportTypes, S!Move, MayWrite, S!Dump, S!Gz

LEMMA WrittenTyped ==
    ASSUME ExportTypes, NEW e \in Exports, NEW content \in {"empty", "mixed", "whole"},
           S!Written(e, content)
    PROVE  /\ xFile' \in [S!Paths -> {"none", "empty", "mixed", "whole"}]
           /\ xWrites' \in [Exports -> S!Paths \cup {S!Nowhere}]
           /\ xWrites'[e] = S!Nowhere
           /\ \A d \in Exports \ {e} : xWrites'[d] = xWrites[d]
           /\ \A p \in S!Paths : p # xWrites[e] => xFile'[p] = xFile[p]
  BY DEF ExportTypes, S!Written

LEMMA RemoveTyped ==
    ASSUME ExportTypes, NEW p \in S!Paths, S!Remove(p)
    PROVE  /\ xFile' \in [S!Paths -> {"none", "empty", "mixed", "whole"}]
           /\ xWrites' \in [Exports -> S!Paths \cup {S!Nowhere}]
           /\ \A d \in Exports : xWrites'[d] \in {xWrites[d], S!Nowhere}
           /\ \A d \in Exports : xWrites[d] # p => xWrites'[d] = xWrites[d]
           /\ xFile'[p] = "none"
           /\ \A q \in S!Paths \ {p} : xFile'[q] = xFile[q]
  BY DEF ExportTypes, S!Remove

LEMMA RedirectTyped ==
    ASSUME ExportTypes, NEW e \in Exports, NEW p \in S!Paths, S!Redirect(e, p)
    PROVE  /\ xFile' \in [S!Paths -> {"none", "empty", "mixed", "whole"}]
           /\ xWrites' \in [Exports -> S!Paths \cup {S!Nowhere}]
           /\ xWrites'[e] = p
           /\ \A d \in Exports \ {e} : xWrites'[d] = xWrites[d]
           /\ xFile'[p] = "empty"
           /\ \A q \in S!Paths \ {p} : xFile'[q] = xFile[q]
  BY DEF ExportTypes, S!Redirect

LEMMA InitDumps == S!Init => DumpInv
  BY PathsDiffer DEF S!Init, DumpInv, ExportTypes, DumpIsOwned, MayWrite, S!Steps,
                     S!Nowhere, S!Paths

-----------------------------------------------------------------------------
(***************************************************************************)
(* The types are kept.                                                     *)
(***************************************************************************)
LEMMA PartsTyped ==
    ASSUME ExportTypes, NEW e \in Exports, NEW to \in S!Steps, S!Move(e, to),
           UNCHANGED xName,
           xFile' \in [S!Paths -> {"none", "empty", "mixed", "whole"}],
           xWrites' \in [Exports -> S!Paths \cup {S!Nowhere}],
           \A d \in Exports \ {e} : xWrites'[d] \in {xWrites[d], S!Nowhere},
           xWrites'[e] \in MayWrite(e)',
           xSole' \in [Exports -> BOOLEAN], xLeft' \in [Names -> BOOLEAN]
    PROVE  ExportTypes'
<1>1. /\ xStep' \in [Exports -> S!Steps]
      /\ \A d \in Exports \ {e} : MayWrite(d)' = MayWrite(d)
  BY MoveTyped
<1>2. \A d \in Exports : S!Nowhere \in MayWrite(d)
  BY DEF MayWrite
<1>3. \A d \in Exports : xWrites'[d] \in MayWrite(d)'
  BY <1>1, <1>2 DEF ExportTypes
<1>. QED
  BY <1>1, <1>3 DEF ExportTypes

LEMMA QuietTyped ==
    ASSUME ExportTypes, NEW e \in Exports, NEW to \in S!Steps \ {"exporting",
           "compressing"},
           xStep[e] \notin {"exporting", "compressing"}, S!Move(e, to),
           UNCHANGED <<xName, xSole, xLeft>>,
           \/ UNCHANGED <<xFile, xWrites>>
           \/ \E p \in S!Paths : S!Remove(p)
    PROVE  ExportTypes'
<1>1. /\ xWrites[e] = S!Nowhere /\ S!Nowhere \in MayWrite(e)'
  BY DEF ExportTypes, MayWrite
<1>2. /\ xFile' \in [S!Paths -> {"none", "empty", "mixed", "whole"}]
      /\ xWrites' \in [Exports -> S!Paths \cup {S!Nowhere}]
      /\ \A d \in Exports : xWrites'[d] \in {xWrites[d], S!Nowhere}
  <2>1. CASE UNCHANGED <<xFile, xWrites>>
    BY <2>1 DEF ExportTypes
  <2>2. CASE \E p \in S!Paths : S!Remove(p)
    BY <2>2, RemoveTyped
  <2>. QED
    BY <2>1, <2>2
<1>3. xSole' \in [Exports -> BOOLEAN] /\ xLeft' \in [Names -> BOOLEAN]
  BY DEF ExportTypes
<1>. QED
  BY <1>1, <1>2, <1>3, PartsTyped

LEMMA WriteTyped ==
    ASSUME ExportTypes, NEW e \in Exports,
           NEW content \in {"empty", "mixed", "whole"}, S!Written(e, content),
           NEW to \in S!Steps, S!Move(e, to), UNCHANGED <<xName, xSole>>,
           xLeft' \in [Names -> BOOLEAN]
    PROVE  ExportTypes'
<1>1. S!Nowhere \in MayWrite(e)'
  BY DEF MayWrite
<1>. QED
  BY <1>1, WrittenTyped, PartsTyped DEF ExportTypes

LEMMA StepTyped ==
    ASSUME ExportTypes, NEW e \in Exports, S!ExportStep(e)
    PROVE  ExportTypes'
<1>. USE DEF S!Steps
<1>1. CASE S!Export(e)
  <2>1. /\ S!Redirect(e, S!Dump(e)) /\ S!Move(e, "exporting") /\ UNCHANGED <<xName, xLeft>>
    BY <1>1 DEF S!Export
  <2>2. xSole' \in [Exports -> BOOLEAN]
    BY <1>1 DEF S!Export, ExportTypes
  <2>3. xStep'[e] = "exporting"
    BY <2>1, MoveTyped
  <2>4. xWrites'[e] = S!Dump(e) /\ S!Dump(e) \in MayWrite(e)'
    BY <2>1, <2>3, ExportPaths, RedirectTyped DEF MayWrite, S!Dump
  <2>5. /\ xFile' \in [S!Paths -> {"none", "empty", "mixed", "whole"}]
        /\ xWrites' \in [Exports -> S!Paths \cup {S!Nowhere}]
        /\ \A d \in Exports \ {e} : xWrites'[d] = xWrites[d]
    BY <2>1, ExportPaths, RedirectTyped
  <2>6. "exporting" \in S!Steps
    OBVIOUS
  <2>7. xLeft' \in [Names -> BOOLEAN]
    BY <2>1 DEF ExportTypes
  <2>. QED
    BY <2>1, <2>2, <2>4, <2>5, <2>6, <2>7, PartsTyped
<1>2. CASE S!Compress(e)
  <2>1. /\ S!Redirect(e, S!Gz(e)) /\ S!Move(e, "compressing") /\ UNCHANGED <<xName, xSole, xLeft>>
    BY <1>2 DEF S!Compress
  <2>2. xStep'[e] = "compressing"
    BY <2>1, MoveTyped
  <2>3. xWrites'[e] = S!Gz(e) /\ S!Gz(e) \in MayWrite(e)'
    BY <2>1, <2>2, ExportPaths, RedirectTyped DEF MayWrite, S!Gz
  <2>4. /\ xFile' \in [S!Paths -> {"none", "empty", "mixed", "whole"}]
        /\ xWrites' \in [Exports -> S!Paths \cup {S!Nowhere}]
        /\ \A d \in Exports \ {e} : xWrites'[d] = xWrites[d]
    BY <2>1, ExportPaths, RedirectTyped
  <2>5. "compressing" \in S!Steps
    OBVIOUS
  <2>6. xLeft' \in [Names -> BOOLEAN] /\ xSole' \in [Exports -> BOOLEAN]
    BY <2>1 DEF ExportTypes
  <2>. QED
    BY <2>1, <2>3, <2>4, <2>5, <2>6, PartsTyped
<1>3. CASE S!ExportSucceeds(e)
  BY <1>3, WriteTyped DEF S!ExportSucceeds, ExportTypes
<1>4. CASE S!ExportFails(e)
  <2>1. xLeft' \in [Names -> BOOLEAN]
    BY <1>4 DEF S!ExportFails, ExportTypes
  <2>. QED
    BY <1>4, <2>1, WriteTyped DEF S!ExportFails
<1>5. CASE S!CompressSucceeds(e)
  <2>1. S!DumpIsRead(e) \in {"empty", "mixed", "whole"}
    BY <1>5, ExportPaths DEF S!CompressSucceeds, S!DumpIsRead, ExportTypes
  <2>. QED
    BY <1>5, <2>1, WriteTyped DEF S!CompressSucceeds, ExportTypes
<1>6. CASE S!CompressFails(e)
  BY <1>6, WriteTyped DEF S!CompressFails, ExportTypes
<1>7. CASE S!DumpMissing(e) \/ S!DumpEmpty(e)
  BY <1>7, QuietTyped, ExportPaths DEF S!DumpMissing, S!DumpEmpty
<1>8. CASE S!DropDump(e)
  BY <1>8, QuietTyped, ExportPaths DEF S!DropDump
<1>9. CASE S!Announce(e) \/ S!NotAnnounced(e)
  BY <1>9, QuietTyped, ExportPaths DEF S!Announce, S!NotAnnounced
<1>10. CASE S!Download(e) \/ S!SendFile(e)
  BY <1>10, QuietTyped, ExportPaths DEF S!Download, S!SendFile
<1>. QED
  BY <1>1, <1>2, <1>3, <1>4, <1>5, <1>6, <1>7, <1>8, <1>9, <1>10 DEF S!ExportStep

-----------------------------------------------------------------------------
(***************************************************************************)
(* Dumps keep their owners.                                                *)
(***************************************************************************)
LEMMA StillWorking ==
    ASSUME DumpInv, NEW e \in Exports, NEW to \in S!Steps, S!Move(e, to),
           to \in Working \/ xStep[e] \notin Working, UNCHANGED <<xName, xLeft>>,
           \A n \in Names : /\ xFile[<<"dump", n>>] = "none"
                            /\ ~(n = xName[e] /\ to \in Working)
                            => xFile'[<<"dump", n>>] = "none"
    PROVE  DumpIsOwned'
<1>. SUFFICES ASSUME NEW n \in Names, xFile'[<<"dump", n>>] # "none"
              PROVE  xLeft[n] \/ \E d \in Exports : xName[d] = n /\ xStep'[d] \in Working
  BY DEF DumpIsOwned
<1>1. xStep'[e] = to /\ \A d \in Exports \ {e} : xStep'[d] = xStep[d]
  BY MoveTyped DEF DumpInv
<1>2. CASE n = xName[e] /\ to \in Working
  BY <1>1, <1>2
<1>3. CASE xFile[<<"dump", n>>] # "none"
  BY <1>1, <1>3 DEF DumpInv, DumpIsOwned
<1>. QED
  BY <1>2, <1>3

LEMMA StepOwned ==
    ASSUME DumpInv, NEW e \in Exports, S!ExportStep(e)
    PROVE  DumpIsOwned'
<1>. USE DEF S!Steps, Working
<1>1. ExportTypes /\ xName[e] \in Names
  BY ExportPaths DEF DumpInv
<1>2. CASE S!Export(e)
  <2>1. S!Redirect(e, S!Dump(e)) /\ S!Move(e, "exporting") /\ UNCHANGED <<xName, xLeft>>
    BY <1>2 DEF S!Export
  <2>2. \A n \in Names \ {xName[e]} : xFile'[<<"dump", n>>] = xFile[<<"dump", n>>]
    <3>1. \A p \in S!Paths \ {S!Dump(e)} : xFile'[p] = xFile[p]
      BY <1>1, <2>1, ExportPaths, RedirectTyped
    <3>. QED
      BY <1>1, <3>1, OtherDumps
  <2>. QED
    BY <2>1, <2>2, StillWorking
<1>3. CASE S!Compress(e)
  <2>1. S!Redirect(e, S!Gz(e)) /\ S!Move(e, "compressing") /\ UNCHANGED <<xName, xLeft>>
    BY <1>3 DEF S!Compress
  <2>2. \A n \in Names : xFile'[<<"dump", n>>] = xFile[<<"dump", n>>]
    <3>1. \A p \in S!Paths \ {S!Gz(e)} : xFile'[p] = xFile[p]
      BY <1>1, <2>1, ExportPaths, RedirectTyped
    <3>. QED
      BY <1>1, <3>1, OtherDumps
  <2>. QED
    BY <2>1, <2>2, StillWorking
<1>4. CASE S!ExportSucceeds(e)
  <2>1. PICK content \in {"whole", "empty"} : S!Written(e, content)
    BY <1>4 DEF S!ExportSucceeds
  <2>2. xWrites[e] \in {S!Dump(e), S!Nowhere}
    BY <1>1, <1>4 DEF S!ExportSucceeds, ExportTypes, MayWrite
  <2>3. \A n \in Names \ {xName[e]} : xFile'[<<"dump", n>>] = xFile[<<"dump", n>>]
    <3>1. \A p \in S!Paths \ {S!Dump(e)} : p # S!Nowhere => xFile'[p] = xFile[p]
      BY <1>1, <2>1, <2>2, WrittenTyped
    <3>. QED
      BY <1>1, <3>1, OtherDumps
  <2>. QED
    BY <1>4, <2>3, StillWorking DEF S!ExportSucceeds
<1>5. CASE S!ExportFails(e)
  <2>1. PICK content \in {"mixed", "empty"} : S!Written(e, content)
    BY <1>5 DEF S!ExportFails
  <2>2. xWrites[e] \in {S!Dump(e), S!Nowhere}
    BY <1>1, <1>5 DEF S!ExportFails, ExportTypes, MayWrite
  <2>3. \A n \in Names \ {xName[e]} : xFile'[<<"dump", n>>] = xFile[<<"dump", n>>]
    <3>1. \A p \in S!Paths \ {S!Dump(e)} : p # S!Nowhere => xFile'[p] = xFile[p]
      BY <1>1, <2>1, <2>2, WrittenTyped
    <3>. QED
      BY <1>1, <3>1, OtherDumps
  <2>4. xLeft'[xName[e]] /\ \A n \in Names \ {xName[e]} : xLeft'[n] = xLeft[n]
    BY <1>1, <1>5 DEF S!ExportFails, ExportTypes
  <2>5. xName' = xName /\ \A d \in Exports \ {e} : xStep'[d] = xStep[d]
    BY <1>1, <1>5, MoveTyped DEF S!ExportFails
  <2>. SUFFICES ASSUME NEW n \in Names, xFile'[<<"dump", n>>] # "none", ~xLeft'[n]
                PROVE  \E d \in Exports : xName[d] = n /\ xStep'[d] \in Working
    BY <2>5 DEF DumpIsOwned
  <2>6. n # xName[e]
    BY <2>4
  <2>7. xFile[<<"dump", n>>] # "none" /\ ~xLeft[n]
    BY <2>3, <2>4, <2>6
  <2>8. PICK d \in Exports : xName[d] = n /\ xStep[d] \in Working
    BY <2>7 DEF DumpInv, DumpIsOwned
  <2>. QED
    BY <2>5, <2>6, <2>8
<1>6. CASE S!CompressSucceeds(e) \/ S!CompressFails(e)
  <2>1. PICK content \in {"empty", "mixed", "whole"} : S!Written(e, content)
    <3>1. S!CompressSucceeds(e) => S!DumpIsRead(e) \in {"empty", "mixed", "whole"}
      BY <1>1, ExportPaths DEF S!CompressSucceeds, S!DumpIsRead, ExportTypes
    <3>. QED
      BY <1>6, <3>1 DEF S!CompressSucceeds, S!CompressFails
  <2>2. xWrites[e] \in {S!Gz(e), S!Nowhere}
    BY <1>1, <1>6 DEF S!CompressSucceeds, S!CompressFails, ExportTypes, MayWrite
  <2>3. \A n \in Names : xFile'[<<"dump", n>>] = xFile[<<"dump", n>>]
    <3>1. \A p \in S!Paths \ {S!Gz(e)} : p # S!Nowhere => xFile'[p] = xFile[p]
      BY <1>1, <2>1, <2>2, WrittenTyped
    <3>. QED
      BY <1>1, <3>1, OtherDumps
  <2>. QED
    BY <1>6, <2>3, StillWorking DEF S!CompressSucceeds, S!CompressFails
<1>7. CASE S!DumpMissing(e) \/ S!DumpEmpty(e) \/ S!DropDump(e)
  <2>1. /\ xFile'[S!Dump(e)] = "none"
        /\ \A p \in S!Paths \ {S!Dump(e)} : xFile'[p] = xFile[p]
        /\ UNCHANGED <<xName, xLeft>>
    BY <1>1, <1>7, ExportPaths, RemoveTyped DEF S!DumpMissing, S!DumpEmpty, S!DropDump
  <2>2. \A d \in Exports \ {e} : xStep'[d] = xStep[d]
    BY <1>1, <1>7, MoveTyped DEF S!DumpMissing, S!DumpEmpty, S!DropDump
  <2>. SUFFICES ASSUME NEW n \in Names, xFile'[<<"dump", n>>] # "none"
                PROVE  xLeft[n] \/ \E d \in Exports : xName[d] = n /\ xStep'[d] \in Working
    BY <2>1 DEF DumpIsOwned
  <2>3. n # xName[e] /\ xFile[<<"dump", n>>] # "none"
    <3>1. n # xName[e]
      BY <2>1 DEF S!Dump
    <3>. QED
      BY <1>1, <2>1, <3>1, OtherDumps
  <2>4. xLeft[n] \/ \E d \in Exports : xName[d] = n /\ xStep[d] \in Working
    BY <2>3 DEF DumpInv, DumpIsOwned
  <2>. QED
    BY <2>2, <2>3, <2>4
<1>8. CASE S!Announce(e) \/ S!NotAnnounced(e) \/ S!Download(e) \/ S!SendFile(e)
  <2>1. PICK to \in S!Steps : S!Move(e, to) /\ xStep[e] \notin Working
    BY <1>8 DEF S!Announce, S!NotAnnounced, S!Download, S!SendFile
  <2>2. \A p \in S!Paths \ {S!Gz(e)} : xFile'[p] = xFile[p]
    BY <1>1, <1>8, ExportPaths, RemoveTyped DEF S!Announce, S!NotAnnounced, S!Download,
             S!SendFile
  <2>3. \A n \in Names : xFile'[<<"dump", n>>] = xFile[<<"dump", n>>]
    BY <1>1, <2>2, OtherDumps
  <2>4. UNCHANGED <<xName, xLeft>>
    BY <1>8 DEF S!Announce, S!NotAnnounced, S!Download, S!SendFile
  <2>. QED
    BY <2>1, <2>3, <2>4, StillWorking
<1>. QED
  BY <1>2, <1>3, <1>4, <1>5, <1>6, <1>7, <1>8 DEF S!ExportStep

LEMMA NextDumps == DumpInv /\ [S!Next]_(S!vars) => DumpInv'
<1>. SUFFICES ASSUME DumpInv, [S!Next]_(S!vars) PROVE DumpInv'
  OBVIOUS
<1>1. ASSUME NEW e \in Exports, S!ExportStep(e) PROVE DumpInv'
  BY <1>1, StepTyped, StepOwned DEF DumpInv
<1>2. CASE UNCHANGED S!vars
  BY <1>2 DEF S!vars, DumpInv, ExportTypes, DumpIsOwned, MayWrite, S!Dump, S!Gz
<1>. QED
  BY <1>1, <1>2 DEF S!Next

(***************************************************************************)
(* Once the exports of a name are over there is no dump of it, unless an   *)
(* export command has failed: however many they are and overlap.           *)
(***************************************************************************)
THEOREM DumpsGo == S!Spec => []DumpsAreRemoved
<1>1. DumpInv => DumpsAreRemoved
  BY DEF DumpInv, DumpIsOwned, DumpsAreRemoved, S!DumpsAreRemoved, S!Over, Working
<1>. QED
  BY <1>1, InitDumps, NextDumps, PTL DEF S!Spec

-----------------------------------------------------------------------------
(***************************************************************************)
(* What an export that has its name to itself has in its files, step by    *)
(* step.                                                                   *)
(***************************************************************************)
Alone(e) == \A d \in Exports \ {e} : xName[d] = xName[e] => xStep[d] = "asked"

SoleIsWhole(e) ==
    xSole[e] /\ xStep[e] # "asked" =>
        /\ Alone(e)
        /\ xStep[e] = "exporting"   => xWrites[e] = S!Dump(e) /\ xFile[S!Dump(e)] = "empty"
        /\ xStep[e] = "exported"    => xFile[S!Dump(e)] \in {"whole", "empty"}
        /\ xStep[e] = "compressing" => xWrites[e] = S!Gz(e) /\ xFile[S!Dump(e)] = "whole"
        /\ xStep[e] \in {"compressed", "dropped", "announced", "downloading"}
              => xFile[S!Gz(e)] = "whole"

WholeInv == ExportTypes /\ \A e \in Exports : SoleIsWhole(e)

LEMMA InitWhole == S!Init => WholeInv
  BY InitDumps DEF DumpInv, WholeInv, SoleIsWhole, S!Init

(***************************************************************************)
(* A step changes nothing for an export of another name, and no export of  *)
(* the name but its own keeps that to itself.                              *)
(***************************************************************************)
LEMMA NamesApart ==
    ASSUME ExportTypes, NEW e \in Exports, NEW d \in Exports, xName[d] # xName[e]
    PROVE  /\ S!Dump(d) \in S!Paths \ {S!Dump(e), S!Gz(e), S!Nowhere}
           /\ S!Gz(d) \in S!Paths \ {S!Dump(e), S!Gz(e), S!Nowhere}
           /\ xWrites[d] \notin {S!Dump(e), S!Gz(e)}
<1>1. /\ S!Dump(d) \in S!Paths \ {S!Dump(e), S!Gz(e), S!Nowhere}
      /\ S!Gz(d) \in S!Paths \ {S!Dump(e), S!Gz(e), S!Nowhere}
  BY ExportPaths, PathsDiffer DEF S!Dump, S!Gz
<1>2. xWrites[d] \in {S!Dump(d), S!Gz(d), S!Nowhere}
  BY DEF ExportTypes, MayWrite
<1>. QED
  BY <1>1, <1>2, ExportPaths

LEMMA StepFiles ==
    ASSUME ExportTypes, NEW e \in Exports, S!ExportStep(e)
    PROVE  \/ UNCHANGED <<xFile, xWrites>>
           \/ \E p \in {S!Dump(e), S!Gz(e)} : S!Redirect(e, p) \/ S!Remove(p)
           \/ /\ xWrites[e] \in {S!Dump(e), S!Gz(e), S!Nowhere}
              /\ \E content \in {"empty", "mixed", "whole"} : S!Written(e, content)
<1>1. xWrites[e] \in {S!Dump(e), S!Gz(e), S!Nowhere}
  BY DEF ExportTypes, MayWrite
<1>2. CASE S!Export(e) \/ S!Compress(e)
  BY <1>2 DEF S!Export, S!Compress
<1>3. CASE S!ExportSucceeds(e) \/ S!ExportFails(e) \/ S!CompressFails(e)
  BY <1>1, <1>3 DEF S!ExportSucceeds, S!ExportFails, S!CompressFails
<1>4. CASE S!CompressSucceeds(e)
  <2>1. S!DumpIsRead(e) \in {"empty", "mixed", "whole"}
    BY <1>4, ExportPaths DEF S!CompressSucceeds, S!DumpIsRead, ExportTypes
  <2>. QED
    BY <1>1, <1>4, <2>1 DEF S!CompressSucceeds
<1>5. CASE S!DumpMissing(e) \/ S!DumpEmpty(e) \/ S!DropDump(e)
  BY <1>5 DEF S!DumpMissing, S!DumpEmpty, S!DropDump
<1>6. CASE S!Announce(e) \/ S!NotAnnounced(e) \/ S!Download(e) \/ S!SendFile(e)
  BY <1>6 DEF S!Announce, S!NotAnnounced, S!Download, S!SendFile
<1>. QED
  BY <1>2, <1>3, <1>4, <1>5, <1>6 DEF S!ExportStep

LEMMA OthersUntouched ==
    ASSUME ExportTypes, NEW e \in Exports, S!ExportStep(e),
           NEW d \in Exports, xName[d] # xName[e]
    PROVE  /\ xFile'[S!Dump(d)] = xFile[S!Dump(d)] /\ xFile'[S!Gz(d)] = xFile[S!Gz(d)]
           /\ xWrites'[d] = xWrites[d]
<1>1. /\ S!Dump(d) \in S!Paths \ {S!Dump(e), S!Gz(e), S!Nowhere}
      /\ S!Gz(d) \in S!Paths \ {S!Dump(e), S!Gz(e), S!Nowhere}
      /\ xWrites[d] \notin {S!Dump(e), S!Gz(e)}
      /\ d # e
  BY NamesApart
<1>2. S!Dump(e) \in S!Paths /\ S!Gz(e) \in S!Paths
  BY ExportPaths
<1>3. CASE UNCHANGED <<xFile, xWrites>>
  BY <1>3
<1>4. CASE \E p \in {S!Dump(e), S!Gz(e)} : S!Redirect(e, p) \/ S!Remove(p)
  <2>1. PICK p \in {S!Dump(e), S!Gz(e)} : S!Redirect(e, p) \/ S!Remove(p)
    BY <1>4
  <2>2. CASE S!Redirect(e, p)
    BY <1>1, <1>2, <2>2, RedirectTyped
  <2>3. CASE S!Remove(p)
    BY <1>1, <1>2, <2>3, RemoveTyped
  <2>. QED
    BY <2>1, <2>2, <2>3
<1>5. CASE /\ xWrites[e] \in {S!Dump(e), S!Gz(e), S!Nowhere}
           /\ \E content \in {"empty", "mixed", "whole"} : S!Written(e, content)
  BY <1>1, <1>5, WrittenTyped
<1>. QED
  BY <1>3, <1>4, <1>5, StepFiles

LEMMA StepMoves ==
    ASSUME ExportTypes, NEW e \in Exports, S!ExportStep(e)
    PROVE  /\ xName' = xName
           /\ \A d \in Exports \ {e} : xStep'[d] = xStep[d]
           /\ \A d \in Exports : xSole'[d] /\ d # e => xSole[d]
           /\ xStep[e] # "asked" => xSole' = xSole
           /\ xStep[e] = "asked" => S!Export(e)
<1>. USE DEF S!Steps
<1>1. \E to \in S!Steps : S!Move(e, to) /\ UNCHANGED xName
  BY DEF S!ExportStep, S!Export, S!ExportSucceeds, S!ExportFails, S!DumpMissing,
         S!DumpEmpty, S!Compress,
         S!CompressSucceeds, S!CompressFails, S!DropDump, S!Announce, S!NotAnnounced,
         S!Download, S!SendFile
<1>2. xStep[e] = "asked" => S!Export(e)
  BY DEF S!ExportStep, S!ExportSucceeds, S!ExportFails, S!DumpMissing, S!DumpEmpty,
         S!Compress,
         S!CompressSucceeds, S!CompressFails, S!DropDump, S!Announce, S!NotAnnounced,
         S!Download, S!SendFile
<1>3. xStep[e] # "asked" => xSole' = xSole
  BY DEF S!ExportStep, S!Export, S!ExportSucceeds, S!ExportFails, S!DumpMissing,
         S!DumpEmpty, S!Compress,
         S!CompressSucceeds, S!CompressFails, S!DropDump, S!Announce, S!NotAnnounced,
         S!Download, S!SendFile
<1>4. \A d \in Exports : xSole'[d] /\ d # e => xSole[d]
  BY <1>2, <1>3 DEF S!Export
<1>. QED
  BY <1>1, <1>2, <1>3, <1>4, MoveTyped

LEMMA OthersStayWhole ==
    ASSUME WholeInv, NEW e \in Exports, S!ExportStep(e), NEW d \in Exports \ {e}
    PROVE  SoleIsWhole(d)'
<1>. SUFFICES ASSUME xSole'[d], xStep'[d] # "asked"
              PROVE  SoleIsWhole(d)'
  BY DEF SoleIsWhole
<1>1. ExportTypes /\ xSole[d] /\ xStep[d] # "asked" /\ xStep'[d] = xStep[d] /\ xName' = xName
  BY StepMoves DEF WholeInv
<1>2. Alone(d) /\ SoleIsWhole(d)
  BY <1>1 DEF WholeInv, SoleIsWhole
<1>3. xName[d] # xName[e]
  <2>1. SUFFICES ASSUME xName[d] = xName[e] PROVE FALSE
    OBVIOUS
  <2>2. xStep[e] = "asked"
    BY <1>2, <2>1 DEF Alone
  <2>3. S!Export(e)
    BY <1>1, <2>2, StepMoves
  <2>. QED
    BY <1>1, <2>1, <2>3 DEF S!Export
<1>4. /\ xFile'[S!Dump(d)] = xFile[S!Dump(d)] /\ xFile'[S!Gz(d)] = xFile[S!Gz(d)]
      /\ xWrites'[d] = xWrites[d]
  BY <1>1, <1>3, OthersUntouched
<1>5. S!Dump(d)' = S!Dump(d) /\ S!Gz(d)' = S!Gz(d)
  BY <1>1 DEF S!Dump, S!Gz
<1>6. Alone(d)'
  BY <1>1, <1>2, <1>3, StepMoves DEF Alone
<1>. QED
  BY <1>1, <1>2, <1>4, <1>5, <1>6 DEF SoleIsWhole

(***************************************************************************)
(* While no other export of the name is under way, what a command writes   *)
(* gets to its file as it is.                                              *)
(***************************************************************************)
LEMMA AloneWrites ==
    ASSUME ExportTypes, NEW e \in Exports, Alone(e), NEW d \in Exports \ {e}
    PROVE  xWrites[d] \notin {S!Dump(e), S!Gz(e)}
<1>1. CASE xName[d] = xName[e]
  BY <1>1, ExportPaths DEF Alone, ExportTypes, MayWrite
<1>2. CASE xName[d] # xName[e]
  BY <1>2, NamesApart
<1>. QED
  BY <1>1, <1>2

LEMMA AloneWritten ==
    ASSUME ExportTypes, NEW e \in Exports, Alone(e),
           NEW content \in {"empty", "mixed", "whole"}, S!Written(e, content),
           xWrites[e] \in {S!Dump(e), S!Gz(e)}
    PROVE  xFile'[xWrites[e]] = content
<1>1. xWrites[e] \in S!Paths /\ xWrites[e] # S!Nowhere
  BY ExportPaths
<1>2. ~\E d \in Exports \ {e} : xWrites[d] = xWrites[e]
  BY AloneWrites
<1>. QED
  BY <1>1, <1>2 DEF S!Written, ExportTypes

LEMMA OwnStaysWhole ==
    ASSUME WholeInv, NEW e \in Exports, S!ExportStep(e)
    PROVE  SoleIsWhole(e)'
<1>. USE DEF S!Steps
<1>. SUFFICES ASSUME xSole'[e], xStep'[e] # "asked"
              PROVE  SoleIsWhole(e)'
  BY DEF SoleIsWhole
<1>1. /\ ExportTypes /\ xName' = xName /\ S!Dump(e)' = S!Dump(e) /\ S!Gz(e)' = S!Gz(e)
      /\ S!Dump(e) \in S!Paths /\ S!Gz(e) \in S!Paths /\ S!Dump(e) # S!Gz(e)
      /\ S!Dump(e) # S!Nowhere /\ S!Gz(e) # S!Nowhere
  BY StepMoves, ExportPaths DEF WholeInv, S!Dump, S!Gz
<1>2. Alone(e)
  <2>1. CASE xStep[e] = "asked"
    <3>1. S!Export(e)
      BY <1>1, <2>1, StepMoves
    <3>. QED
      BY <3>1, <1>1 DEF S!Export, Alone, ExportTypes
  <2>2. CASE xStep[e] # "asked"
    BY <1>1, <2>2, StepMoves DEF WholeInv, SoleIsWhole
  <2>. QED
    BY <2>1, <2>2
<1>3. Alone(e)'
  BY <1>1, <1>2, StepMoves DEF Alone
<1>4. xStep[e] # "asked" => xSole[e] /\ SoleIsWhole(e)
  BY <1>1, StepMoves DEF WholeInv
<1>5. CASE S!Export(e)
  <2>1. xStep'[e] = "exporting" /\ S!Redirect(e, S!Dump(e))
    BY <1>1, <1>5, MoveTyped DEF S!Export
  <2>. QED
    BY <1>1, <1>3, <2>1, RedirectTyped DEF SoleIsWhole
<1>6. CASE S!ExportSucceeds(e)
  <2>1. xStep'[e] = "exported" /\ xWrites[e] = S!Dump(e)
    BY <1>1, <1>4, <1>6, MoveTyped DEF S!ExportSucceeds, SoleIsWhole
  <2>2. PICK content \in {"whole", "empty"} : S!Written(e, content)
    BY <1>6 DEF S!ExportSucceeds
  <2>3. xFile'[S!Dump(e)] = content
    BY <1>1, <1>2, <2>1, <2>2, AloneWritten
  <2>. QED
    BY <1>1, <1>3, <2>1, <2>2, <2>3 DEF SoleIsWhole
<1>7. CASE S!Compress(e)
  <2>1. /\ xStep'[e] = "compressing" /\ S!Redirect(e, S!Gz(e))
        /\ xFile[S!Dump(e)] = "whole"
    BY <1>1, <1>4, <1>7, MoveTyped DEF S!Compress, SoleIsWhole
  <2>2. xWrites'[e] = S!Gz(e) /\ xFile'[S!Dump(e)] = xFile[S!Dump(e)]
    BY <1>1, <2>1, RedirectTyped
  <2>. QED
    BY <1>1, <1>3, <2>1, <2>2 DEF SoleIsWhole
<1>8. CASE S!CompressSucceeds(e)
  <2>1. /\ xStep'[e] = "compressed" /\ xWrites[e] = S!Gz(e) /\ xFile[S!Dump(e)] = "whole"
    BY <1>1, <1>4, <1>8, MoveTyped DEF S!CompressSucceeds, SoleIsWhole
  <2>2. ~\E d \in Exports : xWrites[d] = S!Dump(e)
    BY <1>1, <1>2, <2>1, AloneWrites
  <2>3. S!Written(e, "whole")
    BY <1>8, <2>1, <2>2 DEF S!CompressSucceeds, S!DumpIsRead
  <2>4. xFile'[S!Gz(e)] = "whole"
    BY <1>1, <1>2, <2>1, <2>3, AloneWritten
  <2>. QED
    BY <1>1, <1>3, <2>1, <2>4 DEF SoleIsWhole
<1>9. CASE S!DropDump(e)
  <2>1. /\ S!Remove(S!Dump(e))
        /\ \/ xStep[e] = "compressed" /\ xStep'[e] = "dropped"
           \/ xStep'[e] = "failed"
    BY <1>1, <1>9, MoveTyped DEF S!DropDump
  <2>2. xFile'[S!Gz(e)] = xFile[S!Gz(e)]
    BY <1>1, <2>1, RemoveTyped
  <2>. QED
    BY <1>1, <1>3, <1>4, <2>1, <2>2 DEF SoleIsWhole
<1>10. CASE S!Announce(e) \/ S!Download(e)
  <2>1. /\ UNCHANGED <<xFile, xWrites>> /\ xStep[e] \in {"dropped", "announced"}
        /\ xStep'[e] \in {"announced", "downloading", "failed"}
    BY <1>1, <1>10, MoveTyped DEF S!Announce, S!Download
  <2>. QED
    BY <1>1, <1>3, <1>4, <2>1 DEF SoleIsWhole
<1>11. CASE \/ S!ExportFails(e) \/ S!DumpMissing(e) \/ S!DumpEmpty(e) \/ S!CompressFails(e)
            \/ S!NotAnnounced(e) \/ S!SendFile(e)
  <2>1. xStep'[e] \in {"failed", "not-compressed", "done"}
    BY <1>1, <1>11, MoveTyped DEF S!ExportFails, S!DumpMissing, S!DumpEmpty,
                                  S!CompressFails,
                                  S!NotAnnounced, S!SendFile
  <2>. QED
    BY <1>3, <2>1 DEF SoleIsWhole
<1>. QED
  BY <1>5, <1>6, <1>7, <1>8, <1>9, <1>10, <1>11 DEF S!ExportStep

LEMMA NextWhole == WholeInv /\ [S!Next]_(S!vars) => WholeInv'
<1>. SUFFICES ASSUME WholeInv, [S!Next]_(S!vars) PROVE WholeInv'
  OBVIOUS
<1>1. ASSUME NEW e \in Exports, S!ExportStep(e) PROVE WholeInv'
  BY <1>1, StepTyped, OwnStaysWhole, OthersStayWhole DEF WholeInv
<1>2. CASE UNCHANGED S!vars
  BY <1>2 DEF S!vars, WholeInv, ExportTypes, SoleIsWhole, Alone, MayWrite, S!Dump, S!Gz
<1>. QED
  BY <1>1, <1>2 DEF S!Next

(***************************************************************************)
(* An export that was announced, and had its name to itself, has a whole   *)
(* file until that is downloaded, for any number of exports.               *)
(***************************************************************************)
THEOREM OffersAreWhole == S!Spec => []AnnouncedIsWhole
<1>1. WholeInv => AnnouncedIsWhole
  BY DEF WholeInv, SoleIsWhole, AnnouncedIsWhole, S!AnnouncedIsWhole
<1>. QED
  BY <1>1, InitWhole, NextWhole, PTL DEF S!Spec

-----------------------------------------------------------------------------
(***************************************************************************)
(* Loops.  A loop over the places of a list, each turn of which takes a    *)
(* value of a set to one, has exactly one course.                          *)
(***************************************************************************)
\* A set of numbers that is not empty has a least one.
LEMMA Least ==
    ASSUME NEW T \in SUBSET Nat, T # {}
    PROVE  \E n \in T : \A m \in T : n <= m
<1>1. \A m, n \in Nat : m < n => <<m, n>> \in OpToRel(<, Nat)
  BY Zenon DEF OpToRel
<1>2. PICK R : /\ IsWellFoundedOn(R, Nat)
               /\ \A m, n \in Nat : m < n => <<m, n>> \in R
  BY <1>1, NatLessThanWellFounded, Zenon
<1>3. PICK n \in T : \A m \in T : ~(<<m, n>> \in R)
  <2>1. T \subseteq Nat /\ IsWellFoundedOn(R, Nat)
    BY <1>2, Zenon
  <2>. QED
    BY <2>1, WFMin, Zenon
<1>4. \A m \in T : ~(m < n)
  BY <1>2, <1>3
<1>. QED
  BY <1>4

\* The course of a loop that starts at x: a value of X after each turn.
Course(f, X, x, step, last) ==
    /\ last \in Nat
    /\ f = [n \in 0 .. last |-> IF n = 0 THEN x ELSE step[n][f[n - 1]]]
    /\ \A n \in 0 .. last : f[n] \in X

\* One more turn.
LEMMA CourseContinues ==
    ASSUME NEW X, NEW x, NEW step, NEW last \in Nat, NEW f,
           Course(f, X, x, step, last), step[last + 1] \in [X -> X]
    PROVE  \E g : Course(g, X, x, step, last + 1)
<1>. DEFINE g == [n \in 0 .. last + 1 |-> IF n = last + 1 THEN step[last + 1][f[last]]
                                                          ELSE f[n]]
<1>1. /\ \A n \in 0 .. last : f[n] = IF n = 0 THEN x ELSE step[n][f[n - 1]]
      /\ \A n \in 0 .. last : f[n] \in X
  BY DEF Course
<1>2. \A n \in 0 .. last : g[n] = f[n]
  OBVIOUS
<1>3. g[last + 1] = step[last + 1][f[last]] /\ g[last + 1] \in X
  BY <1>1
<1>4. \A n \in 0 .. last + 1 : g[n] = IF n = 0 THEN x ELSE step[n][g[n - 1]]
  <2>1. \A n \in 1 .. last + 1 : n - 1 \in 0 .. last
    OBVIOUS
  <2>. QED
    BY <1>1, <1>2, <1>3, <2>1
<1>5. \A n \in 0 .. last + 1 : g[n] \in X
  BY <1>1, <1>2, <1>3
<1>6. g = [n \in 0 .. last + 1 |-> IF n = 0 THEN x ELSE step[n][g[n - 1]]]
  BY <1>4
<1>7. last + 1 \in Nat
  OBVIOUS
<1>. HIDE DEF g
<1>. QED
  BY <1>5, <1>6, <1>7 DEF Course

\* A loop of any number of turns has a course (the least number that has none
\* would follow one that has).
LEMMA CourseExists ==
    ASSUME NEW X, NEW x \in X, NEW last \in Nat, NEW step \in [1 .. last -> [X -> X]]
    PROVE  \E f : Course(f, X, x, step, last)
<1>. DEFINE Stuck == {n \in 0 .. last : ~\E f : Course(f, X, x, step, n)}
<1>1. SUFFICES ASSUME Stuck # {} PROVE FALSE
  OBVIOUS
<1>2. PICK n \in Stuck : \A m \in Stuck : n <= m
  <2>1. Stuck \in SUBSET Nat
    OBVIOUS
  <2>. HIDE DEF Stuck
  <2>. QED
    BY <1>1, <2>1, Least
<1>3. Course([m \in 0 .. 0 |-> x], X, x, step, 0)
  BY DEF Course
<1>4. n # 0
  BY <1>3
<1>5. n - 1 \in 0 .. last /\ n - 1 \notin Stuck /\ n \in 1 .. last
  BY <1>2, <1>4
<1>6. PICK f : Course(f, X, x, step, n - 1)
  BY <1>5
<1>7. step[(n - 1) + 1] \in [X -> X] /\ (n - 1) + 1 = n /\ n - 1 \in Nat
  BY <1>5
<1>8. \E g : Course(g, X, x, step, (n - 1) + 1)
  <2>. HIDE DEF Stuck
  <2>. QED
    BY <1>6, <1>7, CourseContinues
<1>. QED
  BY <1>2, <1>7, <1>8

\* What is defined by the loop's recursion, and two that say the same.
Follows(g, X, x, step, last) ==
    g[0] = x /\ \A n \in 1 .. last : g[n - 1] \in X => g[n] = step[n][g[n - 1]]

Agree(f, g, last) == \A n \in 0 .. last : g[n] = f[n]

\* There is one: the first place where two differ would follow one where they agree.
LEMMA OneCourse ==
    ASSUME NEW X, NEW x, NEW last, NEW step, NEW f, NEW g,
           Course(f, X, x, step, last), Follows(g, X, x, step, last)
    PROVE  Agree(f, g, last)
<1>. DEFINE Wrong == {n \in 0 .. last : g[n] # f[n]}
<1>1. SUFFICES ASSUME Wrong # {} PROVE FALSE
  BY DEF Agree
<1>2. PICK n \in Wrong : \A m \in Wrong : n <= m
  <2>1. Wrong \in SUBSET Nat
    BY DEF Course
  <2>. HIDE DEF Wrong
  <2>. QED
    BY <1>1, <2>1, Least
<1>3. /\ last \in Nat
      /\ \A m \in 0 .. last : f[m] = IF m = 0 THEN x ELSE step[m][f[m - 1]]
      /\ \A m \in 0 .. last : f[m] \in X
  BY DEF Course
<1>4. n # 0 /\ n \in 1 .. last /\ n - 1 \in 0 .. last
  BY <1>2, <1>3 DEF Follows
<1>5. g[n - 1] = f[n - 1]
  BY <1>2, <1>4
<1>6. g[n] = step[n][g[n - 1]] /\ f[n] = step[n][f[n - 1]]
  BY <1>3, <1>4, <1>5 DEF Follows
<1>. QED
  BY <1>2, <1>5, <1>6

-----------------------------------------------------------------------------
(***************************************************************************)
(* A finite set with a strict total order can be listed in that order.     *)
(***************************************************************************)
IsSorted(list, R) ==
    \A i, j \in DOMAIN list : i < j => <<list[i], list[j]>> \in R

IsOrder(R, Z) ==
    /\ \A x, y \in Z : x # y => <<x, y>> \in R \/ <<y, x>> \in R
    /\ \A x, y, z \in Z : <<x, y>> \in R /\ <<y, z>> \in R => <<x, z>> \in R

\* One more element finds its place.
LEMMA Inserted ==
    ASSUME NEW Z, NEW R, IsOrder(R, Z), NEW n \in Nat, NEW x \in Z,
           NEW list \in [1 .. n -> Z \ {x}], IsSorted(list, R)
    PROVE  \E longer \in [1 .. n + 1 -> Z] : IsSorted(longer, R)
<1>. DEFINE Places == {k \in 1 .. n + 1 : k = n + 1 \/ <<x, list[k]>> \in R}
<1>1. PICK p \in Places : \A k \in Places : p <= k
  <2>1. n + 1 \in Places /\ Places \in SUBSET Nat
    OBVIOUS
  <2>. HIDE DEF Places
  <2>. QED
    BY <2>1, Least
<1>2. p \in 1 .. n + 1 /\ (p # n + 1 => <<x, list[p]>> \in R)
  OBVIOUS
<1>3. \A k \in 1 .. n : k < p => <<list[k], x>> \in R
  <2>. SUFFICES ASSUME NEW k \in 1 .. n, k < p PROVE <<list[k], x>> \in R
    OBVIOUS
  <2>1. ~(<<x, list[k]>> \in R)
    BY <1>1, <1>2
  <2>2. list[k] \in Z /\ list[k] # x
    OBVIOUS
  <2>. QED
    BY <2>1, <2>2 DEF IsOrder
<1>4. \A k \in 1 .. n : p <= k => <<x, list[k]>> \in R
  <2>. SUFFICES ASSUME NEW k \in 1 .. n, p <= k PROVE <<x, list[k]>> \in R
    OBVIOUS
  <2>1. p \in 1 .. n /\ <<x, list[p]>> \in R
    BY <1>2
  <2>2. p = k \/ <<list[p], list[k]>> \in R
    BY <2>1 DEF IsSorted
  <2>3. list[p] \in Z /\ list[k] \in Z
    BY <2>1
  <2>. QED
    BY <2>1, <2>2, <2>3 DEF IsOrder
<1>. DEFINE longer == [k \in 1 .. n + 1 |-> IF k < p THEN list[k] ELSE
                                              IF k = p THEN x ELSE list[k - 1]]
<1>5. longer \in [1 .. n + 1 -> Z]
  <2>1. \A k \in 1 .. n + 1 : /\ k < p => k \in 1 .. n
                              /\ k > p => k - 1 \in 1 .. n
    BY <1>2
  <2>. QED
    BY <1>2, <2>1
<1>6. IsSorted(longer, R)
  <2>. SUFFICES ASSUME NEW i \in 1 .. n + 1, NEW j \in 1 .. n + 1, i < j
                PROVE  <<longer[i], longer[j]>> \in R
    BY DEF IsSorted
  <2>1. CASE j < p
    BY <1>2, <2>1 DEF IsSorted
  <2>2. CASE j = p
    BY <1>2, <1>3, <2>2
  <2>3. CASE i = p
    <3>1. j - 1 \in 1 .. n /\ p <= j - 1 /\ longer[i] = x /\ longer[j] = list[j - 1]
      BY <1>2, <2>3
    <3>. QED
      BY <1>4, <3>1
  <2>4. CASE i < p /\ p < j
    <3>1. /\ i \in 1 .. n /\ j - 1 \in 1 .. n /\ i < j - 1
          /\ longer[i] = list[i] /\ longer[j] = list[j - 1]
      BY <1>2, <2>4
    <3>. QED
      BY <3>1 DEF IsSorted
  <2>5. CASE p < i
    <3>1. /\ i - 1 \in 1 .. n /\ j - 1 \in 1 .. n /\ i - 1 < j - 1
          /\ longer[i] = list[i - 1] /\ longer[j] = list[j - 1]
      BY <1>2, <2>5
    <3>. QED
      BY <3>1 DEF IsSorted
  <2>. QED
    BY <1>2, <2>1, <2>2, <2>3, <2>4, <2>5
<1>. QED
  BY <1>5, <1>6

\* A smallest set without a list would have one with an element less.
LEMMA SortedExists ==
    ASSUME NEW Z, IsFiniteSet(Z), NEW R, IsOrder(R, Z)
    PROVE  \E list \in [1 .. Cardinality(Z) -> Z] : IsSorted(list, R)
<1>. DEFINE Stuck == {n \in Nat : \E U \in SUBSET Z :
                        /\ Cardinality(U) = n
                        /\ ~\E list \in [1 .. n -> U] : IsSorted(list, R)}
<1>1. SUFFICES ASSUME Stuck # {} PROVE FALSE
  <2>1. Cardinality(Z) \in Nat
    BY FS_CardinalityType
  <2>. QED
    BY <2>1
<1>2. PICK n \in Stuck : \A m \in Stuck : n <= m
  <2>1. Stuck \in SUBSET Nat
    OBVIOUS
  <2>. HIDE DEF Stuck
  <2>. QED
    BY <1>1, <2>1, Least
<1>3. PICK U \in SUBSET Z : /\ Cardinality(U) = n
                            /\ ~\E list \in [1 .. n -> U] : IsSorted(list, R)
  BY <1>2
<1>4. n \in Nat /\ IsFiniteSet(U) /\ IsOrder(R, U)
  BY <1>2, FS_Subset DEF IsOrder
<1>5. U # {}
  <2>1. SUFFICES ASSUME U = {} PROVE FALSE
    OBVIOUS
  <2>2. n = 0
    BY <1>3, <2>1, FS_EmptySet
  <2>3. [i \in 1 .. 0 |-> i] \in [1 .. 0 -> U] /\ IsSorted([i \in 1 .. 0 |-> i], R)
    BY DEF IsSorted
  <2>. QED
    BY <1>3, <2>2, <2>3
<1>6. PICK x \in U : TRUE
  BY <1>5
<1>7. IsFiniteSet(U \ {x}) /\ Cardinality(U \ {x}) = n - 1 /\ n - 1 \in Nat
  <2>1. IsFiniteSet(U \ {x}) /\ Cardinality(U \ {x}) = n - 1
    BY <1>3, <1>4, <1>6, FS_RemoveElement
  <2>2. Cardinality(U \ {x}) \in Nat
    BY <2>1, FS_CardinalityType
  <2>. QED
    BY <2>1, <2>2
<1>8. PICK list \in [1 .. n - 1 -> U \ {x}] : IsSorted(list, R)
  <2>1. n - 1 \notin Stuck
    BY <1>2, <1>4, <1>7
  <2>2. U \ {x} \in SUBSET Z
    OBVIOUS
  <2>. QED
    BY <1>7, <2>1, <2>2
<1>9. \E longer \in [1 .. (n - 1) + 1 -> U] : IsSorted(longer, R)
  <2>. HIDE DEF Stuck
  <2>. QED
    BY <1>4, <1>6, <1>7, <1>8, Inserted
<1>10. (n - 1) + 1 = n
  BY <1>4
<1>. QED
  BY <1>3, <1>9, <1>10

-----------------------------------------------------------------------------
(***************************************************************************)
(* Events that are told apart by their numbers can be listed by their      *)
(* times, in both directions.                                              *)
(***************************************************************************)
Sortable(events) ==
    /\ IsFiniteSet(events)
    /\ \A e \in events : e.id \in Nat /\ e.time \in Nat
    /\ \A d, e \in events : d.id = e.id => d = e

LEMMA SameCardinality == \A Z : Trail!Cardinality(Z) = Cardinality(Z)
BY DEF Trail!Cardinality, Cardinality

\* So NewestFirst and OldestFirst do list them, each in its place.
LEMMA Listed ==
    ASSUME NEW events, Sortable(events)
    PROVE  /\ Cardinality(events) \in Nat
           /\ Trail!NewestFirst(events) \in [1 .. Cardinality(events) -> events]
           /\ \A i, j \in 1 .. Cardinality(events) :
                 i < j => Trail!Newer(Trail!NewestFirst(events)[i], Trail!NewestFirst(events)[j])
           /\ Trail!OldestFirst(events) \in [1 .. Cardinality(events) -> events]
           /\ \A i, j \in 1 .. Cardinality(events) :
                 i < j => Trail!Older(Trail!OldestFirst(events)[i], Trail!OldestFirst(events)[j])
<1>1. PICK n \in Nat : n = Cardinality(events) /\ IsFiniteSet(events)
  BY FS_CardinalityType DEF Sortable
<1>2. /\ Trail!NewestFirst(events) \in [1 .. n -> events]
      /\ \A i, j \in DOMAIN Trail!NewestFirst(events) :
            i < j => Trail!Newer(Trail!NewestFirst(events)[i], Trail!NewestFirst(events)[j])
  <2>. DEFINE R == {pair \in events \X events : Trail!Newer(pair[1], pair[2])}
  <2>1. \A x, y \in events : <<x, y>> \in R <=> Trail!Newer(x, y)
    OBVIOUS
  <2>2. IsOrder(R, events)
    <3>. HIDE DEF R
    <3>. QED
      BY <2>1 DEF IsOrder, Sortable, Trail!Newer
  <2>3. PICK list \in [1 .. n -> events] : IsSorted(list, R)
    <3>. HIDE DEF R
    <3>. QED
      BY <1>1, <2>2, SortedExists
  <2>4. \A i, j \in DOMAIN list : i < j => Trail!Newer(list[i], list[j])
    <3>. HIDE DEF R
    <3>. QED
      BY <2>1, <2>3 DEF IsSorted
  <2>5. Trail!NewestFirst(events) = CHOOSE s \in [1 .. n -> events] :
           \A i, j \in DOMAIN s : i < j => Trail!Newer(s[i], s[j])
    BY <1>1, SameCardinality DEF Trail!NewestFirst, Trail!Lists
  <2>. QED
    BY <2>4, <2>5
<1>3. /\ Trail!OldestFirst(events) \in [1 .. n -> events]
      /\ \A i, j \in DOMAIN Trail!OldestFirst(events) :
            i < j => Trail!Older(Trail!OldestFirst(events)[i], Trail!OldestFirst(events)[j])
  <2>. DEFINE R == {pair \in events \X events : Trail!Older(pair[1], pair[2])}
  <2>1. \A x, y \in events : <<x, y>> \in R <=> Trail!Older(x, y)
    OBVIOUS
  <2>2. IsOrder(R, events)
    <3>. HIDE DEF R
    <3>. QED
      BY <2>1 DEF IsOrder, Sortable, Trail!Older
  <2>3. PICK list \in [1 .. n -> events] : IsSorted(list, R)
    <3>. HIDE DEF R
    <3>. QED
      BY <1>1, <2>2, SortedExists
  <2>4. \A i, j \in DOMAIN list : i < j => Trail!Older(list[i], list[j])
    <3>. HIDE DEF R
    <3>. QED
      BY <2>1, <2>3 DEF IsSorted
  <2>5. Trail!OldestFirst(events) = CHOOSE s \in [1 .. n -> events] :
           \A i, j \in DOMAIN s : i < j => Trail!Older(s[i], s[j])
    BY <1>1, SameCardinality DEF Trail!OldestFirst, Trail!Lists
  <2>. QED
    BY <2>4, <2>5
<1>4. DOMAIN Trail!NewestFirst(events) = 1 .. n /\ DOMAIN Trail!OldestFirst(events) = 1 .. n
  BY <1>2, <1>3
<1>. QED
  BY <1>1, <1>2, <1>3, <1>4

\* A list that is as long as a set and takes each element once has them all.
LEMMA NoneMissing ==
    ASSUME NEW Z, IsFiniteSet(Z), NEW n \in Nat, n = Cardinality(Z),
           NEW list \in [1 .. n -> Z], \A i, j \in 1 .. n : i < j => list[i] # list[j]
    PROVE  \A e \in Z : \E i \in 1 .. n : list[i] = e
<1>1. list \in Injection(1 .. n, Z)
  <2>1. \A i, j \in 1 .. n : list[i] = list[j] => i = j
    OBVIOUS
  <2>. QED
    BY <2>1 DEF Injection, IsInjective
<1>2. IsFiniteSet(1 .. n) /\ Cardinality(1 .. n) = n
  BY FS_Interval
<1>3. list \in Surjection(1 .. n, Z)
  BY <1>1, <1>2, FS_Injection
<1>. QED
  BY <1>3 DEF Surjection

LEMMA PartSortable ==
    ASSUME NEW events, Sortable(events), NEW part_ \in SUBSET events
    PROVE  Sortable(part_)
<1>1. IsFiniteSet(part_)
  BY FS_Subset DEF Sortable
<1>. QED
  BY <1>1 DEF Sortable

\* The list takes its elements from a set.
Picks(list, events) == \E n \in Nat : list \in [1 .. n -> events]

LEMMA PicksNewest ==
    ASSUME NEW events, Sortable(events)
    PROVE  /\ Picks(Trail!NewestFirst(events), events)
           /\ Picks(Trail!OldestFirst(events), events)
BY Listed DEF Picks

LEMMA PicksFirst ==
    ASSUME NEW events, NEW list, Picks(list, events), NEW limit \in Nat
    PROVE  Picks(Trail!FirstOf(list, limit), events)
<1>1. PICK n \in Nat : list \in [1 .. n -> events]
  BY DEF Picks
<1>2. list \in Seq(events) /\ Len(list) = n
  BY <1>1
<1>. DEFINE last == IF Len(list) < limit THEN Len(list) ELSE limit
<1>3. last \in Nat /\ last <= n
  BY <1>2
<1>4. SubSeq(list, 1, last) \in [1 .. last -> events]
  <2>. HIDE DEF last
  <2>1. SubSeq(list, 1, last) \in Seq(events) /\ Len(SubSeq(list, 1, last)) = last
    BY <1>2, <1>3
  <2>2. \A t \in Seq(events) : t \in [1 .. Len(t) -> events]
    OBVIOUS
  <2>. QED
    BY <2>1, <2>2, Zenon
<1>. QED
  BY <1>3, <1>4 DEF Picks, Trail!FirstOf

LEMMA PicksMore ==
    ASSUME NEW events, NEW list, Picks(list, events), NEW more, events \subseteq more
    PROVE  Picks(list, more)
<1>1. PICK n \in Nat : list \in [1 .. n -> events]
  BY DEF Picks
<1>2. list \in [1 .. n -> more]
  BY <1>1
<1>. QED
  BY <1>2 DEF Picks

LEMMA PickedSortable ==
    ASSUME NEW events, Sortable(events), NEW list, Picks(list, events)
    PROVE  Trail!ToSet(list) \subseteq events /\ Sortable(Trail!ToSet(list))
<1>1. PICK n \in Nat : list \in [1 .. n -> events]
  BY DEF Picks
<1>2. Trail!ToSet(list) \subseteq events
  BY <1>1 DEF Trail!ToSet
<1>. QED
  BY <1>2, PartSortable

-----------------------------------------------------------------------------
(***************************************************************************)
(* What an event is logged as, and what it can become: an actor and a      *)
(* detail are its own or those of an event of some set, which its readers  *)
(* know it by the number of.                                               *)
(***************************************************************************)
LogEvents == {Trail!Event(shape, id, time) :
                 shape \in Shapes, id \in 1 .. MaxEvents, time \in Nat}

ActorTypes == {Trail!None, "system", "user"}

Tales(ids) == [type   : ActorTypes,
               label  : ids \cup {0, Trail!DokkuSystem},
               detail : ids \cup {0}]

Form(e, tale) ==
    [e EXCEPT !.actor = [type |-> tale.type, label |-> tale.label], !.detail = tale.detail]

Forms(e, ids) == {Form(e, tale) : tale \in Tales(ids)}

Tells(e, ids) ==
    [type |-> e.actor.type, label |-> e.actor.label, detail |-> e.detail] \in Tales(ids)

\* The fields of an event.
LEMMA Logged ==
    ASSUME NEW e \in LogEvents
    PROVE  \E app, correlation, status, mentions, deploy, id, time, tale :
              /\ id \in 1 .. MaxEvents /\ time \in Nat
              /\ tale \in Tales({id})
              /\ e = [id |-> id, time |-> time, app |-> app, correlation |-> correlation,
                      status |-> status, mentions |-> mentions, deploy |-> deploy,
                      detail |-> tale.detail,
                      actor |-> [type |-> tale.type, label |-> tale.label]]
<1>1. PICK shape \in Shapes, id \in 1 .. MaxEvents, time \in Nat :
         e = Trail!Event(shape, id, time)
  BY DEF LogEvents
<1>. DEFINE actor == CASE shape.actor = "nobody" -> Trail!Nobody
                       [] shape.actor = "system" -> [type |-> "system", label |-> Trail!DokkuSystem]
                       [] shape.actor = "person" -> [type |-> "user", label |-> id]
                       [] shape.actor = "untyped" -> [type |-> Trail!None, label |-> id]
            detail == IF shape.detailed THEN id ELSE 0
<1>2. /\ actor.type \in ActorTypes /\ actor.label \in {id, 0, Trail!DokkuSystem}
      /\ actor = [type |-> actor.type, label |-> actor.label]
  <2>1. shape.actor \in {"nobody", "system", "person", "untyped"}
    BY AuditAssumption
  <2>. QED
    BY <2>1 DEF Trail!Nobody, ActorTypes
<1>3. e = [id |-> id, time |-> time, app |-> shape.app, correlation |-> shape.correlation,
           status |-> shape.status, mentions |-> shape.mentions, deploy |-> shape.deploy,
           detail |-> detail, actor |-> actor]
  BY <1>1 DEF Trail!Event
<1>4. detail \in {id, 0}
  OBVIOUS
<1>. HIDE DEF actor, detail
<1>5. PICK tale \in Tales({id}) :
         tale = [type |-> actor.type, label |-> actor.label, detail |-> detail]
  BY <1>2, <1>4 DEF Tales
<1>6. tale.detail = detail /\ actor = [type |-> tale.type, label |-> tale.label]
  BY <1>2, <1>5
<1>. WITNESS shape.app, shape.correlation, shape.status, shape.mentions, shape.deploy,
             id, time, tale
<1>. QED
  BY <1>3, <1>5, <1>6

\* What an event becomes keeps its number and its time.
LEMMA FormFields ==
    ASSUME NEW e \in LogEvents, NEW ids, NEW form \in Forms(e, ids)
    PROVE  /\ form.id = e.id /\ form.time = e.time
           /\ Tells(form, ids)
<1>1. PICK tale \in Tales(ids) : form = Form(e, tale)
  BY DEF Forms
<1>2. /\ form.id = e.id /\ form.time = e.time
      /\ form.actor = [type |-> tale.type, label |-> tale.label]
      /\ form.detail = tale.detail
  BY <1>1, Logged DEF Form
<1>3. [type |-> form.actor.type, label |-> form.actor.label, detail |-> form.detail] = tale
  BY <1>2 DEF Tales
<1>. QED
  BY <1>2, <1>3 DEF Tells

\* As it is logged, it tells what is its own.
LEMMA LoggedForm ==
    ASSUME NEW e \in LogEvents, NEW ids, e.id \in ids
    PROVE  /\ e \in Forms(e, ids) /\ Tells(e, ids)
           /\ e.id \in 1 .. MaxEvents /\ e.id \in Nat /\ e.time \in Nat
<1>1. PICK app, correlation, status, mentions, deploy, id, time, tale :
              /\ id \in 1 .. MaxEvents /\ time \in Nat
              /\ tale \in Tales({id})
              /\ e = [id |-> id, time |-> time, app |-> app, correlation |-> correlation,
                      status |-> status, mentions |-> mentions, deploy |-> deploy,
                      detail |-> tale.detail,
                      actor |-> [type |-> tale.type, label |-> tale.label]]
  BY Logged
<1>2. e.id = id /\ e.time = time
  BY <1>1
<1>3. tale \in Tales(ids)
  BY <1>1, <1>2 DEF Tales
<1>4. e = Form(e, tale)
  <2>1. e.actor = [type |-> tale.type, label |-> tale.label] /\ e.detail = tale.detail
    BY <1>1
  <2>2. e = [e EXCEPT !.actor = e.actor, !.detail = e.detail]
    <3>1. \A a, d : e.actor = a /\ e.detail = d => e = [e EXCEPT !.actor = a, !.detail = d]
      BY <1>1
    <3>. QED
      BY <3>1
  <2>. QED
    BY <2>1, <2>2 DEF Form
<1>5. e \in Forms(e, ids)
  BY <1>3, <1>4 DEF Forms
<1>6. MaxEvents \in Nat
  BY AuditAssumption
<1>. QED
  BY <1>1, <1>2, <1>5, <1>6, FormFields

\* What is filled in is the actor and the detail of an event.
LEMMA MergedForm ==
    ASSUME NEW e \in LogEvents, NEW ids, NEW base \in Forms(e, ids),
           NEW candidate, Tells(candidate, ids)
    PROVE  Trail!mergeAuditEvent(base, candidate) \in Forms(e, ids)
<1>1. PICK tale \in Tales(ids) : base = Form(e, tale)
  BY DEF Forms
<1>2. base.actor = [type |-> tale.type, label |-> tale.label] /\ base.detail = tale.detail
  BY <1>1, Logged DEF Form
<1>. DEFINE replaces == Trail!shouldReplaceAuditActor(base, candidate)
            said == [type |-> IF replaces /\ candidate.actor.type # Trail!None
                                THEN candidate.actor.type ELSE tale.type,
                     label |-> IF replaces THEN candidate.actor.label ELSE tale.label,
                     detail |-> IF tale.detail = 0 THEN candidate.detail ELSE tale.detail]
<1>3. said \in Tales(ids)
  BY DEF Tells, Tales
<1>4. Trail!mergeAuditEvent(base, candidate)
        = [base EXCEPT !.actor = [type |-> said.type, label |-> said.label],
                       !.detail = said.detail]
  <2>1. CASE replaces
    BY <1>2, <2>1 DEF Trail!mergeAuditEvent
  <2>2. CASE ~replaces
    BY <1>2, <2>2 DEF Trail!mergeAuditEvent
  <2>. QED
    BY <2>1, <2>2
<1>5. \A a, d : [base EXCEPT !.actor = a, !.detail = d] = [e EXCEPT !.actor = a, !.detail = d]
  BY <1>1, Logged, ZenonT(30) DEF Form
<1>. HIDE DEF said
<1>. QED
  BY <1>3, <1>4, <1>5 DEF Forms, Form

(***************************************************************************)
(* What is filled in from a list of events is what they tell.              *)
(***************************************************************************)
Knows(timeline, ids) ==
    /\ Sortable(Trail!ToSet(timeline))
    /\ \A e \in Trail!ToSet(timeline) : Tells(e, ids)

LEMMA RelatedKnown ==
    ASSUME NEW timeline, NEW ids, Knows(timeline, ids), NEW event
    PROVE  \E n \in Nat : /\ Len(Trail!collectRelatedAuditEvents(event, timeline)) = n
                          /\ \A i \in 1 .. n :
                                Tells(Trail!collectRelatedAuditEvents(event, timeline)[i], ids)
<1>1. PICK related \in SUBSET Trail!ToSet(timeline) :
         Trail!collectRelatedAuditEvents(event, timeline) = Trail!OldestFirst(related)
  BY Zenon DEF Trail!collectRelatedAuditEvents
<1>2. Picks(Trail!OldestFirst(related), related)
  BY PartSortable, PicksNewest DEF Knows
<1>3. PICK n \in Nat : Trail!OldestFirst(related) \in [1 .. n -> related]
  BY <1>2 DEF Picks
<1>4. PICK list \in [1 .. n -> related] : list = Trail!OldestFirst(related)
  BY <1>3
<1>5. Len(list) = n /\ \A i \in 1 .. n : list[i] \in Trail!ToSet(timeline)
  BY <1>3
<1>. QED
  BY <1>1, <1>4, <1>5 DEF Knows

\* The loop over the related events.
Enriches(f, last, event, timeline) ==
    /\ last \in Nat /\ last = Len(Trail!collectRelatedAuditEvents(event, timeline))
    /\ f[0] = event
    /\ \A n \in 1 .. last :
          f[n] = Trail!mergeAuditEvent(f[n - 1],
                                       Trail!collectRelatedAuditEvents(event, timeline)[n])
    /\ f[last] = Trail!enrichAuditEventWithTimeline(event, timeline)

LEMMA EnrichedCourse ==
    ASSUME NEW e \in LogEvents, NEW ids, NEW event \in Forms(e, ids),
           NEW timeline, Knows(timeline, ids)
    PROVE  \E f, last : /\ Enriches(f, last, event, timeline)
                        /\ \A n \in 0 .. last : f[n] \in Forms(e, ids)
<1>. DEFINE X == Forms(e, ids)
            related == Trail!collectRelatedAuditEvents(event, timeline)
            last == Len(related)
            step == [n \in 1 .. last |->
                        [base \in X |-> Trail!mergeAuditEvent(base, related[n])]]
            IsEnriched(g) == g = [n \in 0 .. last |->
                                     IF n = 0 THEN event
                                     ELSE Trail!mergeAuditEvent(g[n - 1], related[n])]
<1>1. last \in Nat /\ \A n \in 1 .. last : Tells(related[n], ids)
  BY RelatedKnown
<1>2. step \in [1 .. last -> [X -> X]]
  <2>. HIDE DEF related
  <2>. QED
    BY <1>1, MergedForm
<1>3. PICK f : Course(f, X, event, step, last)
  <2>. HIDE DEF X, related, last, step
  <2>1. event \in X
    BY DEF X
  <2>. QED
    BY <1>1, <1>2, <2>1, CourseExists
<1>4. /\ f[0] = event
      /\ \A n \in 0 .. last : f[n] \in X
      /\ \A n \in 1 .. last : f[n] = step[n][f[n - 1]]
      /\ f = [n \in 0 .. last |-> IF n = 0 THEN event ELSE step[n][f[n - 1]]]
  <2>. HIDE DEF X, related, last, step
  <2>. QED
    BY <1>1, <1>3 DEF Course
<1>5. \A n \in 1 .. last : f[n] = Trail!mergeAuditEvent(f[n - 1], related[n])
  <2>1. \A n \in 1 .. last : n - 1 \in 0 .. last
    BY <1>1
  <2>. HIDE DEF X, related
  <2>. QED
    BY <1>4, <2>1
<1>6. IsEnriched(f)
  <2>1. \A n \in 0 .. last : n # 0 => n \in 1 .. last
    BY <1>1
  <2>2. \A n \in 0 .. last : f[n] = IF n = 0 THEN event
                                    ELSE Trail!mergeAuditEvent(f[n - 1], related[n])
    <3>. HIDE DEF X, related, step
    <3>. QED
      BY <1>4, <1>5, <2>1
  <2>3. f = [n \in 0 .. last |-> f[n]]
    <3>. HIDE DEF X, related, last, step
    <3>. QED
      BY <1>4
  <2>. HIDE DEF X, related, last, step
  <2>. QED
    BY <2>2, <2>3
<1>7. PICK g : /\ IsEnriched(g)
               /\ Trail!enrichAuditEventWithTimeline(event, timeline) = g[last]
  <2>1. \E g : IsEnriched(g)
    BY <1>6
  <2>. QED
    BY <2>1 DEF Trail!enrichAuditEventWithTimeline
<1>8. Follows(g, X, event, step, last)
  <2>1. \A n \in 0 .. last : g[n] = IF n = 0 THEN event
                                    ELSE Trail!mergeAuditEvent(g[n - 1], related[n])
    <3>. HIDE DEF X, related, step
    <3>. QED
      BY <1>7
  <2>2. 0 \in 0 .. last /\ \A n \in 1 .. last : n \in 0 .. last /\ n # 0
    BY <1>1
  <2>3. g[0] = event
    <3>. HIDE DEF X, related, last, step, IsEnriched
    <3>. QED
      BY <2>1, <2>2
  <2>4. \A n \in 1 .. last : g[n] = Trail!mergeAuditEvent(g[n - 1], related[n])
    <3>. HIDE DEF X, related, last, step, IsEnriched
    <3>. QED
      BY <2>1, <2>2
  <2>5. \A n \in 1 .. last : g[n - 1] \in X => g[n] = step[n][g[n - 1]]
    <3>. HIDE DEF X, related, last, IsEnriched
    <3>. QED
      BY <2>4
  <2>. HIDE DEF X, related, last, step, IsEnriched
  <2>. QED
    BY <2>3, <2>5 DEF Follows
<1>9. Agree(f, g, last)
  <2>. HIDE DEF X, related, last, step, IsEnriched
  <2>. QED
    BY <1>3, <1>8, OneCourse, Zenon
<1>10. last \in 0 .. last
  BY <1>1
<1>11. g[last] = f[last]
  <2>. HIDE DEF X, related, last, step, IsEnriched
  <2>. QED
    BY <1>9, <1>10 DEF Agree
<1>. QED
  <2>1. Enriches(f, last, event, timeline)
    <3>. HIDE DEF X, step, IsEnriched
    <3>. QED
      BY <1>1, <1>4, <1>5, <1>7, <1>11 DEF Enriches
  <2>. QED
    BY <1>4, <2>1

LEMMA EnrichedForm ==
    ASSUME NEW e \in LogEvents, NEW ids, NEW event \in Forms(e, ids),
           NEW timeline, Knows(timeline, ids)
    PROVE  Trail!enrichAuditEventWithTimeline(event, timeline) \in Forms(e, ids)
<1>1. PICK f, last : /\ Enriches(f, last, event, timeline)
                     /\ \A n \in 0 .. last : f[n] \in Forms(e, ids)
  BY EnrichedCourse
<1>2. last \in 0 .. last
  BY <1>1 DEF Enriches
<1>. QED
  BY <1>1, <1>2 DEF Enriches

-----------------------------------------------------------------------------
(***************************************************************************)
(* The log numbers its events from one.                                    *)
(***************************************************************************)
LogInv ==
    /\ log \in Seq(LogEvents)
    /\ \A i \in DOMAIN log : log[i].id = i
    /\ reader.apps \subseteq Apps /\ linked \subseteq Apps

LEMMA LogGrows == LogInv /\ [Trail!Next]_(Trail!vars) => LogInv'
<1>1. ASSUME LogInv, NEW shape \in Shapes, Trail!Log(shape) PROVE LogInv'
  <2>1. log \in Seq(LogEvents) /\ Len(log) \in Nat /\ MaxEvents \in Nat
    BY <1>1, AuditAssumption DEF LogInv
  <2>2. PICK time : log' = Append(log, Trail!Event(shape, Len(log) + 1, time)) /\ time \in Nat
    <3>1. CASE log = <<>>
      BY <1>1, <3>1 DEF Trail!Log
    <3>2. CASE log # <<>>
      <4>1. Len(log) \in 1 .. Len(log)
        BY <2>1, <3>2
      <4>2. Trail!Last(log) \in LogEvents
        BY <2>1, <4>1 DEF Trail!Last
      <4>3. Trail!Last(log).time \in Nat
        BY <4>2, LoggedForm
      <4>. QED
        BY <1>1, <3>2, <4>3 DEF Trail!Log
    <3>. QED
      BY <3>1, <3>2
  <2>. DEFINE event == Trail!Event(shape, Len(log) + 1, time)
  <2>3. event \in LogEvents /\ event.id = Len(log) + 1
    <3>1. Len(log) + 1 \in 1 .. MaxEvents
      BY <1>1, <2>1 DEF Trail!Log
    <3>2. event \in LogEvents
      BY <2>2, <3>1 DEF LogEvents
    <3>3. event.id = Len(log) + 1
      BY DEF Trail!Event
    <3>. QED
      BY <3>2, <3>3
  <2>. HIDE DEF event
  <2>4. log' = Append(log, event)
    BY <2>2 DEF event
  <2>5. log' \in Seq(LogEvents)
    BY <2>1, <2>3, <2>4
  <2>6. \A i \in DOMAIN log' : log'[i].id = i
    BY <1>1, <2>1, <2>3, <2>4 DEF LogInv
  <2>7. reader'.apps \subseteq Apps /\ linked' \subseteq Apps
    BY <1>1 DEF LogInv, Trail!Log
  <2>. QED
    BY <2>5, <2>6, <2>7 DEF LogInv
<1>2. ASSUME LogInv, UNCHANGED Trail!vars PROVE LogInv'
  BY <1>2 DEF LogInv, Trail!vars
<1>. QED
  BY <1>1, <1>2 DEF Trail!Next

\* The number of an event is its place in the log.
LEMMA EventsSortable ==
    ASSUME LogInv
    PROVE  /\ Sortable(Trail!Events)
           /\ \A e \in Trail!Events : /\ e \in LogEvents
                                      /\ e.id \in DOMAIN log /\ log[e.id] = e
<1>1. /\ log \in Seq(LogEvents) /\ DOMAIN log = 1 .. Len(log) /\ Len(log) \in Nat
      /\ \A i \in DOMAIN log : log[i].id = i
  BY DEF LogInv
<1>2. \A e \in Trail!Events : e \in LogEvents /\ e.id \in DOMAIN log /\ log[e.id] = e
  BY <1>1 DEF Trail!Events, Trail!ToSet
<1>3. IsFiniteSet(Trail!Events)
  <2>1. IsFiniteSet(1 .. Len(log))
    BY <1>1, FS_Interval
  <2>2. [i \in 1 .. Len(log) |-> log[i]] \in Surjection(1 .. Len(log), Trail!Events)
    BY <1>1 DEF Surjection, Trail!Events, Trail!ToSet
  <2>. QED
    BY <2>1, <2>2, FS_Surjection DEF ExistsSurjection
<1>4. \A e \in Trail!Events : e.id \in Nat /\ e.time \in Nat
  BY <1>2, LoggedForm
<1>. QED
  BY <1>2, <1>3, <1>4 DEF Sortable
-----------------------------------------------------------------------------
(***************************************************************************)
(* Lists of events that their reader may see, and what is filled in from   *)
(* such lists.                                                             *)
(***************************************************************************)
Numbered(ids) == {e \in Trail!Events : e.id \in ids}

Within(list, ids) ==
    \A e \in Trail!ToSet(list) :
        {e.id, e.detail, e.actor.label} \ {0, Trail!DokkuSystem} \subseteq ids

LEMMA ToldIsWithin ==
    ASSUME NEW list, NEW ids,
           \A e \in Trail!ToSet(list) : e.id \in ids /\ Tells(e, ids)
    PROVE  Within(list, ids)
BY DEF Within, Tells, Tales

\* A list of events the reader knows tells nothing else.
LEMMA PickedKnown ==
    ASSUME LogInv, NEW ids, NEW list, Picks(list, Numbered(ids))
    PROVE  Knows(list, ids) /\ Within(list, ids)
<1>1. Sortable(Numbered(ids)) /\ \A e \in Numbered(ids) : e \in LogEvents /\ e.id \in ids
  BY EventsSortable, PartSortable DEF Numbered
<1>2. Trail!ToSet(list) \subseteq Numbered(ids) /\ Sortable(Trail!ToSet(list))
  BY <1>1, PickedSortable
<1>3. \A e \in Trail!ToSet(list) : e.id \in ids /\ Tells(e, ids)
  BY <1>1, <1>2, LoggedForm
<1>. QED
  BY <1>2, <1>3, ToldIsWithin DEF Knows

\* Nor does it when it has been filled in from another such list.
LEMMA EnrichedKnown ==
    ASSUME LogInv, NEW ids, NEW list, Picks(list, Numbered(ids)),
           NEW timeline, Knows(timeline, ids)
    PROVE  /\ Knows(Trail!enrichAuditEventsWithTimeline(list, timeline), ids)
           /\ Within(Trail!enrichAuditEventsWithTimeline(list, timeline), ids)
<1>. DEFINE whole(e) == Trail!enrichAuditEventWithTimeline(e, timeline)
            enriched == Trail!enrichAuditEventsWithTimeline(list, timeline)
<1>1. PICK n \in Nat : list \in [1 .. n -> Numbered(ids)]
  BY DEF Picks
<1>2. enriched = [i \in 1 .. n |-> whole(list[i])]
  BY <1>1 DEF Trail!enrichAuditEventsWithTimeline
<1>3. \A e \in Numbered(ids) : /\ e \in Trail!Events /\ e.id \in ids
                               /\ e \in LogEvents /\ e.id \in Nat /\ e.time \in Nat
                               /\ e \in Forms(e, ids)
  BY EventsSortable, LoggedForm DEF Numbered
<1>4. \A e \in Numbered(ids) : whole(e) \in Forms(e, ids)
  <2>. SUFFICES ASSUME NEW e \in Numbered(ids) PROVE whole(e) \in Forms(e, ids)
    OBVIOUS
  <2>. QED
    BY <1>3, EnrichedForm
<1>. HIDE DEF whole, enriched
<1>5. \A e \in Numbered(ids) : /\ whole(e).id = e.id /\ whole(e).time = e.time
                               /\ Tells(whole(e), ids)
  BY <1>3, <1>4, FormFields
<1>6. \A w \in Trail!ToSet(enriched) : \E e \in Numbered(ids) : w = whole(e)
  BY <1>1, <1>2 DEF Trail!ToSet
<1>7. IsFiniteSet(Trail!ToSet(enriched))
  <2>1. IsFiniteSet(1 .. n)
    BY FS_Interval
  <2>2. enriched \in Surjection(1 .. n, Trail!ToSet(enriched))
    BY <1>2 DEF Surjection, Trail!ToSet
  <2>. QED
    BY <2>1, <2>2, FS_Surjection DEF ExistsSurjection
<1>8. \A v, w \in Trail!ToSet(enriched) : v.id = w.id => v = w
  <2>1. \A d, e \in Numbered(ids) : d.id = e.id => d = e
    BY EventsSortable DEF Numbered, Sortable
  <2>. QED
    BY <1>5, <1>6, <2>1
<1>9. \A w \in Trail!ToSet(enriched) : /\ w.id \in ids /\ w.id \in Nat /\ w.time \in Nat
                                       /\ Tells(w, ids)
  BY <1>3, <1>5, <1>6
<1>10. Sortable(Trail!ToSet(enriched))
  BY <1>7, <1>8, <1>9 DEF Sortable
<1>11. Knows(enriched, ids) /\ Within(enriched, ids)
  BY <1>9, <1>10, ToldIsWithin DEF Knows
<1>. QED
  BY <1>11 DEF enriched
-----------------------------------------------------------------------------
(***************************************************************************)
(* The lists the handlers put together.                                    *)
(***************************************************************************)
OfApps(apps) == {e \in Trail!Events : e.app \in apps}

LEMMA FetchedLists ==
    ASSUME LogInv, NEW app, NEW limit \in Nat
    PROVE  /\ Picks(Trail!GetAuditTimeline(app, limit), OfApps({app}))
           /\ Picks(Trail!AppDeploys(app, limit), OfApps({app}))
           /\ Picks(Trail!GetAuditRecent(limit), Trail!Events)
<1>1. Sortable(Trail!Events)
  BY EventsSortable
<1>2. PICK timeline \in SUBSET OfApps({app}) :
         Trail!GetAuditTimeline(app, limit)
           = Trail!FirstOf(Trail!NewestFirst(timeline), limit)
  BY DEF Trail!GetAuditTimeline, OfApps
<1>3. PICK deploys \in SUBSET OfApps({app}) :
         Trail!AppDeploys(app, limit) = Trail!FirstOf(Trail!NewestFirst(deploys), limit)
  BY DEF Trail!AppDeploys, OfApps
<1>4. \A events \in SUBSET Trail!Events :
         Picks(Trail!FirstOf(Trail!NewestFirst(events), limit), events)
  BY <1>1, PartSortable, PicksNewest, PicksFirst
<1>5. timeline \in SUBSET Trail!Events /\ deploys \in SUBSET Trail!Events
  BY DEF OfApps
<1>6. /\ Picks(Trail!GetAuditTimeline(app, limit), OfApps({app}))
      /\ Picks(Trail!AppDeploys(app, limit), OfApps({app}))
  BY <1>2, <1>3, <1>4, <1>5, PicksMore
<1>7. Picks(Trail!GetAuditRecent(limit), Trail!Events)
  BY <1>4 DEF Trail!GetAuditRecent
<1>. QED
  BY <1>6, <1>7

\* Put together, the lists of the apps are a list of their events.
LEMMA CollectedList ==
    ASSUME LogInv, NEW apps, NEW fetched, DOMAIN fetched = apps,
           \A app \in apps : Picks(fetched[app], OfApps({app})), NEW limit \in Nat
    PROVE  Picks(Trail!collectAuditEventsForApps(fetched, limit), OfApps(apps))
<1>. DEFINE events == UNION {Trail!ToSet(fetched[app]) : app \in DOMAIN fetched}
<1>1. Sortable(Trail!Events)
  BY EventsSortable
<1>2. \A app \in apps : Trail!ToSet(fetched[app]) \subseteq OfApps({app})
  BY <1>1, PartSortable, PickedSortable DEF OfApps
<1>3. events \subseteq OfApps(apps) /\ events \in SUBSET Trail!Events
  BY <1>2 DEF OfApps
<1>. HIDE DEF events
<1>4. Picks(Trail!FirstOf(Trail!NewestFirst(events), limit), events)
  BY <1>1, <1>3, PartSortable, PicksNewest, PicksFirst
<1>. QED
  BY <1>3, <1>4, PicksMore DEF Trail!collectAuditEventsForApps, events

LEMMA ListsOfApps ==
    ASSUME LogInv, NEW apps, NEW perApp \in Nat, NEW limit \in Nat
    PROVE  /\ Picks(Trail!getAuditTimelineForApps(apps, perApp, limit), OfApps(apps))
           /\ Picks(Trail!getAuditDeploysForApps(apps, perApp, limit), OfApps(apps))
<1>1. \A app \in apps : /\ Picks(Trail!GetAuditTimeline(app, perApp), OfApps({app}))
                        /\ Picks(Trail!AppDeploys(app, perApp), OfApps({app}))
  BY FetchedLists
<1>. DEFINE fetched == [app \in apps |-> Trail!GetAuditTimeline(app, perApp)]
            deploys == [app \in apps |-> Trail!AppDeploys(app, perApp)]
<1>2. DOMAIN fetched = apps /\ \A app \in apps : fetched[app] = Trail!GetAuditTimeline(app, perApp)
  OBVIOUS
<1>3. DOMAIN deploys = apps /\ \A app \in apps : deploys[app] = Trail!AppDeploys(app, perApp)
  OBVIOUS
<1>4. Picks(Trail!collectAuditEventsForApps(fetched, limit), OfApps(apps))
  <2>. HIDE DEF fetched
  <2>1. \A app \in apps : Picks(fetched[app], OfApps({app}))
    BY <1>1, <1>2
  <2>. QED
    BY <1>2, <2>1, CollectedList
<1>5. Picks(Trail!collectAuditEventsForApps(deploys, limit), OfApps(apps))
  <2>. HIDE DEF deploys
  <2>1. \A app \in apps : Picks(deploys[app], OfApps({app}))
    BY <1>1, <1>3
  <2>. QED
    BY <1>3, <2>1, CollectedList
<1>. QED
  BY <1>4, <1>5 DEF Trail!getAuditTimelineForApps, Trail!getAuditDeploysForApps

(***************************************************************************)
(* Answers.                                                                *)
(***************************************************************************)
AnswerWithin(reply, ids) ==
    /\ reply = [status |-> reply.status, events |-> reply.events, deploys |-> reply.deploys]
    /\ Within(reply.events, ids) /\ Within(reply.deploys, ids)

LEMMA NothingIsWithin == \A ids : Within(<<>>, ids)
<1>1. Trail!ToSet(<<>>) = {}
  BY DEF Trail!ToSet
<1>. QED
  BY <1>1 DEF Within

LEMMA AnswersWithin ==
    ASSUME NEW ids
    PROVE  /\ \A events, deploys : Within(events, ids) /\ Within(deploys, ids)
                                     => AnswerWithin(Trail!Answer(events, deploys), ids)
           /\ AnswerWithin(Trail!Empty, ids) /\ AnswerWithin(Trail!Failed, ids)
           /\ AnswerWithin(Trail!AccessDenied, ids) /\ AnswerWithin(Trail!NotFound, ids)
<1>1. ASSUME NEW status, NEW events, NEW deploys, Within(events, ids), Within(deploys, ids)
      PROVE  AnswerWithin([status |-> status, events |-> events, deploys |-> deploys], ids)
  BY <1>1 DEF AnswerWithin
<1>2. Trail!Empty = [status |-> "ok", events |-> <<>>, deploys |-> <<>>]
  BY DEF Trail!Empty, Trail!Answer
<1>3. ASSUME NEW status
      PROVE  AnswerWithin([Trail!Empty EXCEPT !.status = status], ids)
  <2>1. [Trail!Empty EXCEPT !.status = status]
          = [status |-> status, events |-> <<>>, deploys |-> <<>>]
    BY <1>2
  <2>. QED
    BY <1>1, <2>1, NothingIsWithin
<1>4. AnswerWithin(Trail!Empty, ids)
  BY <1>1, <1>2, NothingIsWithin
<1>5. AnswerWithin(Trail!Failed, ids)
  BY <1>3 DEF Trail!Failed
<1>6. AnswerWithin(Trail!AccessDenied, ids)
  BY <1>3 DEF Trail!AccessDenied
<1>7. AnswerWithin(Trail!NotFound, ids)
  BY <1>3, Zenon DEF Trail!NotFound
<1>8. ASSUME NEW events, NEW deploys, Within(events, ids), Within(deploys, ids)
      PROVE  AnswerWithin(Trail!Answer(events, deploys), ids)
  BY <1>1, <1>8 DEF Trail!Answer
<1>. QED
  BY <1>4, <1>5, <1>6, <1>7, <1>8

LEMMA PluginWithin ==
    ASSUME NEW ids, NEW uninstalled, NEW reply,
           AnswerWithin(uninstalled, ids), AnswerWithin(reply, ids)
    PROVE  AnswerWithin(Trail!WithPlugin(uninstalled, reply), ids)
BY AnswersWithin DEF Trail!WithPlugin

LEMMA SourcesWithin ==
    ASSUME NEW reply, NEW ids, AnswerWithin(reply, ids)
    PROVE  Trail!SourcesIn(reply) \subseteq ids
BY DEF AnswerWithin, Within, Trail!SourcesIn

\* An app the user may not see is refused, whatever the answer about it would be.
LEMMA AccessRequired ==
    ASSUME ~reader.admin, NEW ids, NEW app, NEW reply,
           app \in reader.apps => AnswerWithin(reply, ids),
           trouble = "apps" => app \in reader.apps
    PROVE  AnswerWithin(Trail!requireAuditAppAccess(app, reply), ids)
<1>1. CASE app \in reader.apps
  <2>1. reply = [status |-> reply.status, events |-> reply.events, deploys |-> reply.deploys]
    BY <1>1 DEF AnswerWithin
  <2>2. [reply EXCEPT !.status = "error"]
          = [status |-> "error", events |-> reply.events, deploys |-> reply.deploys]
    BY <2>1
  <2>3. AnswerWithin([reply EXCEPT !.status = "error"], ids)
    BY <1>1, <2>2 DEF AnswerWithin
  <2>. QED
    BY <1>1, <2>3, AnswersWithin DEF Trail!requireAuditAppAccess
<1>2. CASE app \notin reader.apps
  BY <1>2, AnswersWithin DEF Trail!requireAuditAppAccess, Trail!AllowedAppsFail, Trail!MayBeShown
<1>. QED
  BY <1>1, <1>2

LEMMA ShownWithin ==
    ASSUME LogInv, NEW ids, NEW event \in Numbered(ids),
           event.app # Trail!Host => OfApps({event.app}) \subseteq Numbered(ids)
    PROVE  AnswerWithin(Trail!ShowEvent(event), ids)
<1>1. event \in LogEvents /\ event.id \in ids /\ event \in Forms(event, ids) /\ Tells(event, ids)
  BY EventsSortable, LoggedForm DEF Numbered
<1>. DEFINE whole == Trail!enrichAuditEventWithAppTimeline(event)
<1>2. whole.id \in ids /\ Tells(whole, ids)
  <2>1. CASE event.app = Trail!Host \/ trouble = "timeline"
    BY <1>1, <2>1 DEF Trail!enrichAuditEventWithAppTimeline
  <2>2. CASE ~(event.app = Trail!Host \/ trouble = "timeline")
    <3>1. Page \in Nat
      BY AuditAssumption
    <3>2. Picks(Trail!GetAuditTimeline(event.app, Page), Numbered(ids))
      BY <2>2, <3>1, FetchedLists, PicksMore
    <3>3. Knows(Trail!GetAuditTimeline(event.app, Page), ids)
      BY <3>2, PickedKnown
    <3>4. whole \in Forms(event, ids)
      BY <1>1, <2>2, <3>3, EnrichedForm DEF Trail!enrichAuditEventWithAppTimeline
    <3>. QED
      BY <1>1, <3>4, FormFields
  <2>. QED
    BY <2>1, <2>2
<1>. HIDE DEF whole
<1>3. Trail!ToSet(<<whole>>) = {whole}
  BY DEF Trail!ToSet
<1>4. Within(<<whole>>, ids)
  BY <1>2, <1>3, ToldIsWithin
<1>. QED
  BY <1>4, AnswersWithin, NothingIsWithin DEF Trail!ShowEvent, whole
-----------------------------------------------------------------------------
(***************************************************************************)
(* What a user may be shown: events of the own apps and, on the page of a  *)
(* service, events of the host about it.                                   *)
(***************************************************************************)
Own == {i \in DOMAIN log : log[i].app \in reader.apps}

OwnOrService == {i \in DOMAIN log : \/ log[i].app \in reader.apps
                                    \/ log[i].app = Trail!Host /\ log[i].mentions}

LEMMA OwnEvents ==
    ASSUME LogInv
    PROVE  /\ Numbered(Own) = OfApps(reader.apps)
           /\ OfApps(reader.apps) \subseteq Numbered(OwnOrService)
           /\ \A e \in Trail!Events :
                 e.app = Trail!Host /\ e.mentions => e \in Numbered(OwnOrService)
           /\ Trail!Host \notin reader.apps
           /\ Page \in Nat /\ PerApp \in Nat /\ Shown \in Nat /\ Context \in Nat
           /\ Trail!NoLimit \in Nat
<1>1. \A e \in Trail!Events : e.id \in DOMAIN log /\ log[e.id] = e
  BY EventsSortable
<1>2. Trail!Host \notin reader.apps
  BY AuditAssumption DEF LogInv
<1>3. /\ Page \in Nat /\ PerApp \in Nat /\ Shown \in Nat /\ Context \in Nat
      /\ Trail!NoLimit \in Nat
  BY AuditAssumption DEF Trail!NoLimit
<1>4. Numbered(Own) = OfApps(reader.apps)
  BY <1>1 DEF Numbered, Own, OfApps
<1>5. OfApps(reader.apps) \subseteq Numbered(OwnOrService)
  BY <1>1 DEF Numbered, OwnOrService, OfApps
<1>6. \A e \in Trail!Events :
         e.app = Trail!Host /\ e.mentions => e \in Numbered(OwnOrService)
  BY <1>1 DEF Numbered, OwnOrService
<1>. QED
  BY <1>2, <1>3, <1>4, <1>5, <1>6

LEMMA OverviewScoped ==
    ASSUME LogInv, ~reader.admin
    PROVE  AnswerWithin(Trail!handleAuditOverview, Own)
<1>. DEFINE recent   == Trail!getAuditTimelineForApps(reader.apps, PerApp, Shown)
            deploys  == Trail!getAuditDeploysForApps(reader.apps, PerApp, Shown)
            timeline == Trail!getAuditTimelineForApps(reader.apps, Context, Trail!NoLimit)
<1>1. /\ Picks(recent, Numbered(Own)) /\ Picks(deploys, Numbered(Own))
      /\ Picks(timeline, Numbered(Own))
  BY OwnEvents, ListsOfApps
<1>. HIDE DEF recent, deploys, timeline
<1>2. Knows(timeline, Own)
  BY <1>1, PickedKnown
<1>3. AnswerWithin(Trail!Answer(Trail!enrichAuditEventsWithTimeline(recent, timeline),
                                Trail!enrichAuditEventsWithTimeline(deploys, timeline)), Own)
  BY <1>1, <1>2, EnrichedKnown, AnswersWithin
<1>4. AnswerWithin(Trail!OverviewOfApps, Own)
  BY <1>3, AnswersWithin DEF Trail!OverviewOfApps, recent, deploys, timeline
<1>. QED
  BY <1>4, AnswersWithin, PluginWithin DEF Trail!handleAuditOverview

LEMMA EventsScoped ==
    ASSUME LogInv, ~reader.admin, NEW e \in Trail!Events
    PROVE  /\ AnswerWithin(Trail!handleAuditEvent(e), Own)
           /\ \A app \in reader.apps : AnswerWithin(Trail!handleAppAuditEvent(app, e), Own)
           /\ AnswerWithin(Trail!handleServiceAuditEvent(e), OwnOrService)
<1>1. e.app \in reader.apps => AnswerWithin(Trail!ShowEvent(e), Own)
  <2>1. e.app \in reader.apps => e \in Numbered(Own) /\ OfApps({e.app}) \subseteq Numbered(Own)
    BY OwnEvents DEF OfApps
  <2>. QED
    BY <2>1, ShownWithin
<1>2. e.app \in reader.apps \/ (e.app = Trail!Host /\ e.mentions)
         => AnswerWithin(Trail!ShowEvent(e), OwnOrService)
  <2>1. e.app \in reader.apps => /\ e \in Numbered(OwnOrService)
                                 /\ OfApps({e.app}) \subseteq Numbered(OwnOrService)
    BY OwnEvents DEF OfApps
  <2>2. e.app = Trail!Host /\ e.mentions => e \in Numbered(OwnOrService)
    BY OwnEvents
  <2>. QED
    BY <2>1, <2>2, ShownWithin
<1>3. AnswerWithin(Trail!handleAuditEvent(e), Own)
  <2>. DEFINE reply ==
         IF trouble = "show" THEN Trail!Failed
         ELSE IF ~reader.admin /\ e.app = Trail!Host THEN Trail!AccessDenied
         ELSE IF Trail!AllowedAppsFail THEN Trail!Failed
         ELSE IF ~Trail!MayBeShown(e.app) THEN Trail!AccessDenied
         ELSE Trail!ShowEvent(e)
  <2>1. AnswerWithin(reply, Own)
    BY <1>1, AnswersWithin DEF Trail!MayBeShown
  <2>2. Trail!handleAuditEvent(e) = Trail!WithPlugin(Trail!NotFound, reply)
    BY DEF Trail!handleAuditEvent
  <2>. HIDE DEF reply
  <2>. QED
    BY <2>1, <2>2, AnswersWithin, PluginWithin
<1>4. ASSUME NEW app \in reader.apps
      PROVE  AnswerWithin(Trail!handleAppAuditEvent(app, e), Own)
  <2>. DEFINE reply == IF trouble = "show" THEN Trail!Failed
                        ELSE IF e.app # app THEN Trail!NotFound
                        ELSE Trail!ShowEvent(e)
  <2>1. AnswerWithin(reply, Own)
    BY <1>1, AnswersWithin
  <2>2. Trail!handleAppAuditEvent(app, e) = Trail!WithPlugin(Trail!NotFound, reply)
    BY DEF Trail!handleAppAuditEvent
  <2>. HIDE DEF reply
  <2>. QED
    BY <2>1, <2>2, AnswersWithin, PluginWithin
<1>5. AnswerWithin(Trail!handleServiceAuditEvent(e), OwnOrService)
  <2>. DEFINE reply ==
         IF trouble \in {"links", "show"} \/ Trail!AllowedAppsFail THEN Trail!Failed
         ELSE IF \/ e.app = Trail!Host /\ ~e.mentions
                 \/ e.app # Trail!Host /\ e.app \notin Trail!LinkedApps THEN Trail!NotFound
         ELSE Trail!ShowEvent(e)
  <2>1. AnswerWithin(reply, OwnOrService)
    BY <1>2, AnswersWithin DEF Trail!LinkedApps, Trail!MayBeShown
  <2>2. Trail!handleServiceAuditEvent(e) = Trail!WithPlugin(Trail!NotFound, reply)
    BY DEF Trail!handleServiceAuditEvent
  <2>. HIDE DEF reply
  <2>. QED
    BY <2>1, <2>2, AnswersWithin, PluginWithin
<1>. QED
  BY <1>3, <1>4, <1>5

LEMMA AppScoped ==
    ASSUME LogInv, ~reader.admin, NEW app, trouble = "apps" => app \in reader.apps
    PROVE  AnswerWithin(Trail!handleAppAudit(app), Own)
<1>. DEFINE timeline == Trail!GetAuditTimeline(app, Page)
            deploys  == Trail!AppDeploys(app, Page)
            enriched == Trail!enrichAuditEventsWithTimeline(timeline, timeline)
            whole == IF trouble \in {"timeline", "deploys"} THEN Trail!Failed
                     ELSE Trail!Answer(enriched,
                              Trail!enrichAuditEventsWithTimeline(deploys, enriched))
            reply == Trail!WithPlugin(Trail!Empty, whole)
<1>1. ASSUME app \in reader.apps PROVE AnswerWithin(reply, Own)
  <2>1. OfApps({app}) \subseteq Numbered(Own) /\ Page \in Nat
    BY <1>1, OwnEvents DEF OfApps
  <2>2. Picks(timeline, OfApps({app})) /\ Picks(deploys, OfApps({app}))
    BY <2>1, FetchedLists
  <2>. HIDE DEF timeline, deploys
  <2>3. Picks(timeline, Numbered(Own)) /\ Picks(deploys, Numbered(Own))
    BY <2>1, <2>2, PicksMore
  <2>4. Knows(timeline, Own)
    BY <2>3, PickedKnown
  <2>5. Knows(enriched, Own) /\ Within(enriched, Own)
    BY <2>3, <2>4, EnrichedKnown
  <2>6. Within(Trail!enrichAuditEventsWithTimeline(deploys, enriched), Own)
    BY <2>3, <2>5, EnrichedKnown
  <2>. HIDE DEF enriched
  <2>7. AnswerWithin(whole, Own)
    BY <2>5, <2>6, AnswersWithin
  <2>. HIDE DEF whole
  <2>. QED
    BY <2>7, AnswersWithin, PluginWithin
<1>2. Trail!handleAppAudit(app) = Trail!requireAuditAppAccess(app, reply)
  BY DEF Trail!handleAppAudit
<1>. HIDE DEF reply
<1>. QED
  BY <1>1, <1>2, AccessRequired

LEMMA PickedWithin ==
    ASSUME LogInv, NEW ids, NEW events \in SUBSET Numbered(ids)
    PROVE  /\ Picks(Trail!NewestFirst(events), Numbered(ids))
           /\ Knows(Trail!NewestFirst(events), ids) /\ Within(Trail!NewestFirst(events), ids)
<1>1. Sortable(events)
  BY EventsSortable, PartSortable DEF Numbered
<1>2. Picks(Trail!NewestFirst(events), Numbered(ids))
  BY <1>1, PicksNewest, PicksMore
<1>. QED
  BY <1>2, PickedKnown

LEMMA AppExportScoped ==
    ASSUME LogInv, ~reader.admin, NEW app, trouble = "apps" => app \in reader.apps
    PROVE  AnswerWithin(Trail!handleAppAuditExport(app), Own)
<1>. DEFINE reply == IF trouble \in {"plugin-status", "not-installed", "export"}
                        THEN Trail!Failed
                      ELSE Trail!Answer(Trail!NewestFirst(Trail!ExportAuditEvents(app)), <<>>)
<1>1. ASSUME app \in reader.apps PROVE AnswerWithin(reply, Own)
  <2>1. Trail!ExportAuditEvents(app) \in SUBSET Numbered(Own)
    BY <1>1, OwnEvents DEF Trail!ExportAuditEvents, OfApps
  <2>2. Within(Trail!NewestFirst(Trail!ExportAuditEvents(app)), Own)
    BY <2>1, PickedWithin
  <2>. QED
    BY <2>2, NothingIsWithin, AnswersWithin
<1>2. Trail!handleAppAuditExport(app) = Trail!requireAuditAppAccess(app, reply)
  BY DEF Trail!handleAppAuditExport
<1>. HIDE DEF reply
<1>. QED
  BY <1>1, <1>2, AccessRequired

\* The events of the linked apps that the user may see, and those of the host about the service.
LEMMA ServiceEvents ==
    ASSUME LogInv, ~reader.admin
    PROVE  /\ OfApps(Trail!LinkedApps) \subseteq Numbered(OwnOrService)
           /\ \A list : Trail!ToSet(list) \subseteq Trail!Events
                          => Trail!HostEvents(list) \subseteq Numbered(OwnOrService)
<1>1. OfApps(Trail!LinkedApps) \subseteq OfApps(reader.apps)
  BY DEF OfApps, Trail!LinkedApps, Trail!MayBeShown
<1>2. ASSUME NEW list, Trail!ToSet(list) \subseteq Trail!Events,
             NEW e \in Trail!HostEvents(list)
      PROVE  e \in Numbered(OwnOrService)
  BY <1>2, OwnEvents DEF Trail!HostEvents, Trail!MayBeShown, OfApps
<1>. QED
  BY <1>1, <1>2, OwnEvents

LEMMA ServiceScoped ==
    ASSUME LogInv, ~reader.admin
    PROVE  AnswerWithin(Trail!handleServiceAudit, OwnOrService)
<1>. DEFINE ofApps  == Trail!getAuditTimelineForApps(Trail!LinkedApps, Page, Trail!NoLimit)
            allDeploys == Trail!getAuditDeploysForApps(Trail!LinkedApps, Page, Trail!NoLimit)
            recent  == Trail!GetAuditRecent(Page)
            events  == Trail!ToSet(ofApps)
                         \cup IF trouble = "recent" THEN {} ELSE Trail!HostEvents(recent)
            timeline == Trail!enrichAuditEventsWithTimeline(Trail!ServiceTimeline,
                                                            Trail!ServiceTimeline)
            whole == IF \/ trouble = "links" \/ Trail!AllowedAppsFail
                        \/ Trail!LinkedApps # {} /\ trouble = "timeline" THEN Trail!Failed
                     ELSE Trail!Answer(timeline,
                              Trail!enrichAuditEventsWithTimeline(Trail!ServiceDeploys, timeline))
<1>1. Sortable(Trail!Events) /\ Page \in Nat /\ Trail!NoLimit \in Nat
  BY EventsSortable, OwnEvents
<1>2. Picks(ofApps, OfApps(Trail!LinkedApps)) /\ Picks(allDeploys, OfApps(Trail!LinkedApps))
  BY <1>1, ListsOfApps
<1>3. Picks(recent, Trail!Events)
  BY <1>1, FetchedLists
<1>. HIDE DEF ofApps, allDeploys, recent
<1>4. Sortable(OfApps(Trail!LinkedApps))
  BY <1>1, PartSortable DEF OfApps
<1>5. /\ Trail!ToSet(ofApps) \subseteq OfApps(Trail!LinkedApps)
      /\ Trail!ToSet(allDeploys) \subseteq OfApps(Trail!LinkedApps)
      /\ Trail!ToSet(recent) \subseteq Trail!Events
  BY <1>1, <1>2, <1>3, <1>4, PickedSortable
<1>6. Trail!HostEvents(recent) \subseteq Numbered(OwnOrService)
  BY <1>5, ServiceEvents
<1>7. events \in SUBSET Numbered(OwnOrService)
  BY <1>5, <1>6, ServiceEvents
<1>8. Trail!ServiceTimeline = Trail!NewestFirst(events)
  BY DEF Trail!ServiceTimeline, ofApps, recent
<1>. HIDE DEF events
<1>9. /\ Picks(Trail!ServiceTimeline, Numbered(OwnOrService))
      /\ Knows(Trail!ServiceTimeline, OwnOrService)
  BY <1>7, <1>8, PickedWithin
<1>10. Picks(Trail!ServiceDeploys, Numbered(OwnOrService))
  <2>1. Picks(<<>>, Numbered(OwnOrService))
    BY DEF Picks
  <2>2. {e \in Trail!ToSet(allDeploys) : e.mentions} \in SUBSET Numbered(OwnOrService)
    BY <1>5, ServiceEvents
  <2>3. Picks(Trail!Related(allDeploys), Numbered(OwnOrService))
    BY <2>2, PickedWithin DEF Trail!Related
  <2>. QED
    BY <2>1, <2>3 DEF Trail!ServiceDeploys, allDeploys
<1>11. Knows(timeline, OwnOrService) /\ Within(timeline, OwnOrService)
  BY <1>9, EnrichedKnown
<1>. HIDE DEF timeline
<1>12. Within(Trail!enrichAuditEventsWithTimeline(Trail!ServiceDeploys, timeline), OwnOrService)
  BY <1>10, <1>11, EnrichedKnown
<1>13. AnswerWithin(whole, OwnOrService)
  BY <1>11, <1>12, AnswersWithin
<1>14. Trail!handleServiceAudit = Trail!WithPlugin(Trail!Empty, whole)
  BY DEF Trail!handleServiceAudit, timeline
<1>. HIDE DEF whole
<1>. QED
  BY <1>13, <1>14, AnswersWithin, PluginWithin

LEMMA ServiceExportScoped ==
    ASSUME LogInv, ~reader.admin
    PROVE  AnswerWithin(Trail!handleServiceAuditExport, OwnOrService)
<1>. DEFINE ofApps == UNION {Trail!ExportAuditEvents(app) : app \in Trail!LinkedApps}
            all  == Trail!NewestFirst(Trail!ExportAuditEvents(Trail!Host))
            sent == IF trouble = "export" THEN {}
                    ELSE {e \in ofApps : e.mentions} \cup Trail!HostEvents(all)
<1>1. Trail!LinkedApps \subseteq reader.apps
  BY DEF Trail!LinkedApps, Trail!MayBeShown
<1>2. ofApps \subseteq Numbered(OwnOrService)
  BY <1>1, OwnEvents DEF Trail!ExportAuditEvents, OfApps
<1>3. Trail!ToSet(all) \subseteq Trail!Events
  <2>1. Sortable(Trail!Events) /\ Trail!ExportAuditEvents(Trail!Host) = Trail!Events
    BY EventsSortable DEF Trail!ExportAuditEvents
  <2>2. Picks(all, Trail!Events)
    BY <2>1, PicksNewest
  <2>. HIDE DEF all
  <2>. QED
    BY <2>1, <2>2, PickedSortable
<1>4. Trail!HostEvents(all) \subseteq Numbered(OwnOrService)
  BY <1>3, ServiceEvents
<1>5. sent \in SUBSET Numbered(OwnOrService)
  BY <1>2, <1>4
<1>. HIDE DEF ofApps, all
<1>6. Within(Trail!NewestFirst(sent), OwnOrService)
  <2>. HIDE DEF sent
  <2>. QED
    BY <1>5, PickedWithin
<1>7. AnswerWithin(Trail!Answer(Trail!NewestFirst(sent), <<>>), OwnOrService)
  <2>. HIDE DEF sent
  <2>. QED
    BY <1>6, NothingIsWithin, AnswersWithin
<1>8. \/ Trail!handleServiceAuditExport = Trail!Failed
      \/ Trail!handleServiceAuditExport = Trail!Answer(Trail!NewestFirst(sent), <<>>)
  BY DEF Trail!handleServiceAuditExport, ofApps, all
<1>. QED
  BY <1>7, <1>8, AnswersWithin

\* The answers are what AuditIsScoped asks of them.
LEMMA ScopedIs == LogInv => AuditIsScoped
<1>. SUFFICES ASSUME LogInv, ~reader.admin PROVE AuditIsScoped
  BY DEF AuditIsScoped, Trail!AuditIsScoped
<1>1. ASSUME NEW reply, AnswerWithin(reply, Own) PROVE Trail!OfOwnApps(reply)
  BY <1>1, SourcesWithin DEF Trail!OfOwnApps, Own
<1>2. ASSUME NEW reply, AnswerWithin(reply, OwnOrService)
      PROVE  Trail!OfOwnAppsOrService(reply)
  BY <1>2, SourcesWithin DEF Trail!OfOwnAppsOrService, OwnOrService
<1>3. Trail!OfOwnApps(Trail!handleAuditOverview)
  BY <1>1, OverviewScoped
<1>4. ASSUME NEW e \in Trail!Events
      PROVE  /\ Trail!OfOwnApps(Trail!handleAuditEvent(e))
             /\ \A app \in reader.apps : Trail!OfOwnApps(Trail!handleAppAuditEvent(app, e))
             /\ Trail!OfOwnAppsOrService(Trail!handleServiceAuditEvent(e))
  BY <1>1, <1>2, EventsScoped
<1>5. ASSUME NEW app \in IF trouble = "apps" THEN reader.apps ELSE Apps
      PROVE  /\ Trail!OfOwnApps(Trail!handleAppAudit(app))
             /\ Trail!OfOwnApps(Trail!handleAppAuditExport(app))
  <2>1. trouble = "apps" => app \in reader.apps
    BY <1>5
  <2>. QED
    BY <1>1, <2>1, AppScoped, AppExportScoped
<1>6. /\ Trail!OfOwnAppsOrService(Trail!handleServiceAudit)
      /\ Trail!OfOwnAppsOrService(Trail!handleServiceAuditExport)
  BY <1>2, ServiceScoped, ServiceExportScoped
<1>. QED
  BY <1>3, <1>4, <1>5, <1>6 DEF AuditIsScoped, Trail!AuditIsScoped

(***************************************************************************)
(* Whoever is not an administrator is shown nothing of the audit log but   *)
(* events of the own apps and, on the page of a service, events of the     *)
(* host that mention it; and what has been filled into a shown event, the  *)
(* person and the details, comes from such events.  That is so for all     *)
(* events that are logged, all limits of the lists, all apps of the user   *)
(* and all links of the service, whichever call to dokku fails             *)
(* (handleAuditOverview, handleAuditEvent, handleAppAudit,                 *)
(* handleAppAuditEvent, handleAppAuditExport, handleServiceAudit,          *)
(* handleServiceAuditEvent, handleServiceAuditExport).                     *)
(***************************************************************************)
THEOREM AuditStaysScoped == Trail!Spec => []AuditIsScoped
<1>1. Trail!Init => LogInv
  BY AuditAssumption DEF Trail!Init, LogInv
<1>2. LogInv /\ [Trail!Next]_(Trail!vars) => LogInv'
  BY LogGrows
<1>3. LogInv => AuditIsScoped
  BY ScopedIs
<1>. QED
  BY <1>1, <1>2, <1>3, PTL DEF Trail!Spec
-----------------------------------------------------------------------------
(***************************************************************************)
(* Lists that have the newest first.  Two of the same events are the same. *)
(***************************************************************************)
Falls(list, n, Z) ==
    /\ n \in Nat /\ list \in [1 .. n -> Z]
    /\ \A i, j \in 1 .. n : i < j => Trail!Newer(list[i], list[j])

Covers(list, n, events) == \A e \in events : \E i \in 1 .. n : list[i] = e

LEMMA NewerIsOrder ==
    ASSUME NEW Z, Sortable(Z)
    PROVE  \A x, y \in Z : /\ ~(Trail!Newer(x, y) /\ Trail!Newer(y, x))
                           /\ x # y => Trail!Newer(x, y) \/ Trail!Newer(y, x)
BY DEF Sortable, Trail!Newer

\* An event stands behind at least the events it stands behind in a list of some of them.
LEMMA PlaceGrows ==
    ASSUME NEW Z, Sortable(Z), NEW s, NEW t, NEW n, NEW m, Falls(s, n, Z), Falls(t, m, Z),
           \A i \in 1 .. n : \E j \in 1 .. m : s[i] = t[j],
           NEW i \in 1 .. n, NEW j \in 1 .. m, s[i] = t[j]
    PROVE  i <= j
<1>. DEFINE Wrong == {p \in 1 .. n : \E q \in 1 .. m : s[p] = t[q] /\ q < p}
<1>1. SUFFICES ASSUME Wrong # {} PROVE FALSE
  BY DEF Falls
<1>2. PICK p \in Wrong : \A k \in Wrong : p <= k
  <2>1. Wrong \in SUBSET Nat
    BY DEF Falls
  <2>. HIDE DEF Wrong
  <2>. QED
    BY <1>1, <2>1, Least
<1>3. PICK q \in 1 .. m : s[p] = t[q] /\ q < p
  BY <1>2
<1>4. p - 1 \in 1 .. n /\ p \in 1 .. n /\ p - 1 < p
  BY <1>2, <1>3 DEF Falls
<1>5. PICK r \in 1 .. m : s[p - 1] = t[r]
  BY <1>4
<1>6. Trail!Newer(s[p - 1], s[p])
  BY <1>4 DEF Falls
<1>7. t[r] \in Z /\ t[q] \in Z /\ Trail!Newer(t[r], t[q])
  BY <1>3, <1>5, <1>6 DEF Falls
<1>8. r < q
  <2>1. r = q \/ q < r \/ r < q
    BY <1>3, <1>5 DEF Falls
  <2>2. q < r => Trail!Newer(t[q], t[r])
    BY <1>3, <1>5 DEF Falls
  <2>. QED
    BY <1>7, <2>1, <2>2, NewerIsOrder
<1>9. r < p - 1
  BY <1>3, <1>5, <1>8 DEF Falls
<1>10. p - 1 \in Wrong
  BY <1>4, <1>5, <1>9
<1>. QED
  BY <1>2, <1>4, <1>10 DEF Falls

LEMMA OneList ==
    ASSUME NEW Z, Sortable(Z), NEW s, NEW t, NEW n, NEW m, Falls(s, n, Z), Falls(t, m, Z),
           \A i \in 1 .. n : \E j \in 1 .. m : s[i] = t[j],
           \A j \in 1 .. m : \E i \in 1 .. n : t[j] = s[i]
    PROVE  n = m /\ s = t
<1>1. \A i \in 1 .. n : i \in 1 .. m /\ s[i] = t[i]
  <2>. SUFFICES ASSUME NEW i \in 1 .. n PROVE i \in 1 .. m /\ s[i] = t[i]
    OBVIOUS
  <2>1. PICK j \in 1 .. m : s[i] = t[j]
    OBVIOUS
  <2>2. i <= j
    BY <2>1, PlaceGrows
  <2>3. j <= i
    BY <2>1, PlaceGrows
  <2>. QED
    BY <2>1, <2>2, <2>3 DEF Falls
<1>2. \A j \in 1 .. m : j \in 1 .. n
  <2>. SUFFICES ASSUME NEW j \in 1 .. m PROVE j \in 1 .. n
    OBVIOUS
  <2>1. PICK i \in 1 .. n : t[j] = s[i]
    OBVIOUS
  <2>2. i <= j
    BY <2>1, PlaceGrows
  <2>3. j <= i
    BY <2>1, PlaceGrows
  <2>. QED
    BY <2>1, <2>2, <2>3 DEF Falls
<1>3. n \in Nat /\ m \in Nat
  BY DEF Falls
<1>4. n = m
  <2>1. /\ n > 0 => n \in 1 .. n
        /\ m > 0 => m \in 1 .. m
    BY <1>3
  <2>2. /\ n > 0 => n \in 1 .. m
        /\ m > 0 => m \in 1 .. n
    BY <1>1, <1>2, <2>1
  <2>3. n <= m
    BY <1>3, <2>2
  <2>4. m <= n
    BY <1>3, <2>2
  <2>. QED
    BY <1>3, <2>3, <2>4
<1>5. s = t
  BY <1>1, <1>4 DEF Falls
<1>. QED
  BY <1>4, <1>5

LEMMA NewestFalls ==
    ASSUME NEW Z, Sortable(Z)
    PROVE  /\ Falls(Trail!NewestFirst(Z), Cardinality(Z), Z)
           /\ Covers(Trail!NewestFirst(Z), Cardinality(Z), Z)
           /\ Trail!ToSet(Trail!NewestFirst(Z)) = Z
<1>1. PICK n, list : /\ n = Cardinality(Z) /\ list = Trail!NewestFirst(Z)
                     /\ Falls(list, n, Z)
  BY Listed DEF Falls
<1>2. Covers(list, n, Z)
  <2>1. n \in Nat /\ list \in [1 .. n -> Z] /\ IsFiniteSet(Z)
    BY <1>1 DEF Falls, Sortable
  <2>2. \A i, j \in 1 .. n : i < j => list[i] # list[j]
    BY <1>1, NewerIsOrder DEF Falls
  <2>. QED
    BY <1>1, <2>1, <2>2, NoneMissing DEF Covers
<1>3. Trail!ToSet(list) = Z
  BY <1>1, <1>2 DEF Trail!ToSet, Falls, Covers
<1>. QED
  BY <1>1, <1>2, <1>3

\* If the first events of a list are in a set of them, they come first there.
LEMMA SameFirst ==
    ASSUME NEW Z, Sortable(Z), NEW some \in SUBSET Z, NEW limit \in Nat,
           \A i \in 1 .. Cardinality(Z) : i <= limit => Trail!NewestFirst(Z)[i] \in some
    PROVE  Trail!FirstOf(Trail!NewestFirst(some), limit)
             = Trail!FirstOf(Trail!NewestFirst(Z), limit)
<1>1. PICK n, s : /\ n = Cardinality(Z) /\ s = Trail!NewestFirst(Z)
                  /\ Falls(s, n, Z) /\ Covers(s, n, Z)
  BY NewestFalls
<1>2. PICK m, t : /\ m = Cardinality(some) /\ t = Trail!NewestFirst(some)
                  /\ Falls(t, m, some) /\ Covers(t, m, some)
  BY NewestFalls, PartSortable
<1>3. Falls(t, m, Z) /\ n \in Nat /\ m \in Nat
  BY <1>1, <1>2 DEF Falls
<1>4. \A j \in 1 .. m : \E i \in 1 .. n : t[j] = s[i]
  BY <1>1, <1>3 DEF Falls, Covers
<1>. DEFINE k == IF n < limit THEN n ELSE limit
            first == [i \in 1 .. k |-> s[i]]
<1>5. k \in Nat /\ k <= n /\ k <= limit
  BY <1>3
<1>6. Falls(first, k, Z)
  BY <1>1, <1>5 DEF Falls
<1>7. \A i \in 1 .. k : \E j \in 1 .. m : first[i] = t[j]
  <2>. SUFFICES ASSUME NEW i \in 1 .. k PROVE \E j \in 1 .. m : first[i] = t[j]
    OBVIOUS
  <2>1. i \in 1 .. n /\ i <= limit /\ first[i] = s[i]
    BY <1>3, <1>5
  <2>2. s[i] \in some
    BY <1>1, <2>1
  <2>. QED
    BY <1>2, <2>1, <2>2 DEF Covers
<1>8. ASSUME NEW i \in 1 .. k PROVE i \in 1 .. m /\ t[i] = s[i]
  <2>1. PICK j \in 1 .. m : first[i] = t[j]
    BY <1>7
  <2>2. i <= j
    <3>. HIDE DEF first, k
    <3>. QED
      BY <1>2, <1>3, <1>6, <1>7, <1>8, <2>1, PlaceGrows
  <2>3. s[i] = t[j] /\ i \in 1 .. n
    BY <1>3, <1>5, <1>8, <2>1
  <2>4. j <= i
    <3>1. t[j] = s[i]
      BY <2>3
    <3>. HIDE DEF first, k
    <3>. QED
      BY <1>1, <1>3, <1>4, <2>1, <2>3, <3>1, PlaceGrows
  <2>. QED
    BY <1>3, <1>5, <1>8, <2>1, <2>2, <2>3, <2>4
<1>9. m <= n
  <2>1. CASE m > 0
    <3>1. m \in 1 .. m
      BY <1>3, <2>1
    <3>2. PICK i \in 1 .. n : t[m] = s[i]
      BY <1>4, <3>1
    <3>3. m <= i
      BY <1>1, <1>3, <1>4, <3>1, <3>2, PlaceGrows
    <3>. QED
      BY <1>3, <3>2, <3>3
  <2>. QED
    BY <1>3, <2>1
<1>10. k <= m
  <2>1. k > 0 => k \in 1 .. k
    BY <1>5
  <2>2. k > 0 => k \in 1 .. m
    BY <1>8, <2>1
  <2>. QED
    BY <1>3, <1>5, <2>2
<1>11. (IF m < limit THEN m ELSE limit) = k
  BY <1>3, <1>9, <1>10
<1>12. \A i \in 1 .. k : t[i] = s[i]
  BY <1>8
<1>. HIDE DEF k, first
<1>13. /\ s \in Seq(Z) /\ t \in Seq(Z) /\ Len(s) = n /\ Len(t) = m
  BY <1>1, <1>3 DEF Falls
<1>14. SubSeq(t, 1, k) = SubSeq(s, 1, k)
  BY <1>5, <1>10, <1>12, <1>13
<1>. QED
  BY <1>1, <1>2, <1>11, <1>13, <1>14 DEF Trail!FirstOf, k

LEMMA FirstHas ==
    ASSUME NEW Z, Sortable(Z), NEW limit \in Nat, NEW p \in 1 .. Cardinality(Z), p <= limit
    PROVE  Trail!NewestFirst(Z)[p] \in Trail!ToSet(Trail!FirstOf(Trail!NewestFirst(Z), limit))
<1>1. PICK n, s : n = Cardinality(Z) /\ s = Trail!NewestFirst(Z) /\ Falls(s, n, Z)
  BY NewestFalls
<1>. DEFINE k == IF n < limit THEN n ELSE limit
<1>2. k \in Nat /\ k <= n /\ p \in 1 .. k
  BY <1>1 DEF Falls
<1>3. s \in Seq(Z) /\ Len(s) = n
  BY <1>1 DEF Falls
<1>4. Trail!FirstOf(s, limit) = SubSeq(s, 1, k)
  BY <1>3 DEF Trail!FirstOf
<1>. HIDE DEF k
<1>5. SubSeq(s, 1, k)[p] = s[p] /\ p \in DOMAIN SubSeq(s, 1, k)
  BY <1>2, <1>3
<1>. QED
  BY <1>1, <1>4, <1>5 DEF Trail!ToSet

LEMMA FirstIsWhole ==
    ASSUME NEW Z, Sortable(Z), NEW limit \in Nat, Cardinality(Z) <= limit
    PROVE  Trail!FirstOf(Trail!NewestFirst(Z), limit) = Trail!NewestFirst(Z)
<1>1. PICK n, s : n = Cardinality(Z) /\ s = Trail!NewestFirst(Z) /\ Falls(s, n, Z)
  BY NewestFalls
<1>2. s \in Seq(Z) /\ Len(s) = n /\ n \in Nat
  BY <1>1 DEF Falls
<1>3. SubSeq(s, 1, n) = s
  BY <1>2
<1>. QED
  BY <1>1, <1>2, <1>3 DEF Trail!FirstOf

\* The newest of all events are among the newest of each app.
Fetches(fetched, all, apps, perApp) ==
    /\ DOMAIN fetched = apps
    /\ \A app \in apps :
          fetched[app]
            = Trail!FirstOf(Trail!NewestFirst({e \in all : e.app = app}), perApp)

LEMMA CollectedNewest ==
    ASSUME LogInv, NEW apps, NEW all \in SUBSET Trail!Events, \A e \in all : e.app \in apps,
           NEW perApp \in Nat, NEW limit \in Nat, limit <= perApp,
           NEW fetched, Fetches(fetched, all, apps, perApp)
    PROVE  Trail!collectAuditEventsForApps(fetched, limit)
             = Trail!FirstOf(Trail!NewestFirst(all), limit)
<1>. DEFINE some == UNION {Trail!ToSet(fetched[app]) : app \in DOMAIN fetched}
<1>1. /\ DOMAIN fetched = apps
      /\ \A app \in apps :
            fetched[app]
              = Trail!FirstOf(Trail!NewestFirst({e \in all : e.app = app}), perApp)
  BY DEF Fetches
<1>2. Sortable(all)
  BY EventsSortable, PartSortable
<1>3. ASSUME NEW app \in apps
      PROVE  Trail!ToSet(fetched[app]) \subseteq all
  <2>. DEFINE ofApp == {e \in all : e.app = app}
  <2>1. Sortable(ofApp) /\ ofApp \subseteq all
    BY <1>2, PartSortable
  <2>. HIDE DEF ofApp
  <2>2. Picks(Trail!FirstOf(Trail!NewestFirst(ofApp), perApp), ofApp)
    BY <2>1, PicksNewest, PicksFirst
  <2>3. Trail!ToSet(Trail!FirstOf(Trail!NewestFirst(ofApp), perApp)) \subseteq ofApp
    BY <2>1, <2>2, PickedSortable
  <2>. QED
    BY <1>1, <1>3, <2>1, <2>3 DEF ofApp
<1>4. some \in SUBSET all
  BY <1>1, <1>3
<1>5. ASSUME NEW i \in 1 .. Cardinality(all), i <= limit
      PROVE  Trail!NewestFirst(all)[i] \in some
  <2>1. PICK n, s : /\ n = Cardinality(all) /\ s = Trail!NewestFirst(all)
                    /\ Falls(s, n, all) /\ Covers(s, n, all)
    BY <1>2, NewestFalls
  <2>2. PICK e \in all : e = s[i]
    BY <1>5, <2>1 DEF Falls
  <2>3. PICK ofApp \in SUBSET all : ofApp = {d \in all : d.app = e.app}
    OBVIOUS
  <2>4. Sortable(ofApp) /\ e \in ofApp
    BY <1>2, <2>3, PartSortable
  <2>5. PICK m, t : /\ m = Cardinality(ofApp) /\ t = Trail!NewestFirst(ofApp)
                    /\ Falls(t, m, ofApp) /\ Covers(t, m, ofApp)
    BY <2>4, NewestFalls
  <2>6. PICK p \in 1 .. m : t[p] = e
    BY <2>4, <2>5 DEF Covers
  <2>7. Falls(t, m, all) /\ \A q \in 1 .. m : \E j \in 1 .. n : t[q] = s[j]
    BY <2>1, <2>5 DEF Falls, Covers
  <2>8. p <= i
    BY <1>2, <1>5, <2>1, <2>2, <2>6, <2>7, PlaceGrows
  <2>9. p <= perApp
    BY <1>5, <2>1, <2>5, <2>6, <2>8 DEF Falls
  <2>10. e \in Trail!ToSet(Trail!FirstOf(Trail!NewestFirst(ofApp), perApp))
    BY <2>4, <2>5, <2>6, <2>9, FirstHas
  <2>11. e.app \in apps /\ e \in Trail!ToSet(fetched[e.app])
    BY <1>1, <2>3, <2>10
  <2>. QED
    BY <1>1, <2>1, <2>2, <2>11
<1>. HIDE DEF some
<1>6. Trail!FirstOf(Trail!NewestFirst(some), limit) = Trail!FirstOf(Trail!NewestFirst(all), limit)
  BY <1>2, <1>4, <1>5, SameFirst
<1>. QED
  BY <1>6 DEF Trail!collectAuditEventsForApps, some

-----------------------------------------------------------------------------
(***************************************************************************)
(* What is filled in changes neither which events are shown nor when they  *)
(* were logged, by what app, for which deployment and with what status.    *)
(***************************************************************************)
Keeps(w, e) == /\ w.id = e.id /\ w.time = e.time /\ w.app = e.app
               /\ w.correlation = e.correlation /\ w.status = e.status

LEMMA FormKeeps ==
    ASSUME NEW e \in LogEvents, NEW ids, NEW form \in Forms(e, ids)
    PROVE  Keeps(form, e)
<1>1. PICK tale \in Tales(ids) : form = Form(e, tale)
  BY DEF Forms
<1>. QED
  BY <1>1, Logged DEF Form, Keeps

LEMMA AllNumbered == ASSUME LogInv PROVE Numbered(DOMAIN log) = Trail!Events
BY EventsSortable DEF Numbered

\* A list of logged events after it has been filled in.
LEMMA EnrichedList ==
    ASSUME LogInv, NEW n \in Nat, NEW list \in [1 .. n -> Trail!Events],
           NEW timeline, Knows(timeline, DOMAIN log)
    PROVE  \E whole : /\ whole = Trail!enrichAuditEventsWithTimeline(list, timeline)
                      /\ DOMAIN whole = 1 .. n
                      /\ \A i \in 1 .. n :
                            /\ whole[i] = Trail!enrichAuditEventWithTimeline(list[i], timeline)
                            /\ whole[i] \in Forms(list[i], DOMAIN log)
                            /\ Keeps(whole[i], list[i])
<1>1. PICK whole : whole = Trail!enrichAuditEventsWithTimeline(list, timeline)
  OBVIOUS
<1>2. whole = [i \in 1 .. n |-> Trail!enrichAuditEventWithTimeline(list[i], timeline)]
  BY <1>1 DEF Trail!enrichAuditEventsWithTimeline
<1>3. ASSUME NEW i \in 1 .. n
      PROVE  /\ whole[i] = Trail!enrichAuditEventWithTimeline(list[i], timeline)
             /\ whole[i] \in Forms(list[i], DOMAIN log)
             /\ Keeps(whole[i], list[i])
  <2>1. PICK e \in Trail!Events : e = list[i]
    OBVIOUS
  <2>2. e \in LogEvents /\ e \in Forms(e, DOMAIN log)
    BY EventsSortable, LoggedForm
  <2>3. Trail!enrichAuditEventWithTimeline(e, timeline) \in Forms(e, DOMAIN log)
    BY <2>2, EnrichedForm
  <2>4. Keeps(Trail!enrichAuditEventWithTimeline(e, timeline), e)
    BY <2>2, <2>3, FormKeeps
  <2>. QED
    BY <1>2, <1>3, <2>1, <2>3, <2>4
<1>. QED
  BY <1>1, <1>2, <1>3

LEMMA EnrichedIds ==
    ASSUME LogInv, NEW list, Picks(list, Trail!Events),
           NEW timeline, Knows(timeline, DOMAIN log)
    PROVE  Trail!Ids(Trail!enrichAuditEventsWithTimeline(list, timeline)) = Trail!Ids(list)
<1>1. PICK n \in Nat : list \in [1 .. n -> Trail!Events]
  BY DEF Picks
<1>2. PICK whole : /\ whole = Trail!enrichAuditEventsWithTimeline(list, timeline)
                   /\ DOMAIN whole = 1 .. n
                   /\ \A i \in 1 .. n : Keeps(whole[i], list[i])
  BY <1>1, EnrichedList
<1>. QED
  BY <1>1, <1>2 DEF Trail!Ids, Keeps

-----------------------------------------------------------------------------
(***************************************************************************)
(* An overview has the newest events.                                      *)
(***************************************************************************)
LEMMA NothingKnown == \A ids : Knows(<<>>, ids)
<1>1. Trail!ToSet(<<>>) = {}
  BY DEF Trail!ToSet
<1>2. IsFiniteSet({})
  BY FS_EmptySet
<1>. QED
  BY <1>1, <1>2 DEF Knows, Sortable

\* An answer that is shown is no refusal.
LEMMA ShownIs ==
    ASSUME NEW uninstalled, NEW reply,
           Trail!IsShown(Trail!WithPlugin(uninstalled, reply))
    PROVE  /\ Trail!WithPlugin(uninstalled, reply) = reply
           /\ reply # Trail!Failed /\ reply # Trail!AccessDenied /\ reply # Trail!NotFound
<1>1. Trail!Empty = [status |-> "ok", events |-> <<>>, deploys |-> <<>>]
  BY DEF Trail!Empty, Trail!Answer
<1>2. Trail!Failed.status # "ok"
  BY <1>1 DEF Trail!Failed
<1>3. Trail!AccessDenied.status # "ok"
  BY <1>1 DEF Trail!AccessDenied
<1>4. Trail!NotFound.status # "ok"
  BY <1>1, Zenon DEF Trail!NotFound
<1>5. Trail!WithPlugin(uninstalled, reply) = reply
  BY <1>2 DEF Trail!WithPlugin, Trail!IsShown
<1>6. reply.status = "ok"
  BY <1>5 DEF Trail!IsShown
<1>. QED
  BY <1>2, <1>3, <1>4, <1>5, <1>6

LEMMA ListsOfEvents ==
    ASSUME LogInv, NEW events \in SUBSET Trail!Events
    PROVE  /\ \A limit \in Nat :
                Picks(Trail!FirstOf(Trail!NewestFirst(events), limit), Trail!Events)
           /\ Picks(Trail!NewestFirst(events), Trail!Events)
           /\ Knows(Trail!NewestFirst(events), DOMAIN log)
BY EventsSortable, PartSortable, PicksNewest, PicksFirst, PicksMore, AllNumbered, PickedKnown

LEMMA AdminOverview ==
    ASSUME LogInv, reader.admin
    PROVE  Trail!OverviewIsNewest
<1>. DEFINE recent  == Trail!GetAuditRecent(Newest)
            deploys == Trail!GetAuditLastDeploys(Newest)
            apps    == {e.app : e \in Trail!ToSet(recent) \cup Trail!ToSet(deploys)} \ {Trail!Host}
            timeline == IF trouble = "timeline" THEN <<>>
                        ELSE Trail!getAuditTimelineForApps(apps, Context, Trail!NoLimit)
            reply == IF trouble \in {"health", "recent", "deploys"} THEN Trail!Failed
                      ELSE Trail!Answer(Trail!enrichAuditEventsWithTimeline(recent, timeline),
                                        Trail!enrichAuditEventsWithTimeline(deploys, timeline))
<1>. SUFFICES ASSUME Trail!IsShown(Trail!handleAuditOverview)
              PROVE  LET visible == {e \in Trail!Events : Trail!MayBeShown(e.app)}
                         limit   == IF reader.admin THEN Newest ELSE Shown
                     IN  /\ Trail!Ids(Trail!handleAuditOverview.events)
                              = Trail!Ids(Trail!FirstOf(Trail!NewestFirst(visible), limit))
                         /\ Trail!Ids(Trail!handleAuditOverview.deploys)
                              = Trail!Ids(Trail!FirstOf(
                                    Trail!NewestFirst({e \in visible : e.deploy}), limit))
  BY DEF Trail!OverviewIsNewest
<1>1. Newest \in Nat /\ Context \in Nat /\ Trail!NoLimit \in Nat
  BY AuditAssumption DEF Trail!NoLimit
<1>2. {e \in Trail!Events : Trail!MayBeShown(e.app)} = Trail!Events
  BY DEF Trail!MayBeShown
<1>3. /\ recent = Trail!FirstOf(Trail!NewestFirst(Trail!Events), Newest)
      /\ deploys = Trail!FirstOf(Trail!NewestFirst({e \in Trail!Events : e.deploy}), Newest)
  BY DEF Trail!GetAuditRecent, Trail!GetAuditLastDeploys
<1>4. Trail!OverviewOfHost = reply
  BY DEF Trail!OverviewOfHost
<1>. HIDE DEF recent, deploys
<1>5. Picks(recent, Trail!Events) /\ Picks(deploys, Trail!Events)
  <2>1. {e \in Trail!Events : e.deploy} \in SUBSET Trail!Events
    OBVIOUS
  <2>. QED
    BY <1>1, <1>3, <2>1, ListsOfEvents
<1>. HIDE DEF apps
<1>6. Knows(timeline, DOMAIN log)
  <2>1. Picks(Trail!getAuditTimelineForApps(apps, Context, Trail!NoLimit), OfApps(apps))
    BY <1>1, ListsOfApps
  <2>2. Picks(Trail!getAuditTimelineForApps(apps, Context, Trail!NoLimit), Trail!Events)
    BY <2>1, PicksMore DEF OfApps
  <2>3. Knows(Trail!getAuditTimelineForApps(apps, Context, Trail!NoLimit), DOMAIN log)
    BY <2>2, AllNumbered, PickedKnown
  <2>. QED
    BY <2>3, NothingKnown
<1>. HIDE DEF timeline
<1>7. /\ Trail!Ids(Trail!enrichAuditEventsWithTimeline(recent, timeline)) = Trail!Ids(recent)
      /\ Trail!Ids(Trail!enrichAuditEventsWithTimeline(deploys, timeline)) = Trail!Ids(deploys)
  BY <1>5, <1>6, EnrichedIds
<1>8. Trail!handleAuditOverview = Trail!WithPlugin(Trail!Empty, reply)
  BY <1>4 DEF Trail!handleAuditOverview, Trail!AllowedAppsFail
<1>. HIDE DEF reply
<1>9. Trail!handleAuditOverview = reply /\ reply # Trail!Failed
  BY <1>8, ShownIs
<1>10. reply = Trail!Answer(Trail!enrichAuditEventsWithTimeline(recent, timeline),
                             Trail!enrichAuditEventsWithTimeline(deploys, timeline))
  BY <1>9 DEF reply
<1>11. /\ reply.events = Trail!enrichAuditEventsWithTimeline(recent, timeline)
       /\ reply.deploys = Trail!enrichAuditEventsWithTimeline(deploys, timeline)
  BY <1>10 DEF Trail!Answer
<1>. QED
  BY <1>2, <1>3, <1>7, <1>9, <1>11

LEMMA UserOverview ==
    ASSUME LogInv, ~reader.admin, Shown <= PerApp
    PROVE  Trail!OverviewIsNewest
<1>. DEFINE visible  == {e \in Trail!Events : e.app \in reader.apps}
            recent   == Trail!getAuditTimelineForApps(reader.apps, PerApp, Shown)
            deploys  == Trail!getAuditDeploysForApps(reader.apps, PerApp, Shown)
            timeline == Trail!getAuditTimelineForApps(reader.apps, Context, Trail!NoLimit)
            reply == Trail!Answer(Trail!enrichAuditEventsWithTimeline(recent, timeline),
                                   Trail!enrichAuditEventsWithTimeline(deploys, timeline))
<1>. SUFFICES ASSUME Trail!IsShown(Trail!handleAuditOverview)
              PROVE  /\ Trail!Ids(Trail!handleAuditOverview.events)
                          = Trail!Ids(Trail!FirstOf(Trail!NewestFirst(visible), Shown))
                     /\ Trail!Ids(Trail!handleAuditOverview.deploys)
                          = Trail!Ids(Trail!FirstOf(
                                Trail!NewestFirst({e \in visible : e.deploy}), Shown))
  BY DEF Trail!OverviewIsNewest, Trail!MayBeShown
<1>1. /\ Shown \in Nat /\ PerApp \in Nat /\ Context \in Nat /\ Trail!NoLimit \in Nat
  BY OwnEvents
<1>2. recent = Trail!FirstOf(Trail!NewestFirst(visible), Shown)
  <2>. DEFINE fetched == [app \in reader.apps |-> Trail!GetAuditTimeline(app, PerApp)]
  <2>1. visible \in SUBSET Trail!Events /\ \A e \in visible : e.app \in reader.apps
    OBVIOUS
  <2>2. \A app \in reader.apps :
           fetched[app] = Trail!FirstOf(Trail!NewestFirst({e \in visible : e.app = app}), PerApp)
    <3>. SUFFICES ASSUME NEW app \in reader.apps
                  PROVE  fetched[app] = Trail!FirstOf(
                            Trail!NewestFirst({e \in visible : e.app = app}), PerApp)
      OBVIOUS
    <3>1. {e \in Trail!Events : e.app = app} = {e \in visible : e.app = app}
      OBVIOUS
    <3>. QED
      BY <3>1 DEF Trail!GetAuditTimeline
  <2>3. DOMAIN fetched = reader.apps
    OBVIOUS
  <2>4. recent = Trail!collectAuditEventsForApps(fetched, Shown)
    BY DEF Trail!getAuditTimelineForApps
  <2>. HIDE DEF recent, fetched, visible
  <2>5. Fetches(fetched, visible, reader.apps, PerApp)
    BY <2>2, <2>3 DEF Fetches
  <2>. QED
    BY <1>1, <2>1, <2>4, <2>5, CollectedNewest
<1>3. deploys = Trail!FirstOf(Trail!NewestFirst({e \in visible : e.deploy}), Shown)
  <2>. DEFINE fetched == [app \in reader.apps |-> Trail!AppDeploys(app, PerApp)]
              all == {e \in visible : e.deploy}
  <2>1. all \in SUBSET Trail!Events /\ \A e \in all : e.app \in reader.apps
    OBVIOUS
  <2>2. \A app \in reader.apps :
           fetched[app] = Trail!FirstOf(Trail!NewestFirst({e \in all : e.app = app}), PerApp)
    <3>. SUFFICES ASSUME NEW app \in reader.apps
                  PROVE  fetched[app] = Trail!FirstOf(
                            Trail!NewestFirst({e \in all : e.app = app}), PerApp)
      OBVIOUS
    <3>1. {e \in Trail!Events : e.deploy /\ e.app = app} = {e \in all : e.app = app}
      OBVIOUS
    <3>. QED
      BY <3>1 DEF Trail!AppDeploys
  <2>3. DOMAIN fetched = reader.apps
    OBVIOUS
  <2>4. deploys = Trail!collectAuditEventsForApps(fetched, Shown)
    BY DEF Trail!getAuditDeploysForApps
  <2>5. deploys = Trail!FirstOf(Trail!NewestFirst(all), Shown)
    <3>. HIDE DEF deploys, fetched, all, visible
    <3>1. Fetches(fetched, all, reader.apps, PerApp)
      BY <2>2, <2>3 DEF Fetches
    <3>. QED
      BY <1>1, <2>1, <2>4, <3>1, CollectedNewest
  <2>. QED
    BY <2>5
<1>4. Picks(recent, Trail!Events) /\ Picks(deploys, Trail!Events)
      /\ Picks(timeline, Trail!Events)
  <2>1. /\ Picks(recent, OfApps(reader.apps)) /\ Picks(deploys, OfApps(reader.apps))
        /\ Picks(timeline, OfApps(reader.apps))
    BY <1>1, ListsOfApps
  <2>2. OfApps(reader.apps) \subseteq Trail!Events
    BY DEF OfApps
  <2>. HIDE DEF recent, deploys, timeline
  <2>. QED
    BY <2>1, <2>2, PicksMore
<1>5. reader.apps = {} \/ trouble \notin {"timeline", "deploys"}
         => Trail!OverviewOfApps = reply
  BY DEF Trail!OverviewOfApps
<1>6. Trail!OverviewOfApps \in {reply, Trail!Failed}
  BY DEF Trail!OverviewOfApps
<1>7. Trail!handleAuditOverview
        = Trail!WithPlugin(Trail!Empty, IF Trail!AllowedAppsFail THEN Trail!Failed
                                        ELSE Trail!OverviewOfApps)
  BY DEF Trail!handleAuditOverview
<1>. HIDE DEF recent, deploys, timeline, reply
<1>8. Trail!handleAuditOverview = reply
  BY <1>6, <1>7, ShownIs
<1>9. Knows(timeline, DOMAIN log)
  BY <1>4, AllNumbered, PickedKnown
<1>10. /\ Trail!Ids(Trail!enrichAuditEventsWithTimeline(recent, timeline)) = Trail!Ids(recent)
       /\ Trail!Ids(Trail!enrichAuditEventsWithTimeline(deploys, timeline)) = Trail!Ids(deploys)
  BY <1>4, <1>9, EnrichedIds
<1>11. /\ reply.events = Trail!enrichAuditEventsWithTimeline(recent, timeline)
       /\ reply.deploys = Trail!enrichAuditEventsWithTimeline(deploys, timeline)
  BY DEF Trail!Answer, reply
<1>. QED
  BY <1>2, <1>3, <1>8, <1>10, <1>11

LEMMA OverviewNewest ==
    ASSUME LogInv, Shown <= PerApp
    PROVE  Trail!OverviewIsNewest
BY AdminOverview, UserOverview

-----------------------------------------------------------------------------
(***************************************************************************)
(* The page of a service is whole, as far as one list holds the log.       *)
(***************************************************************************)
LEMMA FewEvents ==
    ASSUME LogInv, NEW events \in SUBSET Trail!Events
    PROVE  Cardinality(events) \in Nat /\ Cardinality(events) <= MaxEvents
<1>1. log \in Seq(LogEvents) /\ Len(log) \in Nat /\ DOMAIN log = 1 .. Len(log)
  BY DEF LogInv
<1>2. Len(log) <= MaxEvents /\ MaxEvents \in Nat
  <2>1. MaxEvents \in Nat
    BY AuditAssumption
  <2>2. Len(log) > 0 => Len(log) \in DOMAIN log
    BY <1>1
  <2>3. Len(log) > 0 => log[Len(log)] \in LogEvents /\ log[Len(log)].id = Len(log)
    BY <1>1, <2>2 DEF LogInv
  <2>4. Len(log) > 0 => Len(log) \in 1 .. MaxEvents
    BY <2>3, LoggedForm
  <2>. QED
    BY <1>1, <2>1, <2>4
<1>3. IsFiniteSet(1 .. Len(log)) /\ Cardinality(1 .. Len(log)) = Len(log)
  BY <1>1, FS_Interval
<1>4. [i \in 1 .. Len(log) |-> log[i]] \in Surjection(1 .. Len(log), Trail!Events)
  BY <1>1 DEF Surjection, Trail!Events, Trail!ToSet
<1>5. IsFiniteSet(Trail!Events) /\ Cardinality(Trail!Events) <= Len(log)
  BY <1>3, <1>4, FS_Surjection
<1>6. /\ IsFiniteSet(events) /\ Cardinality(events) <= Cardinality(Trail!Events)
      /\ Cardinality(events) \in Nat /\ Cardinality(Trail!Events) \in Nat
  BY <1>5, FS_Subset, FS_CardinalityType
<1>. QED
  BY <1>1, <1>2, <1>5, <1>6

LEMMA WholeList ==
    ASSUME LogInv, NEW events \in SUBSET Trail!Events, NEW limit \in Nat, MaxEvents <= limit
    PROVE  /\ Trail!FirstOf(Trail!NewestFirst(events), limit) = Trail!NewestFirst(events)
           /\ Trail!ToSet(Trail!NewestFirst(events)) = events
<1>1. Sortable(events) /\ MaxEvents \in Nat
  BY EventsSortable, PartSortable, AuditAssumption
<1>2. Cardinality(events) <= limit
  BY <1>1, FewEvents
<1>. QED
  BY <1>1, <1>2, FirstIsWhole, NewestFalls

LEMMA WholeTimeline ==
    ASSUME LogInv, MaxEvents <= Page, NEW apps
    PROVE  Trail!ToSet(Trail!getAuditTimelineForApps(apps, Page, Trail!NoLimit)) = OfApps(apps)
<1>. DEFINE fetched == [app \in apps |-> Trail!GetAuditTimeline(app, Page)]
            all == OfApps(apps)
<1>1. Page \in Nat /\ Trail!NoLimit \in Nat /\ Trail!NoLimit = MaxEvents
  BY OwnEvents DEF Trail!NoLimit
<1>2. all \in SUBSET Trail!Events /\ \A e \in all : e.app \in apps
  BY DEF OfApps
<1>3. ASSUME NEW app \in apps
      PROVE  fetched[app] = Trail!FirstOf(Trail!NewestFirst({e \in all : e.app = app}), Page)
  <2>1. {e \in Trail!Events : e.app = app} = {e \in all : e.app = app}
    BY <1>3 DEF OfApps
  <2>. QED
    BY <2>1 DEF Trail!GetAuditTimeline
<1>4. Fetches(fetched, all, apps, Page)
  <2>1. DOMAIN fetched = apps
    OBVIOUS
  <2>. HIDE DEF fetched, all
  <2>. QED
    BY <1>3, <2>1 DEF Fetches
<1>5. Trail!getAuditTimelineForApps(apps, Page, Trail!NoLimit)
        = Trail!collectAuditEventsForApps(fetched, Trail!NoLimit)
  BY DEF Trail!getAuditTimelineForApps
<1>. HIDE DEF fetched, all
<1>6. Trail!collectAuditEventsForApps(fetched, Trail!NoLimit)
        = Trail!FirstOf(Trail!NewestFirst(all), Trail!NoLimit)
  BY <1>1, <1>2, <1>4, CollectedNewest
<1>7. Trail!FirstOf(Trail!NewestFirst(all), Trail!NoLimit) = Trail!NewestFirst(all)
      /\ Trail!ToSet(Trail!NewestFirst(all)) = all
  BY <1>1, <1>2, WholeList
<1>. QED
  BY <1>5, <1>6, <1>7 DEF all

LEMMA ServiceWhole ==
    ASSUME LogInv, MaxEvents <= Page
    PROVE  Trail!ServicePageIsWhole
<1>. DEFINE visible == {e \in Trail!Events : \/ e.app \in Trail!LinkedApps
                                             \/ /\ e.mentions
                                                /\ e.app = Trail!Host \/ Trail!MayBeShown(e.app)}
<1>1. /\ Page \in Nat /\ MaxEvents \in Nat /\ MaxEvents <= MaxEvents
      /\ Trail!Host \notin Trail!LinkedApps
  <2>1. Trail!LinkedApps \subseteq Apps
    BY DEF LogInv, Trail!LinkedApps
  <2>. QED
    BY <2>1, AuditAssumption
<1>2. ASSUME Trail!IsShown(Trail!handleServiceAudit), trouble # "recent"
      PROVE  Trail!Ids(Trail!handleServiceAudit.events) = Trail!Ids(Trail!NewestFirst(visible))
  <2>1. Trail!ToSet(Trail!GetAuditRecent(Page)) = Trail!Events
    BY <1>1, WholeList DEF Trail!GetAuditRecent
  <2>2. Trail!ToSet(Trail!getAuditTimelineForApps(Trail!LinkedApps, Page, Trail!NoLimit))
          = OfApps(Trail!LinkedApps)
    BY WholeTimeline
  <2>3. OfApps(Trail!LinkedApps) \cup Trail!HostEvents(Trail!GetAuditRecent(Page)) = visible
    BY <2>1 DEF Trail!HostEvents, OfApps
  <2>4. Trail!ServiceTimeline = Trail!NewestFirst(visible)
    BY <1>2, <2>2, <2>3 DEF Trail!ServiceTimeline
  <2>5. visible \in SUBSET Trail!Events
    OBVIOUS
  <2>. HIDE DEF visible
  <2>6. /\ Picks(Trail!NewestFirst(visible), Trail!Events)
        /\ Knows(Trail!NewestFirst(visible), DOMAIN log)
    BY <2>5, ListsOfEvents
  <2>. DEFINE timeline == Trail!enrichAuditEventsWithTimeline(Trail!ServiceTimeline,
                                                              Trail!ServiceTimeline)
              reply == Trail!Answer(timeline,
                           Trail!enrichAuditEventsWithTimeline(Trail!ServiceDeploys, timeline))
              whole == IF \/ trouble = "links" \/ Trail!AllowedAppsFail
                          \/ Trail!LinkedApps # {} /\ trouble = "timeline" THEN Trail!Failed
                       ELSE reply
  <2>7. Trail!Ids(timeline) = Trail!Ids(Trail!NewestFirst(visible))
    BY <2>4, <2>6, EnrichedIds
  <2>8. Trail!handleServiceAudit = Trail!WithPlugin(Trail!Empty, whole)
    BY DEF Trail!handleServiceAudit
  <2>9. reply.events = timeline
    BY DEF Trail!Answer
  <2>10. whole \in {reply, Trail!Failed}
    OBVIOUS
  <2>. HIDE DEF reply, whole, timeline
  <2>11. Trail!handleServiceAudit = reply
    BY <1>2, <2>8, <2>10, ShownIs
  <2>. QED
    BY <2>7, <2>9, <2>11
<1>3. ASSUME Trail!IsShown(Trail!handleServiceAuditExport), trouble # "export"
      PROVE  Trail!handleServiceAuditExport.events = Trail!Related(Trail!NewestFirst(visible))
  <2>. DEFINE ofApps == UNION {Trail!ExportAuditEvents(app) : app \in Trail!LinkedApps}
              mentioning == {e \in visible : e.mentions}
  <2>1. ofApps = OfApps(Trail!LinkedApps)
    BY <1>1 DEF Trail!ExportAuditEvents, OfApps
  <2>2. Trail!ToSet(Trail!NewestFirst(Trail!ExportAuditEvents(Trail!Host))) = Trail!Events
    BY <1>1, WholeList DEF Trail!ExportAuditEvents
  <2>3. {e \in ofApps : e.mentions}
           \cup Trail!HostEvents(Trail!NewestFirst(Trail!ExportAuditEvents(Trail!Host)))
          = mentioning
    BY <2>1, <2>2 DEF Trail!HostEvents, OfApps
  <2>4. \/ Trail!handleServiceAuditExport = Trail!Failed
        \/ Trail!handleServiceAuditExport = Trail!Answer(Trail!NewestFirst(mentioning), <<>>)
    BY <1>3, <2>3 DEF Trail!handleServiceAuditExport
  <2>5. Trail!Failed.status # "ok"
    BY DEF Trail!Failed, Trail!Empty, Trail!Answer
  <2>6. Trail!handleServiceAuditExport.events = Trail!NewestFirst(mentioning)
    <3>1. Trail!handleServiceAuditExport.status = "ok"
      BY <1>3, Zenon DEF Trail!IsShown
    <3>2. \A list : Trail!Answer(list, <<>>).events = list
      BY DEF Trail!Answer
    <3>. HIDE DEF mentioning
    <3>. QED
      BY <2>4, <2>5, <3>1, <3>2, Zenon
  <2>7. Trail!ToSet(Trail!NewestFirst(visible)) = visible
    BY <1>1, WholeList
  <2>. QED
    BY <2>6, <2>7 DEF Trail!Related
<1>. QED
  BY <1>2, <1>3 DEF Trail!ServicePageIsWhole

-----------------------------------------------------------------------------
(***************************************************************************)
(* Whom an event is put down to.                                           *)
(***************************************************************************)
LEMMA Throughout ==
    ASSUME NEW last \in Nat, NEW T, 0 \in T, \A n \in 1 .. last : n - 1 \in T => n \in T
    PROVE  \A n \in 0 .. last : n \in T
<1>. DEFINE Wrong == {n \in 0 .. last : n \notin T}
<1>1. SUFFICES ASSUME Wrong # {} PROVE FALSE
  OBVIOUS
<1>2. PICK n \in Wrong : \A m \in Wrong : n <= m
  <2>1. Wrong \in SUBSET Nat
    OBVIOUS
  <2>. HIDE DEF Wrong
  <2>. QED
    BY <1>1, <2>1, Least
<1>3. n \in 1 .. last /\ n - 1 \in 0 .. last /\ n - 1 \notin Wrong
  BY <1>2
<1>. QED
  BY <1>2, <1>3

\* An event is logged for nobody, for dokku itself or for a person.
LEMMA LoggedActor ==
    ASSUME NEW e \in LogEvents
    PROVE  Trail!IsPerson(e.actor) => ~Trail!IsSystem(e.actor)
<1>1. PICK shape \in Shapes, id \in 1 .. MaxEvents, time \in Nat :
         e = Trail!Event(shape, id, time)
  BY DEF LogEvents
<1>2. e.actor = CASE shape.actor = "nobody" -> Trail!Nobody
                  [] shape.actor = "system" -> [type |-> "system", label |-> Trail!DokkuSystem]
                  [] shape.actor = "person" -> [type |-> "user", label |-> id]
                  [] shape.actor = "untyped" -> [type |-> Trail!None, label |-> id]
  BY <1>1 DEF Trail!Event
<1>3. shape.actor \in {"nobody", "system", "person", "untyped"}
  BY AuditAssumption
<1>4. Trail!None # "system" /\ "user" # "system"
  BY DEF Trail!None
<1>. HIDE DEF Trail!None
<1>5. \/ e.actor = Trail!Nobody
      \/ e.actor = [type |-> "system", label |-> Trail!DokkuSystem]
      \/ e.actor = [type |-> "user", label |-> id]
      \/ e.actor = [type |-> Trail!None, label |-> id]
  BY <1>2, <1>3
<1>6. MaxEvents \in Nat /\ id # Trail!DokkuSystem
  BY AuditAssumption DEF Trail!DokkuSystem
<1>. QED
  BY <1>4, <1>5, <1>6 DEF Trail!IsPerson, Trail!IsSystem, Trail!Nobody

\* What one of the related events can change.
LEMMA Merged ==
    ASSUME NEW e \in LogEvents, NEW ids, NEW base \in Forms(e, ids), NEW candidate
    PROVE  /\ Trail!shouldReplaceAuditActor(base, candidate)
                => Trail!mergeAuditEvent(base, candidate).actor.label = candidate.actor.label
           /\ ~Trail!shouldReplaceAuditActor(base, candidate)
                => Trail!mergeAuditEvent(base, candidate).actor = base.actor
           /\ base.detail # 0 => Trail!mergeAuditEvent(base, candidate).detail = base.detail
<1>1. PICK tale \in Tales(ids) : base = Form(e, tale)
  BY DEF Forms
<1>2. PICK actor, detail : base = [e EXCEPT !.actor = actor, !.detail = detail]
  BY <1>1 DEF Form
<1>3. base.actor = actor /\ base.detail = detail
  BY <1>2, Logged
<1>4. \A a, d : /\ [base EXCEPT !.actor = a, !.detail = d].actor = a
                /\ [base EXCEPT !.actor = a, !.detail = d].detail = d
  BY <1>2, Logged
<1>. DEFINE replaces == Trail!shouldReplaceAuditActor(base, candidate)
            put == IF ~replaces THEN base.actor ELSE
                   [type |-> IF candidate.actor.type # Trail!None THEN candidate.actor.type
                                                                  ELSE base.actor.type,
                    label |-> candidate.actor.label]
            filled == IF base.detail = 0 THEN candidate.detail ELSE base.detail
<1>5. Trail!mergeAuditEvent(base, candidate) = [base EXCEPT !.actor = put, !.detail = filled]
  BY DEF Trail!mergeAuditEvent
<1>6. /\ replaces => put.label = candidate.actor.label
      /\ ~replaces => put = base.actor
      /\ base.detail # 0 => filled = base.detail
  OBVIOUS
<1>. HIDE DEF put, filled
<1>. QED
  BY <1>4, <1>5, <1>6

\* The related events are the turns of the loop.
RelatedTo(e, c) == \/ c.id = e.id
                   \/ e.correlation # Trail!None /\ c.correlation = e.correlation

LEMMA RelatedList ==
    ASSUME NEW timeline, Sortable(Trail!ToSet(timeline)), NEW event
    PROVE  \E n, related :
              /\ n \in Nat /\ related = Trail!collectRelatedAuditEvents(event, timeline)
              /\ Len(related) = n
              /\ \A k \in 1 .. n : /\ related[k] \in Trail!ToSet(timeline)
                                   /\ RelatedTo(event, related[k])
              /\ \A c \in Trail!ToSet(timeline) :
                    RelatedTo(event, c) => \E k \in 1 .. n : related[k] = c
<1>. DEFINE all == {c \in Trail!ToSet(timeline) : RelatedTo(event, c)}
<1>1. Sortable(all)
  BY PartSortable
<1>2. Trail!collectRelatedAuditEvents(event, timeline) = Trail!OldestFirst(all)
  BY DEF Trail!collectRelatedAuditEvents, RelatedTo
<1>. HIDE DEF all
<1>3. PICK n, list :
         /\ n \in Nat /\ list \in [1 .. n -> all]
         /\ n = Cardinality(all) /\ list = Trail!OldestFirst(all)
         /\ \A i, j \in 1 .. n : i < j => Trail!Older(list[i], list[j])
  BY <1>1, Listed
<1>4. \A i, j \in 1 .. n : i < j => list[i] # list[j]
  <2>1. \A x \in all : ~Trail!Older(x, x)
    BY <1>1 DEF Sortable, Trail!Older
  <2>. QED
    BY <1>3, <2>1
<1>5. \A c \in all : \E k \in 1 .. n : list[k] = c
  BY <1>1, <1>3, <1>4, NoneMissing DEF Sortable
<1>6. Len(list) = n /\ \A k \in 1 .. n : list[k] \in all
  BY <1>3
<1>. WITNESS n, list
<1>. QED
  BY <1>2, <1>3, <1>5, <1>6 DEF all

\* Where a person took part, the loop ends with one.
LEMMA FilledActor ==
    ASSUME NEW e \in LogEvents, NEW ids, e.id \in ids, NEW timeline, Knows(timeline, ids),
           Trail!ToSet(timeline) \subseteq LogEvents,
           NEW whole, whole = Trail!enrichAuditEventWithTimeline(e, timeline)
    PROVE  /\ Trail!IsPerson(e.actor) => whole.actor = e.actor
           /\ e.detail # 0 => whole.detail = e.detail
           /\ \/ whole.actor.label = e.actor.label
              \/ \E c \in Trail!ToSet(timeline) :
                    RelatedTo(e, c) /\ whole.actor.label = c.actor.label
           /\ (\E c \in Trail!ToSet(timeline) : RelatedTo(e, c) /\ Trail!IsPerson(c.actor))
                => Trail!IsPerson(whole.actor)
<1>1. e \in Forms(e, ids)
  BY LoggedForm
<1>2. PICK f, last : /\ Enriches(f, last, e, timeline)
                     /\ \A n \in 0 .. last : f[n] \in Forms(e, ids)
  BY <1>1, EnrichedCourse
<1>3. PICK n, related :
              /\ n \in Nat /\ related = Trail!collectRelatedAuditEvents(e, timeline)
              /\ Len(related) = n
              /\ \A k \in 1 .. n : /\ related[k] \in Trail!ToSet(timeline)
                                   /\ RelatedTo(e, related[k])
              /\ \A c \in Trail!ToSet(timeline) :
                    RelatedTo(e, c) => \E k \in 1 .. n : related[k] = c
  BY RelatedList DEF Knows
<1>4. /\ last = n /\ last \in Nat /\ f[0] = e /\ f[last] = whole
      /\ \A k \in 1 .. last : f[k] = Trail!mergeAuditEvent(f[k - 1], related[k])
  BY <1>2, <1>3 DEF Enriches
<1>5. ASSUME NEW k \in 1 .. last
      PROVE  /\ k - 1 \in 0 .. last
             /\ related[k] \in Trail!ToSet(timeline)
             /\ RelatedTo(e, related[k])
             /\ Trail!IsPerson(related[k].actor) => ~Trail!IsSystem(related[k].actor)
             /\ \/ /\ Trail!shouldReplaceAuditActor(f[k - 1], related[k])
                   /\ f[k].actor.label = related[k].actor.label
                \/ /\ ~Trail!shouldReplaceAuditActor(f[k - 1], related[k])
                   /\ f[k].actor = f[k - 1].actor
             /\ f[k - 1].detail # 0 => f[k].detail = f[k - 1].detail
  <2>1. k - 1 \in 0 .. last /\ f[k - 1] \in Forms(e, ids)
    BY <1>2, <1>4, <1>5
  <2>2. f[k] = Trail!mergeAuditEvent(f[k - 1], related[k])
    BY <1>4, <1>5
  <2>3. related[k] \in LogEvents /\ related[k] \in Trail!ToSet(timeline) /\ RelatedTo(e, related[k])
    BY <1>3, <1>4, <1>5
  <2>. QED
    BY <2>1, <2>2, <2>3, Merged, LoggedActor
<1>6. ASSUME Trail!IsPerson(e.actor) PROVE whole.actor = e.actor
  <2>. DEFINE T == {k \in 0 .. last : f[k].actor = e.actor}
  <2>1. 0 \in T
    BY <1>4
  <2>2. ASSUME NEW k \in 1 .. last, k - 1 \in T PROVE k \in T
    <3>1. e.actor.label # 0 /\ ~Trail!IsSystem(e.actor)
      BY <1>6, LoggedActor DEF Trail!IsPerson
    <3>2. f[k - 1].actor = e.actor
      BY <2>2
    <3>3. ~Trail!shouldReplaceAuditActor(f[k - 1], related[k])
      BY <3>1, <3>2 DEF Trail!shouldReplaceAuditActor
    <3>. QED
      BY <1>4, <1>5, <2>2, <3>2, <3>3
  <2>3. last \in 0 .. last
    BY <1>4
  <2>. HIDE DEF T
  <2>4. last \in T
    BY <1>4, <2>1, <2>2, <2>3, Throughout
  <2>. QED
    BY <1>4, <2>4 DEF T
<1>7. ASSUME e.detail # 0 PROVE whole.detail = e.detail
  <2>. DEFINE T == {k \in 0 .. last : f[k].detail = e.detail}
  <2>1. 0 \in T
    BY <1>4
  <2>2. ASSUME NEW k \in 1 .. last, k - 1 \in T PROVE k \in T
    <3>1. f[k - 1].detail = e.detail
      BY <2>2
    <3>. QED
      BY <1>4, <1>5, <1>7, <2>2, <3>1
  <2>3. last \in 0 .. last
    BY <1>4
  <2>. HIDE DEF T
  <2>4. last \in T
    BY <1>4, <2>1, <2>2, <2>3, Throughout
  <2>. QED
    BY <1>4, <2>4 DEF T
<1>8. \/ whole.actor.label = e.actor.label
      \/ \E c \in Trail!ToSet(timeline) :
            RelatedTo(e, c) /\ whole.actor.label = c.actor.label
  <2>. DEFINE T == {k \in 0 .. last :
                       \/ f[k].actor.label = e.actor.label
                       \/ \E c \in Trail!ToSet(timeline) :
                             RelatedTo(e, c) /\ f[k].actor.label = c.actor.label}
  <2>1. 0 \in T
    BY <1>4
  <2>2. ASSUME NEW k \in 1 .. last, k - 1 \in T PROVE k \in T
    <3>1. CASE f[k].actor = f[k - 1].actor
      BY <1>4, <2>2, <3>1
    <3>2. CASE f[k].actor.label = related[k].actor.label
      BY <1>4, <1>5, <2>2, <3>2
    <3>. QED
      BY <1>5, <2>2, <3>1, <3>2
  <2>3. last \in 0 .. last
    BY <1>4
  <2>. HIDE DEF T
  <2>4. last \in T
    BY <1>4, <2>1, <2>2, <2>3, Throughout
  <2>. QED
    BY <1>4, <2>4 DEF T
<1>9. ASSUME NEW c \in Trail!ToSet(timeline), RelatedTo(e, c), Trail!IsPerson(c.actor)
      PROVE  Trail!IsPerson(whole.actor)
  <2>1. PICK p \in 1 .. last : related[p] = c
    BY <1>3, <1>4, <1>9
  <2>. DEFINE T == {k \in 0 .. last : k >= p => Trail!IsPerson(f[k].actor)}
  <2>2. 0 \in T
    BY <1>4, <2>1
  <2>3. ASSUME NEW k \in 1 .. last, k - 1 \in T PROVE k \in T
    <3>1. CASE k < p
      BY <1>4, <2>1, <2>3, <3>1
    <3>2. CASE k = p
      <4>1. Trail!IsPerson(related[k].actor) /\ ~Trail!IsSystem(related[k].actor)
        BY <1>5, <1>9, <2>1, <2>3, <3>2
      <4>2. CASE Trail!IsPerson(f[k - 1].actor)
        <5>1. Trail!IsPerson(f[k].actor)
          BY <1>5, <2>3, <4>1, <4>2 DEF Trail!IsPerson
        <5>. QED
          BY <1>4, <2>3, <5>1
      <4>3. CASE ~Trail!IsPerson(f[k - 1].actor)
        <5>1. Trail!shouldReplaceAuditActor(f[k - 1], related[k])
          BY <4>1, <4>3 DEF Trail!IsPerson, Trail!IsSystem, Trail!shouldReplaceAuditActor
        <5>2. Trail!IsPerson(f[k].actor)
          BY <1>5, <2>3, <4>1, <5>1 DEF Trail!IsPerson
        <5>. QED
          BY <1>4, <2>3, <5>2
      <4>. QED
        BY <4>2, <4>3
    <3>3. CASE k > p
      <4>1. Trail!IsPerson(f[k - 1].actor)
        BY <1>4, <2>1, <2>3, <3>3
      <4>2. CASE f[k].actor = f[k - 1].actor
        BY <1>4, <2>3, <4>1, <4>2
      <4>3. CASE /\ Trail!shouldReplaceAuditActor(f[k - 1], related[k])
                 /\ f[k].actor.label = related[k].actor.label
        <5>1. ~Trail!IsSystem(related[k].actor) /\ related[k].actor.label # 0
          BY <4>1, <4>3 DEF Trail!IsPerson, Trail!shouldReplaceAuditActor
        <5>2. Trail!IsPerson(f[k].actor)
          BY <4>3, <5>1 DEF Trail!IsPerson, Trail!IsSystem
        <5>. QED
          BY <1>4, <2>3, <5>2
      <4>. QED
        BY <1>5, <2>3, <4>2, <4>3
    <3>. QED
      BY <1>4, <2>1, <2>3, <3>1, <3>2, <3>3
  <2>4. last \in 0 .. last /\ last >= p
    BY <1>4, <2>1
  <2>. HIDE DEF T
  <2>5. last \in T
    BY <1>4, <2>2, <2>3, <2>4, Throughout
  <2>. QED
    BY <1>4, <2>4, <2>5 DEF T
<1>. QED
  BY <1>6, <1>7, <1>8, <1>9

\* The page of an app shows all that was logged for it, or nothing.
LEMMA AppEvents ==
    ASSUME LogInv, MaxEvents <= Page, NEW app
    PROVE  \E timeline, n :
              /\ timeline = Trail!NewestFirst(OfApps({app}))
              /\ n \in Nat /\ Falls(timeline, n, OfApps({app}))
              /\ Covers(timeline, n, OfApps({app}))
              /\ timeline = Trail!GetAuditTimeline(app, Page)
              /\ Knows(timeline, DOMAIN log) /\ Trail!ToSet(timeline) = OfApps({app})
              /\ \/ Trail!handleAppAudit(app).events = <<>>
                 \/ /\ trouble # "timeline"
                    /\ Trail!handleAppAudit(app).events
                         = Trail!enrichAuditEventsWithTimeline(timeline, timeline)
<1>1. PICK all : all = OfApps({app}) /\ all \in SUBSET Trail!Events
  BY DEF OfApps
<1>2. Sortable(all) /\ Page \in Nat
  BY <1>1, EventsSortable, PartSortable, OwnEvents
<1>3. PICK timeline, n : /\ n = Cardinality(all) /\ timeline = Trail!NewestFirst(all)
                         /\ Falls(timeline, n, all) /\ Covers(timeline, n, all)
                         /\ Trail!ToSet(timeline) = all
  BY <1>2, NewestFalls
<1>4. timeline = Trail!GetAuditTimeline(app, Page)
  <2>1. {e \in Trail!Events : e.app = app} = all
    BY <1>1 DEF OfApps
  <2>2. Trail!FirstOf(timeline, Page) = timeline
    BY <1>1, <1>2, <1>3, WholeList
  <2>. QED
    BY <1>3, <2>1, <2>2 DEF Trail!GetAuditTimeline
<1>5. Knows(timeline, DOMAIN log)
  BY <1>1, <1>3, ListsOfEvents
<1>6. \/ Trail!handleAppAudit(app).events = <<>>
      \/ /\ trouble # "timeline"
         /\ Trail!handleAppAudit(app).events
              = Trail!enrichAuditEventsWithTimeline(timeline, timeline)
  <2>. DEFINE enriched == Trail!enrichAuditEventsWithTimeline(timeline, timeline)
              shown == Trail!Answer(enriched,
                          Trail!enrichAuditEventsWithTimeline(Trail!AppDeploys(app, Page), enriched))
              whole == IF trouble \in {"timeline", "deploys"} THEN Trail!Failed ELSE shown
              reply == Trail!WithPlugin(Trail!Empty, whole)
  <2>1. Trail!handleAppAudit(app) = Trail!requireAuditAppAccess(app, reply)
    BY <1>4 DEF Trail!handleAppAudit
  <2>2. \A status, events, deploys :
           [[status |-> status, events |-> events, deploys |-> deploys]
               EXCEPT !.status = "error"].events = events
    OBVIOUS
  <2>3. /\ Trail!Empty.events = <<>> /\ [Trail!Empty EXCEPT !.status = "error"].events = <<>>
        /\ Trail!Failed.events = <<>> /\ [Trail!Failed EXCEPT !.status = "error"].events = <<>>
        /\ Trail!AccessDenied.events = <<>>
    BY DEF Trail!Empty, Trail!Failed, Trail!AccessDenied, Trail!Answer
  <2>4. shown.events = enriched /\ [shown EXCEPT !.status = "error"].events = enriched
    BY DEF Trail!Answer
  <2>5. \/ reply \in {Trail!Empty, Trail!Failed}
        \/ reply = shown /\ trouble # "timeline"
    BY DEF Trail!WithPlugin
  <2>6. \/ Trail!handleAppAudit(app) = reply
        \/ Trail!handleAppAudit(app) = [reply EXCEPT !.status = "error"]
        \/ Trail!handleAppAudit(app) = Trail!AccessDenied
    BY <2>1 DEF Trail!requireAuditAppAccess
  <2>. HIDE DEF reply, shown, enriched
  <2>7. \/ Trail!handleAppAudit(app).events = <<>>
        \/ trouble # "timeline" /\ Trail!handleAppAudit(app).events = enriched
    BY <2>3, <2>4, <2>5, <2>6
  <2>. QED
    BY <2>7 DEF enriched
<1>7. n \in Nat
  BY <1>3 DEF Falls
<1>. WITNESS timeline, n
<1>. QED
  BY <1>1, <1>3, <1>4, <1>5, <1>6, <1>7

LEMMA ActorsRight ==
    ASSUME LogInv, MaxEvents <= Page, NEW app \in Apps
    PROVE  Trail!ActorsAreRight(app)
<1>1. PICK timeline, n :
              /\ n \in Nat /\ Falls(timeline, n, OfApps({app}))
              /\ timeline = Trail!GetAuditTimeline(app, Page)
              /\ Knows(timeline, DOMAIN log) /\ Trail!ToSet(timeline) = OfApps({app})
              /\ \/ Trail!handleAppAudit(app).events = <<>>
                 \/ /\ trouble # "timeline"
                    /\ Trail!handleAppAudit(app).events
                         = Trail!enrichAuditEventsWithTimeline(timeline, timeline)
  BY AppEvents
<1>. SUFFICES ASSUME NEW e \in Trail!ToSet(Trail!handleAppAudit(app).events)
              PROVE  LET logged  == log[e.id]
                         persons == {c \in Trail!Events :
                                       /\ Trail!IsPerson(c.actor) /\ c.app = app
                                       /\ c.correlation = e.correlation
                                       /\ e.correlation # Trail!None}
                     IN  /\ Trail!IsPerson(logged.actor) => e.actor = logged.actor
                         /\ persons # {} => e.actor.label \in {c.actor.label : c \in persons}
                         /\ logged.detail # 0 => e.detail = logged.detail
                         /\ Trail!IsShown(Trail!handleAppAuditEvent(app, logged))
                              => Trail!handleAppAuditEvent(app, logged).events = <<e>>
  BY DEF Trail!ActorsAreRight
<1>2. /\ trouble # "timeline"
      /\ Trail!handleAppAudit(app).events = Trail!enrichAuditEventsWithTimeline(timeline, timeline)
  <2>1. Trail!ToSet(<<>>) = {}
    BY DEF Trail!ToSet
  <2>. QED
    BY <1>1, <2>1
<1>3. timeline \in [1 .. n -> Trail!Events]
  BY <1>1 DEF Falls, OfApps
<1>4. PICK whole : /\ whole = Trail!enrichAuditEventsWithTimeline(timeline, timeline)
                   /\ DOMAIN whole = 1 .. n
                   /\ \A i \in 1 .. n :
                         /\ whole[i] = Trail!enrichAuditEventWithTimeline(timeline[i], timeline)
                         /\ Keeps(whole[i], timeline[i])
  BY <1>1, <1>3, EnrichedList
<1>5. PICK i \in 1 .. n : e = whole[i]
  BY <1>2, <1>4 DEF Trail!ToSet
<1>6. PICK d \in Trail!Events : d = timeline[i]
  BY <1>3, <1>5
<1>7. /\ d \in LogEvents /\ d.id \in DOMAIN log /\ log[d.id] = d
      /\ d.app = app /\ d \in OfApps({app})
  <2>1. d \in OfApps({app})
    BY <1>1, <1>5, <1>6 DEF Falls
  <2>. QED
    BY <1>6, <2>1, EventsSortable DEF OfApps
<1>8. /\ e = Trail!enrichAuditEventWithTimeline(d, timeline)
      /\ e.id = d.id /\ e.correlation = d.correlation
  BY <1>4, <1>5, <1>6 DEF Keeps
<1>9. \A c \in Trail!ToSet(timeline) : c \in LogEvents /\ c \in Trail!Events /\ c.app = app
  BY <1>1, EventsSortable DEF OfApps
<1>10. /\ Trail!IsPerson(d.actor) => e.actor = d.actor
       /\ d.detail # 0 => e.detail = d.detail
       /\ \/ e.actor.label = d.actor.label
          \/ \E c \in Trail!ToSet(timeline) : RelatedTo(d, c) /\ e.actor.label = c.actor.label
       /\ (\E c \in Trail!ToSet(timeline) : RelatedTo(d, c) /\ Trail!IsPerson(c.actor))
             => Trail!IsPerson(e.actor)
  <2>1. PICK ids : d.id \in ids /\ Knows(timeline, ids)
    BY <1>1, <1>7
  <2>2. Trail!ToSet(timeline) \subseteq LogEvents
    BY <1>9
  <2>. QED
    BY <1>7, <1>8, <2>1, <2>2, FilledActor
<1>11. ASSUME NEW c \in Trail!Events, Trail!IsPerson(c.actor), c.app = app,
              c.correlation = e.correlation, e.correlation # Trail!None
       PROVE  \E p \in Trail!Events :
                 /\ Trail!IsPerson(p.actor) /\ p.app = app
                 /\ p.correlation = e.correlation /\ p.actor.label = e.actor.label
  <2>1. c \in Trail!ToSet(timeline) /\ RelatedTo(d, c)
    BY <1>1, <1>8, <1>11 DEF OfApps, RelatedTo
  <2>2. Trail!IsPerson(e.actor)
    BY <1>10, <1>11, <2>1
  <2>3. CASE e.actor.label = d.actor.label
    <3>1. Trail!IsPerson(d.actor)
      BY <2>2, <2>3 DEF Trail!IsPerson
    <3>. QED
      BY <1>7, <1>8, <2>3, <3>1
  <2>4. ASSUME NEW p \in Trail!ToSet(timeline), RelatedTo(d, p), e.actor.label = p.actor.label
        PROVE  /\ Trail!IsPerson(p.actor) /\ p.app = app /\ p \in Trail!Events
               /\ p.correlation = e.correlation
    <3>1. Trail!IsPerson(p.actor)
      BY <2>2, <2>4 DEF Trail!IsPerson
    <3>2. p \in Trail!Events /\ p.app = app
      BY <1>9, <2>4
    <3>3. p.id = d.id => p = d
      BY <1>7, <3>2, EventsSortable
    <3>4. p.correlation = e.correlation
      BY <1>8, <2>4, <3>3 DEF RelatedTo
    <3>. QED
      BY <3>1, <3>2, <3>4
  <2>. QED
    BY <1>10, <2>3, <2>4
<1>12. ASSUME Trail!IsShown(Trail!handleAppAuditEvent(app, d))
       PROVE  Trail!handleAppAuditEvent(app, d).events = <<e>>
  <2>. DEFINE shown == Trail!ShowEvent(d)
              reply == IF trouble = "show" THEN Trail!Failed
                        ELSE IF d.app # app THEN Trail!NotFound
                        ELSE shown
  <2>1. Trail!handleAppAuditEvent(app, d) = Trail!WithPlugin(Trail!NotFound, reply)
    BY DEF Trail!handleAppAuditEvent
  <2>2. reply \in {Trail!Failed, shown}
    BY <1>7
  <2>3. app # Trail!Host
    BY AuditAssumption
  <2>4. Trail!enrichAuditEventWithAppTimeline(d) = e
    BY <1>1, <1>2, <1>7, <1>8, <2>3 DEF Trail!enrichAuditEventWithAppTimeline
  <2>5. shown.events = <<e>>
    BY <2>4 DEF Trail!ShowEvent, Trail!Answer
  <2>. HIDE DEF reply, shown
  <2>6. Trail!handleAppAuditEvent(app, d) = shown
    BY <1>12, <2>1, <2>2, ShownIs
  <2>. QED
    BY <2>5, <2>6
<1>. DEFINE persons == {c \in Trail!Events :
                          /\ Trail!IsPerson(c.actor) /\ c.app = app
                          /\ c.correlation = e.correlation /\ e.correlation # Trail!None}
<1>13. persons # {} => e.actor.label \in {c.actor.label : c \in persons}
  <2>1. SUFFICES ASSUME persons # {} PROVE e.actor.label \in {c.actor.label : c \in persons}
    OBVIOUS
  <2>2. PICK c \in persons : TRUE
    BY <2>1
  <2>3. PICK p \in persons : p.actor.label = e.actor.label
    BY <1>11, <2>2
  <2>. QED
    BY <2>3
<1>14. log[e.id] = d
  BY <1>7, <1>8
<1>. HIDE DEF persons
<1>15. /\ Trail!IsPerson(log[e.id].actor) => e.actor = log[e.id].actor
       /\ persons # {} => e.actor.label \in {c.actor.label : c \in persons}
       /\ log[e.id].detail # 0 => e.detail = log[e.id].detail
       /\ Trail!IsShown(Trail!handleAppAuditEvent(app, log[e.id]))
            => Trail!handleAppAuditEvent(app, log[e.id]).events = <<e>>
  BY <1>10, <1>12, <1>13, <1>14
<1>. QED
  BY <1>15, Zenon DEF persons

-----------------------------------------------------------------------------
(***************************************************************************)
(* The flows of the deployments, which come about event by event.          *)
(***************************************************************************)
FlowSet(E) == [correlation : {e.correlation : e \in E}, events : Seq(E),
               status : {e.status : e \in E} \cup {Trail!None}, startedAt : Nat, finishedAt : Nat]

LEMMA ExtendedFields ==
    ASSUME NEW flow, NEW event
    PROVE  LET f == Trail!Extended(flow, event)
           IN  /\ f.correlation = event.correlation
               /\ f.events = Append(flow.events, event)
               /\ f.status = IF event.status # Trail!None THEN event.status ELSE flow.status
               /\ f.startedAt = IF flow.events = <<>> \/ event.time < flow.startedAt
                                  THEN event.time ELSE flow.startedAt
               /\ f.finishedAt = IF flow.events = <<>> \/ event.time > flow.finishedAt
                                   THEN event.time ELSE flow.finishedAt
               /\ f = [correlation |-> f.correlation, events |-> f.events, status |-> f.status,
                       startedAt |-> f.startedAt, finishedAt |-> f.finishedAt]
BY DEF Trail!Extended

LEMMA ExtendedTyped ==
    ASSUME NEW E, Sortable(E), NEW event \in E, NEW flow, flow.events \in Seq(E),
           flow.status \in {e.status : e \in E} \cup {Trail!None},
           flow.startedAt \in Nat, flow.finishedAt \in Nat
    PROVE  Trail!Extended(flow, event) \in FlowSet(E)
<1>. DEFINE f == Trail!Extended(flow, event)
<1>1. event.time \in Nat
  BY DEF Sortable
<1>2. /\ f.correlation = event.correlation
      /\ f.events = Append(flow.events, event)
      /\ f.status \in {event.status, flow.status}
      /\ f.startedAt \in {event.time, flow.startedAt}
      /\ f.finishedAt \in {event.time, flow.finishedAt}
      /\ f = [correlation |-> f.correlation, events |-> f.events, status |-> f.status,
              startedAt |-> f.startedAt, finishedAt |-> f.finishedAt]
  BY ExtendedFields
<1>. HIDE DEF f
<1>3. f.events \in Seq(E)
  BY <1>2
<1>4. /\ f.correlation \in {e.correlation : e \in E}
      /\ f.status \in {e.status : e \in E} \cup {Trail!None}
      /\ f.startedAt \in Nat /\ f.finishedAt \in Nat
  BY <1>1, <1>2
<1>. QED
  BY <1>2, <1>3, <1>4 DEF FlowSet, f

LEMMA NewFlowTyped ==
    ASSUME NEW E, Sortable(E), NEW event \in E
    PROVE  /\ Trail!Extended(Trail!NewFlow, event) \in FlowSet(E)
           /\ Trail!NewFlow.events = <<>> /\ Trail!NewFlow.status = Trail!None
<1>1. /\ Trail!NewFlow.events = <<>> /\ Trail!NewFlow.status = Trail!None
      /\ Trail!NewFlow.startedAt = 0 /\ Trail!NewFlow.finishedAt = 0
  BY DEF Trail!NewFlow
<1>2. PICK flow : flow = Trail!NewFlow
  OBVIOUS
<1>3. flow.events \in Seq(E)
  <2>1. <<>> \in Seq(E)
    OBVIOUS
  <2>. QED
    BY <1>1, <1>2, <2>1, Zenon
<1>4. flow.status \in {e.status : e \in E} \cup {Trail!None}
  BY <1>1, <1>2, Zenon
<1>5. flow.startedAt \in Nat /\ flow.finishedAt \in Nat
  BY <1>1, <1>2
<1>. QED
  BY <1>1, <1>2, <1>3, <1>4, <1>5, ExtendedTyped

LEMMA AddedTyped ==
    ASSUME NEW E, Sortable(E), NEW event \in E, NEW flows \in Seq(FlowSet(E))
    PROVE  Trail!AddToFlows(flows, event) \in Seq(FlowSet(E))
<1>1. ASSUME NEW f \in FlowSet(E) PROVE Trail!Extended(f, event) \in FlowSet(E)
  <2>1. /\ f.events \in Seq(E) /\ f.status \in {e.status : e \in E} \cup {Trail!None}
        /\ f.startedAt \in Nat /\ f.finishedAt \in Nat
    BY DEF FlowSet
  <2>. QED
    BY <2>1, ExtendedTyped
<1>2. CASE \E i \in DOMAIN flows : flows[i].correlation = event.correlation
  <2>1. PICK m \in Nat : m = Len(flows) /\ flows \in [1 .. m -> FlowSet(E)]
    OBVIOUS
  <2>2. [i \in DOMAIN flows |->
            IF flows[i].correlation = event.correlation THEN Trail!Extended(flows[i], event)
                                                        ELSE flows[i]]
           \in [1 .. m -> FlowSet(E)]
    BY <1>1, <2>1
  <2>3. Trail!AddToFlows(flows, event) \in [1 .. m -> FlowSet(E)]
    BY <1>2, <2>2 DEF Trail!AddToFlows
  <2>. QED
    BY <2>3
<1>3. CASE ~\E i \in DOMAIN flows : flows[i].correlation = event.correlation
  <2>1. Trail!AddToFlows(flows, event) = Append(flows, Trail!Extended(Trail!NewFlow, event))
    BY <1>3 DEF Trail!AddToFlows
  <2>2. PICK f \in FlowSet(E) : f = Trail!Extended(Trail!NewFlow, event)
    BY NewFlowTyped
  <2>3. Append(flows, f) \in Seq(FlowSet(E))
    OBVIOUS
  <2>. QED
    BY <2>1, <2>2, <2>3
<1>. QED
  BY <1>2, <1>3

Rises(list, k, Z) ==
    /\ k \in Nat /\ list \in [1 .. k -> Z]
    /\ \A i, j \in 1 .. k : i < j => Trail!Newer(list[j], list[i])

\* The status is the last one that was reported.
LastTold(list, k, status) ==
    \/ status = Trail!None /\ \A i \in 1 .. k : list[i].status = Trail!None
    \/ /\ status # Trail!None
       /\ \E i \in 1 .. k : /\ list[i].status = status
                            /\ \A j \in 1 .. k : j > i => list[j].status = Trail!None

\* A flow of k of the events D, from the oldest to the newest.
IsFlow(f, k, D) ==
    /\ k >= 1 /\ Rises(f.events, k, D)
    /\ \A i \in 1 .. k : f.events[i].correlation = f.correlation
    /\ \A e \in D : e.correlation = f.correlation => \E i \in 1 .. k : f.events[i] = e
    /\ f.startedAt = f.events[1].time /\ f.finishedAt = f.events[k].time
    /\ LastTold(f.events, k, f.status)

LEMMA ToldAppended ==
    ASSUME NEW Z, NEW k \in Nat, NEW list \in [1 .. k -> Z], NEW event, NEW status,
           LastTold(list, k, status), NEW longer,
           \A i \in 1 .. k : longer[i] = list[i], longer[k + 1] = event
    PROVE  LastTold(longer, k + 1,
                    IF event.status # Trail!None THEN event.status ELSE status)
<1>1. \A i \in 1 .. k + 1 : i \in 1 .. k \/ i = k + 1
  OBVIOUS
<1>2. k + 1 \in 1 .. k + 1 /\ \A i \in 1 .. k : i \in 1 .. k + 1
  OBVIOUS
<1>3. CASE event.status # Trail!None
  <2>1. \A j \in 1 .. k + 1 : ~(j > k + 1)
    OBVIOUS
  <2>. QED
    BY <1>2, <1>3, <2>1 DEF LastTold
<1>4. CASE event.status = Trail!None /\ status = Trail!None
  <2>1. \A i \in 1 .. k : list[i].status = Trail!None
    BY <1>4 DEF LastTold
  <2>2. \A i \in 1 .. k + 1 : longer[i].status = Trail!None
    BY <1>1, <1>4, <2>1
  <2>. QED
    BY <1>4, <2>2 DEF LastTold
<1>5. CASE event.status = Trail!None /\ status # Trail!None
  <2>1. PICK i \in 1 .. k : /\ list[i].status = status
                            /\ \A j \in 1 .. k : j > i => list[j].status = Trail!None
    BY <1>5 DEF LastTold
  <2>2. i \in 1 .. k + 1 /\ longer[i].status = status
    BY <1>2, <2>1
  <2>3. \A j \in 1 .. k + 1 : j > i => longer[j].status = Trail!None
    BY <1>1, <1>5, <2>1
  <2>. QED
    BY <1>5, <2>2, <2>3 DEF LastTold
<1>. QED
  BY <1>3, <1>4, <1>5

ComesAfter(event, D) == \A d \in D : Trail!Newer(event, d)

LEMMA FlowGoesOn ==
    ASSUME NEW E, Sortable(E), NEW D \in SUBSET E, NEW event \in E,
           ComesAfter(event, D),
           NEW flow, NEW k, IsFlow(flow, k, D), flow.correlation = event.correlation
    PROVE  /\ IsFlow(Trail!Extended(flow, event), k + 1, D \cup {event})
           /\ Trail!Extended(flow, event).events[1] = flow.events[1]
<1>1. PICK list : list = flow.events
  OBVIOUS
<1>2. /\ k \in Nat /\ k >= 1 /\ list \in [1 .. k -> D] /\ list \in Seq(D) /\ Len(list) = k
      /\ 1 \in 1 .. k /\ k \in 1 .. k
  BY <1>1 DEF IsFlow, Rises
<1>. DEFINE f == Trail!Extended(flow, event)
<1>3. PICK longer : longer = Append(list, event)
  OBVIOUS
<1>4. /\ longer \in [1 .. k + 1 -> D \cup {event}]
      /\ \A i \in 1 .. k : longer[i] = list[i]
      /\ longer[k + 1] = event
  <2>1. list \in Seq(D \cup {event})
    BY <1>2
  <2>2. longer \in Seq(D \cup {event}) /\ Len(longer) = k + 1
    BY <1>2, <1>3, <2>1
  <2>3. \A t \in Seq(D \cup {event}) : t \in [1 .. Len(t) -> D \cup {event}]
    OBVIOUS
  <2>4. longer \in [1 .. k + 1 -> D \cup {event}]
    BY <2>2, <2>3, Zenon
  <2>5. (\A i \in 1 .. k : longer[i] = list[i]) /\ longer[k + 1] = event
    BY <1>2, <1>3, <2>1
  <2>. QED
    BY <2>4, <2>5
<1>5. \A i \in 1 .. k + 1 : i \in 1 .. k \/ i = k + 1
  BY <1>2
<1>6. \A d \in D : d.time \in Nat /\ event.time \in Nat /\ event.time >= d.time
  BY DEF Sortable, Trail!Newer, ComesAfter
<1>7. /\ f.correlation = event.correlation
      /\ f.events = longer
      /\ f.status = IF event.status # Trail!None THEN event.status ELSE flow.status
      /\ f.startedAt = IF list = <<>> \/ event.time < flow.startedAt
                         THEN event.time ELSE flow.startedAt
      /\ f.finishedAt = IF list = <<>> \/ event.time > flow.finishedAt
                          THEN event.time ELSE flow.finishedAt
  BY <1>1, <1>3, ExtendedFields
<1>. HIDE DEF f
<1>8. /\ flow.startedAt = list[1].time /\ flow.finishedAt = list[k].time
      /\ LastTold(list, k, flow.status)
      /\ \A i \in 1 .. k : list[i].correlation = event.correlation
      /\ \A e \in D : e.correlation = event.correlation => \E i \in 1 .. k : list[i] = e
      /\ \A i, j \in 1 .. k : i < j => Trail!Newer(list[j], list[i])
  BY <1>1 DEF IsFlow, Rises
<1>9. Rises(longer, k + 1, D \cup {event})
  <2>1. ASSUME NEW i \in 1 .. k + 1, NEW j \in 1 .. k + 1, i < j
        PROVE  Trail!Newer(longer[j], longer[i])
    <3>1. i \in 1 .. k /\ list[i] \in D
      BY <1>2, <2>1
    <3>2. CASE j = k + 1
      BY <1>4, <3>1, <3>2 DEF ComesAfter
    <3>3. CASE j \in 1 .. k
      BY <1>4, <1>8, <2>1, <3>1, <3>3
    <3>. QED
      BY <1>5, <2>1, <3>2, <3>3
  <2>. QED
    BY <1>2, <1>4, <2>1 DEF Rises
<1>10. \A i \in 1 .. k + 1 : longer[i].correlation = event.correlation
  BY <1>4, <1>5, <1>8
<1>11. \A e \in D \cup {event} :
          e.correlation = event.correlation => \E i \in 1 .. k + 1 : longer[i] = e
  <2>1. k + 1 \in 1 .. k + 1 /\ \A i \in 1 .. k : i \in 1 .. k + 1
    BY <1>2
  <2>2. ASSUME NEW e \in D, e.correlation = event.correlation
        PROVE  \E i \in 1 .. k + 1 : longer[i] = e
    <3>1. PICK i \in 1 .. k : list[i] = e
      BY <1>8, <2>2
    <3>. QED
      BY <1>4, <2>1, <3>1
  <2>. QED
    BY <1>4, <2>1, <2>2
<1>12. f.startedAt = longer[1].time /\ f.finishedAt = longer[k + 1].time
  <2>1. list[1] \in D /\ list[k] \in D /\ list # <<>>
    BY <1>2
  <2>2. list[1].time \in Nat /\ list[k].time \in Nat /\ event.time \in Nat
        /\ event.time >= list[1].time /\ event.time >= list[k].time
    BY <1>6, <2>1
  <2>3. f.startedAt = list[1].time
    BY <1>7, <1>8, <2>1, <2>2
  <2>4. f.finishedAt = event.time
    BY <1>7, <1>8, <2>1, <2>2
  <2>. QED
    BY <1>2, <1>4, <2>3, <2>4
<1>13. LastTold(longer, k + 1, f.status)
  <2>1. PICK status : status = flow.status /\ LastTold(list, k, status)
    BY <1>8
  <2>2. k \in Nat /\ list \in [1 .. k -> D]
    BY <1>2
  <2>3. (\A i \in 1 .. k : longer[i] = list[i]) /\ longer[k + 1] = event
    BY <1>4
  <2>4. LastTold(longer, k + 1, IF event.status # Trail!None THEN event.status ELSE status)
    BY <2>1, <2>2, <2>3, ToldAppended, ZenonT(30)
  <2>. QED
    BY <1>7, <2>1, <2>4
<1>14. k + 1 >= 1 /\ longer[1] = list[1]
  BY <1>2, <1>4
<1>15. IsFlow(f, k + 1, D \cup {event})
  BY <1>7, <1>9, <1>10, <1>11, <1>12, <1>13, <1>14 DEF IsFlow
<1>. QED
  BY <1>1, <1>7, <1>14, <1>15 DEF f

LEMMA FlowStarts ==
    ASSUME NEW E, Sortable(E), NEW D \in SUBSET E, NEW event \in E,
           \A d \in D : d.correlation # event.correlation
    PROVE  /\ IsFlow(Trail!Extended(Trail!NewFlow, event), 1, D \cup {event})
           /\ Trail!Extended(Trail!NewFlow, event).events[1] = event
<1>. DEFINE f == Trail!Extended(Trail!NewFlow, event)
<1>1. /\ f.correlation = event.correlation
      /\ f.events = <<event>>
      /\ f.status = IF event.status # Trail!None THEN event.status ELSE Trail!None
      /\ f.startedAt = event.time /\ f.finishedAt = event.time
  <2>1. Append(<<>>, event) = <<event>>
    OBVIOUS
  <2>. QED
    BY <2>1, NewFlowTyped, ExtendedFields
<1>. HIDE DEF f
<1>2. PICK list : list = <<event>>
  OBVIOUS
<1>3. /\ list \in [1 .. 1 -> D \cup {event}] /\ list[1] = event
      /\ \A i \in 1 .. 1 : i = 1 /\ 1 \in 1 .. 1
  BY <1>2
<1>4. Rises(list, 1, D \cup {event})
  <2>1. \A i, j \in 1 .. 1 : ~(i < j)
    OBVIOUS
  <2>. QED
    BY <1>3, <2>1 DEF Rises
<1>5. LastTold(list, 1, f.status)
  <2>1. f.status = event.status
    BY <1>1
  <2>2. CASE event.status = Trail!None
    BY <1>3, <2>1, <2>2 DEF LastTold
  <2>3. CASE event.status # Trail!None
    <3>1. \A j \in 1 .. 1 : ~(j > 1)
      OBVIOUS
    <3>. QED
      BY <1>3, <2>1, <2>3, <3>1 DEF LastTold
  <2>. QED
    BY <2>2, <2>3
<1>6. /\ \A i \in 1 .. 1 : list[i].correlation = event.correlation
      /\ \A e \in D \cup {event} :
            e.correlation = event.correlation => \E i \in 1 .. 1 : list[i] = e
  BY <1>3
<1>7. IsFlow(f, 1, D \cup {event})
  BY <1>1, <1>2, <1>3, <1>4, <1>5, <1>6 DEF IsFlow
<1>. QED
  BY <1>1, <1>2, <1>3, <1>7 DEF f

LEMMA FlowStays ==
    ASSUME NEW D, NEW event, NEW flow, NEW k, IsFlow(flow, k, D),
           flow.correlation # event.correlation
    PROVE  IsFlow(flow, k, D \cup {event})
<1>1. Rises(flow.events, k, D \cup {event})
  BY DEF IsFlow, Rises
<1>2. \A e \in D \cup {event} :
         e.correlation = flow.correlation => \E i \in 1 .. k : flow.events[i] = e
  BY DEF IsFlow
<1>. QED
  BY <1>1, <1>2 DEF IsFlow

\* One flow for each deployment, those that began first before the others.
AreFlows(flows, D) ==
    /\ Len(flows) \in Nat
    /\ \A i \in 1 .. Len(flows) : \E k : IsFlow(flows[i], k, D)
    /\ \A e \in D : \E i \in 1 .. Len(flows) : flows[i].correlation = e.correlation
    /\ \A i, j \in 1 .. Len(flows) :
          i < j => Trail!Newer(flows[j].events[1], flows[i].events[1])

LEMMA FlowsGrow ==
    ASSUME NEW E, Sortable(E), NEW D \in SUBSET E, NEW event \in E,
           ComesAfter(event, D),
           NEW flows \in Seq(FlowSet(E)), AreFlows(flows, D)
    PROVE  AreFlows(Trail!AddToFlows(flows, event), D \cup {event})
<1>1. PICK m \in Nat : m = Len(flows) /\ DOMAIN flows = 1 .. m
  OBVIOUS
<1>2. /\ \A i \in 1 .. m : \E k : IsFlow(flows[i], k, D)
      /\ \A e \in D : \E i \in 1 .. m : flows[i].correlation = e.correlation
      /\ \A i, j \in 1 .. m : i < j => Trail!Newer(flows[j].events[1], flows[i].events[1])
  BY <1>1 DEF AreFlows
<1>. DEFINE grown == Trail!AddToFlows(flows, event)
<1>3. CASE \E i \in 1 .. m : flows[i].correlation = event.correlation
  <2>1. grown = [i \in 1 .. m |->
                    IF flows[i].correlation = event.correlation
                      THEN Trail!Extended(flows[i], event) ELSE flows[i]]
    BY <1>1, <1>3 DEF Trail!AddToFlows
  <2>. HIDE DEF grown
  <2>2. Len(grown) = m
    BY <1>1, <2>1
  <2>3. ASSUME NEW i \in 1 .. m
        PROVE  /\ \E k : IsFlow(grown[i], k, D \cup {event})
               /\ grown[i].events[1] = flows[i].events[1]
               /\ grown[i].correlation = flows[i].correlation
    <3>1. PICK k : IsFlow(flows[i], k, D)
      BY <1>2
    <3>2. PICK flow : flow = flows[i]
      OBVIOUS
    <3>3. CASE flow.correlation = event.correlation
      <4>1. grown[i] = Trail!Extended(flow, event)
        BY <2>1, <3>2, <3>3
      <4>2. /\ IsFlow(Trail!Extended(flow, event), k + 1, D \cup {event})
            /\ Trail!Extended(flow, event).events[1] = flow.events[1]
        <5>1. IsFlow(flow, k, D)
          BY <3>1, <3>2
        <5>. QED
          BY <3>3, <5>1, FlowGoesOn
      <4>3. Trail!Extended(flow, event).correlation = event.correlation
        BY ExtendedFields
      <4>. QED
        BY <3>2, <3>3, <4>1, <4>2, <4>3
    <3>4. CASE flow.correlation # event.correlation
      <4>1. grown[i] = flow
        BY <2>1, <3>2, <3>4
      <4>2. IsFlow(flow, k, D \cup {event})
        BY <3>1, <3>2, <3>4, FlowStays
      <4>. QED
        BY <3>2, <4>1, <4>2
    <3>. QED
      BY <3>3, <3>4
  <2>4. \A e \in D \cup {event} : \E i \in 1 .. m : grown[i].correlation = e.correlation
    BY <1>2, <1>3, <2>3
  <2>5. \A i, j \in 1 .. m : i < j => Trail!Newer(grown[j].events[1], grown[i].events[1])
    BY <1>2, <2>3
  <2>6. AreFlows(grown, D \cup {event})
    BY <1>1, <2>2, <2>3, <2>4, <2>5 DEF AreFlows
  <2>. QED
    BY <2>6 DEF grown
<1>4. CASE ~\E i \in 1 .. m : flows[i].correlation = event.correlation
  <2>1. PICK started \in FlowSet(E) : started = Trail!Extended(Trail!NewFlow, event)
    BY NewFlowTyped
  <2>2. grown = Append(flows, started)
    BY <1>1, <1>4, <2>1 DEF Trail!AddToFlows
  <2>. HIDE DEF grown
  <2>3. /\ Len(grown) = m + 1 /\ grown[m + 1] = started
        /\ \A i \in 1 .. m : grown[i] = flows[i]
    BY <1>1, <2>2
  <2>4. /\ \A i \in 1 .. m + 1 : i \in 1 .. m \/ i = m + 1
        /\ m + 1 \in 1 .. m + 1 /\ \A i \in 1 .. m : i \in 1 .. m + 1
    OBVIOUS
  <2>5. \A d \in D : d.correlation # event.correlation
    BY <1>2, <1>4
  <2>6. /\ IsFlow(started, 1, D \cup {event}) /\ started.events[1] = event
        /\ started.correlation = event.correlation
    <3>1. /\ IsFlow(Trail!Extended(Trail!NewFlow, event), 1, D \cup {event})
          /\ Trail!Extended(Trail!NewFlow, event).events[1] = event
      BY <2>5, FlowStarts
    <3>2. Trail!Extended(Trail!NewFlow, event).correlation = event.correlation
      BY ExtendedFields
    <3>. QED
      BY <2>1, <3>1, <3>2
  <2>7. ASSUME NEW i \in 1 .. m
        PROVE  /\ \E k : IsFlow(grown[i], k, D \cup {event})
               /\ grown[i].events[1] \in D
    <3>1. PICK k : IsFlow(flows[i], k, D)
      BY <1>2
    <3>2. IsFlow(flows[i], k, D \cup {event})
      BY <1>4, <3>1, FlowStays
    <3>3. flows[i].events[1] \in D
      BY <3>1 DEF IsFlow, Rises
    <3>. QED
      BY <2>3, <3>2, <3>3
  <2>8. \A i \in 1 .. m + 1 : \E k : IsFlow(grown[i], k, D \cup {event})
    BY <2>3, <2>4, <2>6, <2>7
  <2>9. \A e \in D \cup {event} : \E i \in 1 .. m + 1 : grown[i].correlation = e.correlation
    BY <1>2, <2>3, <2>4, <2>6
  <2>10. ASSUME NEW i \in 1 .. m + 1, NEW j \in 1 .. m + 1, i < j
         PROVE  Trail!Newer(grown[j].events[1], grown[i].events[1])
    <3>1. i \in 1 .. m
      BY <2>10
    <3>2. CASE j = m + 1
      BY <2>3, <2>6, <2>7, <3>1, <3>2 DEF ComesAfter
    <3>3. CASE j \in 1 .. m
      BY <1>2, <2>3, <2>10, <3>1, <3>3
    <3>. QED
      BY <2>4, <2>10, <3>2, <3>3
  <2>11. AreFlows(grown, D \cup {event})
    <3>1. PICK last : last = m + 1 /\ last \in Nat
      OBVIOUS
    <3>2. Len(grown) = last
      BY <2>3, <3>1
    <3>3. /\ \A i \in 1 .. last : \E k : IsFlow(grown[i], k, D \cup {event})
          /\ \A e \in D \cup {event} : \E i \in 1 .. last : grown[i].correlation = e.correlation
          /\ \A i, j \in 1 .. last :
                i < j => Trail!Newer(grown[j].events[1], grown[i].events[1])
      BY <2>8, <2>9, <2>10, <3>1
    <3>. QED
      BY <3>1, <3>2, <3>3 DEF AreFlows
  <2>. QED
    BY <2>11 DEF grown
<1>. QED
  BY <1>3, <1>4

\* By the loop over the events, from the oldest.
LEMMA Grouped ==
    ASSUME NEW E, Sortable(E), NEW n, NEW list, Falls(list, n, E), Covers(list, n, E)
    PROVE  \E flows \in Seq(FlowSet(E)) :
              /\ Trail!GroupAuditEventsByCorrelation(list) = Trail!Reverse(flows)
              /\ AreFlows(flows, E)
<1>. DEFINE X == Seq(FlowSet(E))
            last == Len(list)
            order == Trail!Reverse(list)
            turn == [k \in 1 .. last |-> [flows \in X |-> Trail!AddToFlows(flows, order[k])]]
            IsGrouped(g) == g = [k \in 0 .. last |->
                                    IF k = 0 THEN <<>>
                                    ELSE Trail!AddToFlows(g[k - 1], order[k])]
            Done(k) == {order[j] : j \in 1 .. k}
<1>1. /\ last = n /\ last \in Nat
      /\ \A k \in 1 .. last : order[k] = list[(last - k) + 1] /\ (last - k) + 1 \in 1 .. n
  <2>1. n \in Nat /\ list \in [1 .. n -> E]
    BY DEF Falls
  <2>2. last = n
    BY <2>1
  <2>. HIDE DEF last
  <2>3. \A k \in 1 .. last : order[k] = list[(last - k) + 1]
    BY DEF Trail!Reverse, last
  <2>4. \A k \in 1 .. last : (last - k) + 1 \in 1 .. n
    BY <2>1, <2>2
  <2>. QED
    BY <2>1, <2>2, <2>3, <2>4
<1>2. \A k \in 1 .. last : order[k] \in E
  <2>. HIDE DEF last, order
  <2>. QED
    BY <1>1 DEF Falls
<1>3. turn \in [1 .. last -> [X -> X]]
  <2>1. \A k \in 1 .. last : \A flows \in X : Trail!AddToFlows(flows, order[k]) \in X
    <3>. HIDE DEF last, order
    <3>. QED
      BY <1>2, AddedTyped
  <2>. HIDE DEF X, last, order
  <2>. QED
    BY <2>1
<1>4. <<>> \in X
  OBVIOUS
<1>5. PICK f : Course(f, X, <<>>, turn, last)
  <2>. HIDE DEF X, last, order, turn
  <2>. QED
    BY <1>1, <1>3, <1>4, CourseExists
<1>6. /\ f[0] = <<>>
      /\ \A k \in 0 .. last : f[k] \in X
      /\ \A k \in 1 .. last : f[k] = turn[k][f[k - 1]]
      /\ f = [k \in 0 .. last |-> IF k = 0 THEN <<>> ELSE turn[k][f[k - 1]]]
  <2>. HIDE DEF X, last, order, turn
  <2>. QED
    BY <1>1, <1>5 DEF Course
<1>7. \A k \in 1 .. last : f[k] = Trail!AddToFlows(f[k - 1], order[k])
  <2>1. \A k \in 1 .. last : k - 1 \in 0 .. last
    BY <1>1
  <2>. HIDE DEF X, order
  <2>. QED
    BY <1>6, <2>1
<1>8. IsGrouped(f)
  <2>1. \A k \in 0 .. last : k # 0 => k \in 1 .. last
    BY <1>1
  <2>2. \A k \in 0 .. last : f[k] = IF k = 0 THEN <<>>
                                    ELSE Trail!AddToFlows(f[k - 1], order[k])
    <3>. HIDE DEF X, order, turn
    <3>. QED
      BY <1>6, <1>7, <2>1
  <2>3. f = [k \in 0 .. last |-> f[k]]
    <3>. HIDE DEF X, order, last, turn
    <3>. QED
      BY <1>6
  <2>. HIDE DEF X, order, last, turn
  <2>. QED
    BY <2>2, <2>3
<1>9. PICK g : /\ IsGrouped(g)
               /\ Trail!GroupAuditEventsByCorrelation(list) = Trail!Reverse(g[last])
  <2>1. \E g : IsGrouped(g)
    BY <1>8
  <2>. QED
    BY <2>1 DEF Trail!GroupAuditEventsByCorrelation
<1>10. Follows(g, X, <<>>, turn, last)
  <2>1. \A k \in 0 .. last : g[k] = IF k = 0 THEN <<>>
                                    ELSE Trail!AddToFlows(g[k - 1], order[k])
    <3>. HIDE DEF X, order, turn
    <3>. QED
      BY <1>9
  <2>2. 0 \in 0 .. last /\ \A k \in 1 .. last : k \in 0 .. last /\ k # 0
    BY <1>1
  <2>3. g[0] = <<>>
    <3>. HIDE DEF X, order, last, turn, IsGrouped
    <3>. QED
      BY <2>1, <2>2
  <2>4. \A k \in 1 .. last : g[k] = Trail!AddToFlows(g[k - 1], order[k])
    <3>. HIDE DEF X, order, last, turn, IsGrouped
    <3>. QED
      BY <2>1, <2>2
  <2>5. \A k \in 1 .. last : g[k - 1] \in X => g[k] = turn[k][g[k - 1]]
    <3>. HIDE DEF X, order, last, IsGrouped
    <3>. QED
      BY <2>4
  <2>. HIDE DEF X, order, last, turn, IsGrouped
  <2>. QED
    BY <2>3, <2>5 DEF Follows
<1>11. Agree(f, g, last)
  <2>. HIDE DEF X, order, last, turn, IsGrouped
  <2>. QED
    BY <1>5, <1>10, OneCourse, Zenon
<1>12. last \in 0 .. last
  BY <1>1
<1>13. g[last] = f[last] /\ f[last] \in X
  <2>. HIDE DEF X, order, last, turn, IsGrouped
  <2>. QED
    BY <1>6, <1>11, <1>12 DEF Agree
<1>14. AreFlows(f[last], Done(last))
  <2>. HIDE DEF X, last, order, turn, IsGrouped
  <2>. DEFINE T == {k \in 0 .. last : AreFlows(f[k], Done(k))}
  <2>1. 0 \in T
    <3>1. Done(0) = {} /\ 0 \in 0 .. last
      BY <1>1
    <3>2. AreFlows(<<>>, {})
      BY DEF AreFlows
    <3>. HIDE DEF Done
    <3>. QED
      BY <1>6, <3>1, <3>2
  <2>2. ASSUME NEW k \in 1 .. last, k - 1 \in T PROVE k \in T
    <3>1. AreFlows(f[k - 1], Done(k - 1)) /\ k - 1 \in 0 .. last /\ k \in 0 .. last
      BY <1>1, <2>2
    <3>2. Done(k) = Done(k - 1) \cup {order[k]}
      <4>1. \A j \in 1 .. k : j \in 1 .. k - 1 \/ j = k
        BY <1>1, <2>2
      <4>2. k \in 1 .. k /\ \A j \in 1 .. k - 1 : j \in 1 .. k
        BY <1>1, <2>2
      <4>. QED
        BY <4>1, <4>2
    <3>3. \A j \in 1 .. k - 1 : Trail!Newer(order[k], order[j])
      <4>. SUFFICES ASSUME NEW j \in 1 .. k - 1 PROVE Trail!Newer(order[k], order[j])
        OBVIOUS
      <4>1. j \in 1 .. last /\ (last - k) + 1 < (last - j) + 1
        BY <1>1, <2>2
      <4>2. (last - k) + 1 \in 1 .. n /\ (last - j) + 1 \in 1 .. n
        BY <1>1, <2>2, <4>1
      <4>3. order[k] = list[(last - k) + 1] /\ order[j] = list[(last - j) + 1]
        BY <1>1, <2>2, <4>1
      <4>. QED
        BY <4>1, <4>2, <4>3 DEF Falls
    <3>4. Done(k - 1) \in SUBSET E /\ \A d \in Done(k - 1) : Trail!Newer(order[k], d)
      <4>1. \A j \in 1 .. k - 1 : j \in 1 .. last
        BY <1>1, <2>2
      <4>. QED
        BY <1>2, <3>3, <4>1
    <3>5. order[k] \in E /\ f[k - 1] \in Seq(FlowSet(E))
      BY <1>2, <1>6, <2>2, <3>1 DEF X
    <3>. HIDE DEF Done
    <3>6. PICK D \in SUBSET E, event \in E, flows \in Seq(FlowSet(E)) :
             D = Done(k - 1) /\ event = order[k] /\ flows = f[k - 1]
      BY <3>4, <3>5
    <3>7. ComesAfter(event, D)
      BY <3>4, <3>6 DEF ComesAfter
    <3>8. AreFlows(Trail!AddToFlows(flows, event), D \cup {event})
      BY <3>1, <3>6, <3>7, FlowsGrow
    <3>9. f[k] = Trail!AddToFlows(flows, event)
      BY <1>7, <2>2, <3>6
    <3>. QED
      BY <3>1, <3>2, <3>6, <3>8, <3>9
  <2>. HIDE DEF T
  <2>3. last \in T
    BY <1>1, <1>12, <2>1, <2>2, Throughout
  <2>. QED
    BY <2>3 DEF T
<1>15. Done(last) = E
  <2>1. ASSUME NEW e \in E PROVE e \in Done(last)
    <3>1. PICK i \in 1 .. n : list[i] = e
      BY DEF Covers
    <3>2. (last - i) + 1 \in 1 .. last /\ (last - ((last - i) + 1)) + 1 = i
      <4>. HIDE DEF last
      <4>. QED
        BY <1>1
    <3>3. order[(last - i) + 1] = e
      <4>. HIDE DEF last, order
      <4>. QED
        BY <1>1, <3>1, <3>2
    <3>. HIDE DEF last, order
    <3>. QED
      BY <3>2, <3>3
  <2>. HIDE DEF last, order
  <2>. QED
    BY <1>2, <2>1
<1>. HIDE DEF order, last, turn, IsGrouped, Done
<1>. QED
  BY <1>9, <1>13, <1>14, <1>15 DEF X

LEMMA FlowIs ==
    ASSUME NEW E, Sortable(E), NEW f, NEW k, IsFlow(f, k, E)
    PROVE  Trail!IsFlowOf(f, {e \in E : e.correlation = f.correlation})
<1>. DEFINE events == {e \in E : e.correlation = f.correlation}
            said == {e \in events : e.status # Trail!None}
<1>1. PICK list : list = f.events
  OBVIOUS
<1>2. /\ k \in Nat /\ k >= 1 /\ 1 \in 1 .. k /\ k \in 1 .. k
      /\ list \in [1 .. k -> events] /\ Len(list) = k
      /\ \A e \in events : \E i \in 1 .. k : list[i] = e
      /\ \A i, j \in 1 .. k : i < j => Trail!Newer(list[j], list[i])
      /\ f.startedAt = list[1].time /\ f.finishedAt = list[k].time
      /\ LastTold(list, k, f.status)
  BY <1>1 DEF IsFlow, Rises
<1>3. Sortable(events) /\ Sortable(said)
  BY PartSortable
<1>. HIDE DEF events
<1>4. PICK n, newest : /\ newest = Trail!NewestFirst(events)
                       /\ Falls(newest, n, events) /\ Covers(newest, n, events)
  BY <1>3, NewestFalls
<1>5. PICK turned : turned = [i \in 1 .. k |-> list[(k - i) + 1]]
  OBVIOUS
<1>6. \A i \in 1 .. k : (k - i) + 1 \in 1 .. k /\ (k - ((k - i) + 1)) + 1 = i
  BY <1>2
<1>7. Falls(turned, k, events)
  <2>1. turned \in [1 .. k -> events]
    BY <1>2, <1>5, <1>6
  <2>2. ASSUME NEW i \in 1 .. k, NEW j \in 1 .. k, i < j
        PROVE  Trail!Newer(turned[i], turned[j])
    <3>1. (k - j) + 1 < (k - i) + 1 /\ (k - j) + 1 \in 1 .. k /\ (k - i) + 1 \in 1 .. k
      BY <1>2, <1>6, <2>2
    <3>. QED
      BY <1>2, <1>5, <2>2, <3>1
  <2>. QED
    BY <1>2, <2>1, <2>2 DEF Falls
<1>8. k = n /\ turned = newest
  <2>1. \A i \in 1 .. k : \E j \in 1 .. n : turned[i] = newest[j]
    BY <1>4, <1>7 DEF Falls, Covers
  <2>2. \A j \in 1 .. n : \E i \in 1 .. k : newest[j] = turned[i]
    <3>. SUFFICES ASSUME NEW j \in 1 .. n PROVE \E i \in 1 .. k : newest[j] = turned[i]
      OBVIOUS
    <3>1. PICK p \in 1 .. k : list[p] = newest[j]
      BY <1>2, <1>4 DEF Falls
    <3>2. turned[(k - p) + 1] = list[p]
      BY <1>5, <1>6
    <3>. QED
      BY <1>6, <3>1, <3>2
  <2>. QED
    BY <1>3, <1>4, <1>7, <2>1, <2>2, OneList
<1>9. /\ Len(newest) = k
      /\ \A i \in 1 .. k : newest[i] = list[(k - i) + 1]
  BY <1>2, <1>5, <1>8
<1>10. list = Trail!Reverse(newest)
  <2>1. Trail!Reverse(newest) = [i \in 1 .. k |-> newest[(k - i) + 1]]
    BY <1>9 DEF Trail!Reverse
  <2>2. \A i \in 1 .. k : newest[(k - i) + 1] = list[i]
    BY <1>6, <1>9
  <2>3. list = [i \in 1 .. k |-> list[i]]
    BY <1>2
  <2>. QED
    BY <2>1, <2>2, <2>3
<1>11. newest[1] = list[k] /\ Trail!Last(newest) = list[1]
  <2>1. (k - 1) + 1 = k /\ (k - k) + 1 = 1
    BY <1>2
  <2>. QED
    BY <1>2, <1>9, <2>1 DEF Trail!Last
<1>12. f.status = IF said = {} THEN Trail!None ELSE Trail!NewestFirst(said)[1].status
  <2>1. CASE f.status = Trail!None
    <3>1. \A i \in 1 .. k : list[i].status = Trail!None
      BY <1>2, <2>1 DEF LastTold
    <3>2. said = {}
      BY <1>2, <3>1
    <3>. QED
      BY <2>1, <3>2
  <2>2. CASE f.status # Trail!None
    <3>1. PICK i \in 1 .. k : /\ list[i].status = f.status
                              /\ \A j \in 1 .. k : j > i => list[j].status = Trail!None
      BY <1>2, <2>2 DEF LastTold
    <3>2. list[i] \in said
      BY <1>2, <2>2, <3>1
    <3>3. \A e \in said : e = list[i] \/ Trail!Newer(list[i], e)
      <4>. SUFFICES ASSUME NEW e \in said PROVE e = list[i] \/ Trail!Newer(list[i], e)
        OBVIOUS
      <4>1. PICK j \in 1 .. k : list[j] = e
        BY <1>2
      <4>2. ~(j > i)
        BY <3>1, <4>1
      <4>3. j = i \/ j < i
        BY <1>2, <4>2
      <4>. QED
        BY <1>2, <4>1, <4>3
    <3>4. PICK m, first : /\ first = Trail!NewestFirst(said)
                          /\ Falls(first, m, said) /\ Covers(first, m, said)
      BY <1>3, NewestFalls
    <3>5. PICK p \in 1 .. m : first[p] = list[i]
      BY <3>2, <3>4 DEF Covers
    <3>6. m \in Nat /\ 1 \in 1 .. m /\ first[1] \in said
      BY <3>4, <3>5 DEF Falls
    <3>. HIDE DEF said
    <3>7. p = 1
      <4>1. SUFFICES ASSUME 1 < p PROVE FALSE
        BY <3>5, <3>6
      <4>2. Trail!Newer(first[1], list[i])
        BY <3>4, <3>5, <3>6, <4>1 DEF Falls
      <4>3. first[1] = list[i] \/ Trail!Newer(list[i], first[1])
        BY <3>3, <3>6
      <4>. QED
        BY <1>3, <3>2, <3>6, <4>2, <4>3, NewerIsOrder
    <3>. QED
      BY <3>1, <3>2, <3>4, <3>5, <3>7
  <2>. QED
    BY <2>1, <2>2
<1>13. Trail!IsFlowOf(f, events)
  <2>. HIDE DEF said
  <2>1. f.events = Trail!Reverse(Trail!NewestFirst(events))
    BY <1>1, <1>4, <1>10
  <2>2. /\ f.startedAt = Trail!Last(Trail!NewestFirst(events)).time
        /\ f.finishedAt = Trail!NewestFirst(events)[1].time
    BY <1>2, <1>4, <1>11
  <2>. QED
    BY <1>12, <2>1, <2>2 DEF Trail!IsFlowOf, said
<1>. QED
  BY <1>13 DEF events

\* A list without the events that belong to no deployment: the others, in their order.
LEMMA Filtered ==
    ASSUME NEW Z, NEW n, NEW list, Falls(list, n, Z), NEW E \in SUBSET Z,
           E = {e \in Trail!ToSet(list) : e.correlation # Trail!None}
    PROVE  \E m, filtered : /\ filtered = Trail!filterAuditEventsWithCorrelation(list)
                            /\ Falls(filtered, m, E) /\ Covers(filtered, m, E)
<1>. DEFINE Kept(s, k, m) ==
                 /\ Falls(s, m, E)
                 /\ \A i \in 1 .. m : \E j \in 1 .. k : s[i] = list[j]
                 /\ \A j \in 1 .. k : list[j] \in E => \E i \in 1 .. m : s[i] = list[j]
            Next_(s, k) == IF list[k].correlation = Trail!None THEN s ELSE Append(s, list[k])
            IsFiltered(g) == g = [k \in 0 .. n |-> IF k = 0 THEN <<>> ELSE Next_(g[k - 1], k)]
            turn == [k \in 1 .. n |-> [s \in Seq(E) |-> Next_(s, k)]]
<1>1. /\ n \in Nat /\ Len(list) = n /\ list \in [1 .. n -> Z]
      /\ \A k \in 1 .. n : list[k].correlation # Trail!None <=> list[k] \in E
  <2>1. n \in Nat /\ list \in [1 .. n -> Z]
    BY DEF Falls
  <2>2. \A k \in 1 .. n : list[k] \in Trail!ToSet(list)
    BY <2>1 DEF Trail!ToSet
  <2>. QED
    BY <2>1, <2>2
<1>2. turn \in [1 .. n -> [Seq(E) -> Seq(E)]]
  <2>1. \A k \in 1 .. n : \A s \in Seq(E) : Next_(s, k) \in Seq(E)
    BY <1>1
  <2>. HIDE DEF Next_
  <2>. QED
    BY <2>1
<1>3. PICK f : Course(f, Seq(E), <<>>, turn, n)
  <2>1. n \in Nat /\ <<>> \in Seq(E)
    BY <1>1
  <2>. HIDE DEF turn
  <2>. QED
    BY <1>2, <2>1, CourseExists
<1>4. /\ f[0] = <<>>
      /\ \A k \in 0 .. n : f[k] \in Seq(E)
      /\ f = [k \in 0 .. n |-> IF k = 0 THEN <<>> ELSE turn[k][f[k - 1]]]
  <2>. HIDE DEF turn
  <2>. QED
    BY <1>1, <1>3 DEF Course
<1>5. \A k \in 1 .. n : f[k] = Next_(f[k - 1], k)
  <2>1. \A k \in 1 .. n : k - 1 \in 0 .. n /\ k \in 0 .. n /\ k # 0
    BY <1>1
  <2>2. \A k \in 1 .. n : f[k] = turn[k][f[k - 1]]
    <3>. HIDE DEF turn
    <3>. QED
      BY <1>4, <2>1
  <2>. HIDE DEF Next_
  <2>. QED
    BY <1>4, <2>1, <2>2
<1>6. IsFiltered(f)
  <2>1. \A k \in 0 .. n : k # 0 => k \in 1 .. n
    BY <1>1
  <2>2. \A k \in 0 .. n : f[k] = IF k = 0 THEN <<>> ELSE Next_(f[k - 1], k)
    <3>. HIDE DEF Next_, turn
    <3>. QED
      BY <1>4, <1>5, <2>1
  <2>3. f = [k \in 0 .. n |-> f[k]]
    <3>. HIDE DEF turn
    <3>. QED
      BY <1>4
  <2>. HIDE DEF Next_
  <2>. QED
    BY <2>2, <2>3
<1>7. PICK g : IsFiltered(g) /\ Trail!filterAuditEventsWithCorrelation(list) = g[n]
  <2>1. \E g : IsFiltered(g)
    BY <1>6
  <2>. QED
    BY <1>1, <2>1 DEF Trail!filterAuditEventsWithCorrelation
<1>8. Follows(g, Seq(E), <<>>, turn, n)
  <2>1. \A k \in 0 .. n : g[k] = IF k = 0 THEN <<>> ELSE Next_(g[k - 1], k)
    <3>. HIDE DEF Next_
    <3>. QED
      BY <1>7
  <2>2. 0 \in 0 .. n /\ \A k \in 1 .. n : k \in 0 .. n /\ k # 0
    BY <1>1
  <2>. HIDE DEF Next_, IsFiltered
  <2>3. g[0] = <<>> /\ \A k \in 1 .. n : g[k] = Next_(g[k - 1], k)
    BY <2>1, <2>2
  <2>4. \A k \in 1 .. n : g[k - 1] \in Seq(E) => g[k] = turn[k][g[k - 1]]
    BY <2>3
  <2>. HIDE DEF turn
  <2>. QED
    BY <2>3, <2>4 DEF Follows
<1>9. g[n] = f[n]
  <2>1. Agree(f, g, n)
    <3>. HIDE DEF turn
    <3>. QED
      BY <1>3, <1>8, OneCourse, Zenon
  <2>. QED
    BY <1>1, <2>1 DEF Agree
<1>. DEFINE T == {k \in 0 .. n : \E m : Kept(f[k], k, m)}
<1>10. 0 \in T
  <2>1. Kept(<<>>, 0, 0)
    BY DEF Falls
  <2>. HIDE DEF Kept
  <2>. QED
    BY <1>1, <1>4, <2>1
<1>11. ASSUME NEW k \in 1 .. n, k - 1 \in T PROVE k \in T
  <2>1. PICK m, s : Kept(s, k - 1, m) /\ s = f[k - 1]
    BY <1>11
  <2>2. /\ m \in Nat /\ s \in [1 .. m -> E] /\ s \in Seq(E) /\ Len(s) = m
        /\ \A i, j \in 1 .. m : i < j => Trail!Newer(s[i], s[j])
    <3>1. m \in Nat /\ s \in [1 .. m -> E] /\ s \in Seq(E)
      BY <1>4, <1>11, <2>1 DEF Falls
    <3>2. Len(s) = m
      BY <3>1
    <3>. QED
      BY <2>1, <3>1, <3>2 DEF Falls
  <2>3. \A j \in 1 .. k : j \in 1 .. k - 1 \/ j = k
    BY <1>1
  <2>4. k \in 1 .. k /\ \A j \in 1 .. k - 1 : j \in 1 .. k /\ j \in 1 .. n /\ j < k
    BY <1>1
  <2>5. CASE list[k] \notin E
    <3>1. f[k] = s
      BY <1>1, <1>5, <2>1, <2>5
    <3>2. Kept(s, k, m)
      BY <2>1, <2>3, <2>4, <2>5
    <3>. HIDE DEF Kept
    <3>. QED
      BY <1>1, <3>1, <3>2
  <2>6. CASE list[k] \in E
    <3>1. PICK t : t = Append(s, list[k]) /\ f[k] = t
      BY <1>1, <1>5, <2>1, <2>6
    <3>2. /\ t \in [1 .. m + 1 -> E] /\ m + 1 \in Nat
          /\ t[m + 1] = list[k]
          /\ \A i \in 1 .. m : t[i] = s[i]
      <4>1. t \in Seq(E) /\ Len(t) = m + 1 /\ t[m + 1] = list[k]
        BY <2>2, <2>6, <3>1
      <4>2. \A i \in 1 .. m : t[i] = s[i]
        BY <2>2, <3>1
      <4>3. t \in [1 .. Len(t) -> E]
        BY <4>1
      <4>. QED
        BY <2>2, <4>1, <4>2, <4>3
    <3>3. \A i \in 1 .. m + 1 : i \in 1 .. m \/ i = m + 1
      BY <2>2
    <3>4. \A i \in 1 .. m : i \in 1 .. m + 1
      BY <2>2
    <3>5. \A i \in 1 .. m : Trail!Newer(t[i], list[k])
      <4>. SUFFICES ASSUME NEW i \in 1 .. m PROVE Trail!Newer(t[i], list[k])
        OBVIOUS
      <4>1. PICK j \in 1 .. k - 1 : s[i] = list[j]
        BY <2>1
      <4>. QED
        BY <2>4, <3>2, <4>1 DEF Falls
    <3>6. \A i, j \in 1 .. m + 1 : i < j => Trail!Newer(t[i], t[j])
      <4>1. \A i, j \in 1 .. m + 1 : i < j => i \in 1 .. m
        BY <2>2
      <4>. QED
        BY <2>2, <3>2, <3>3, <3>5, <4>1
    <3>7. Falls(t, m + 1, E)
      BY <3>2, <3>6 DEF Falls
    <3>8. \A i \in 1 .. m + 1 : \E j \in 1 .. k : t[i] = list[j]
      BY <2>1, <2>4, <3>2, <3>3
    <3>9. \A j \in 1 .. k : list[j] \in E => \E i \in 1 .. m + 1 : t[i] = list[j]
      <4>1. m + 1 \in 1 .. m + 1
        BY <2>2
      <4>. QED
        BY <2>1, <2>3, <3>2, <3>4, <4>1
    <3>10. \E p : Kept(t, k, p)
      <4>1. PICK p : p = m + 1
        OBVIOUS
      <4>2. Kept(t, k, p)
        BY <3>7, <3>8, <3>9, <4>1
      <4>. HIDE DEF Kept
      <4>. QED
        BY <4>2
    <3>. HIDE DEF Kept
    <3>11. \E p : Kept(f[k], k, p)
      BY <3>1, <3>10
    <3>12. k \in 0 .. n
      BY <1>1
    <3>. QED
      BY <3>11, <3>12
  <2>. QED
    BY <2>5, <2>6
<1>12. PICK m : Kept(f[n], n, m)
  <2>1. n \in Nat /\ n \in 0 .. n
    BY <1>1
  <2>. HIDE DEF T
  <2>2. n \in T
    BY <1>10, <1>11, <2>1, Throughout
  <2>. QED
    BY <2>2 DEF T
<1>13. Covers(f[n], m, E)
  <2>1. \A e \in E : \E j \in 1 .. n : e = list[j]
    BY <1>1 DEF Trail!ToSet
  <2>. QED
    BY <1>12, <2>1 DEF Covers
<1>. QED
  BY <1>7, <1>9, <1>12, <1>13

LEMMA FlowsRight ==
    ASSUME LogInv, MaxEvents <= Page, NEW app
    PROVE  Trail!FlowsAreDeployments(app)
<1>1. PICK list : list = Trail!handleAppAudit(app).events
  OBVIOUS
<1>2. PICK all : all = Trail!ToSet(list)
  OBVIOUS
<1>3. Sortable(all) /\ \E n : Falls(list, n, all)
  <2>1. PICK timeline, n :
              /\ n \in Nat /\ Falls(timeline, n, OfApps({app}))
              /\ Knows(timeline, DOMAIN log)
              /\ \/ list = <<>>
                 \/ list = Trail!enrichAuditEventsWithTimeline(timeline, timeline)
    BY <1>1, AppEvents
  <2>2. timeline \in [1 .. n -> Trail!Events]
    BY <2>1 DEF Falls, OfApps
  <2>3. Knows(list, DOMAIN log)
    BY <2>1, <2>2, AllNumbered, NothingKnown, EnrichedKnown DEF Picks
  <2>4. CASE list = <<>>
    <3>1. Falls(list, 0, all)
      BY <2>4 DEF Falls
    <3>. QED
      BY <1>2, <2>3, <3>1 DEF Knows
  <2>5. CASE list = Trail!enrichAuditEventsWithTimeline(timeline, timeline)
    <3>1. DOMAIN list = 1 .. n /\ \A i \in 1 .. n : Keeps(list[i], timeline[i])
      BY <2>1, <2>2, <2>5, EnrichedList
    <3>2. list \in [1 .. n -> all]
      <4>1. \A i \in 1 .. n : list[i] \in all
        BY <1>2, <3>1 DEF Trail!ToSet
      <4>2. list = [i \in 1 .. n |-> list[i]]
        BY <2>5, <3>1 DEF Trail!enrichAuditEventsWithTimeline
      <4>. QED
        BY <4>1, <4>2
    <3>3. \A i, j \in 1 .. n : i < j => Trail!Newer(list[i], list[j])
      BY <2>1, <3>1 DEF Falls, Keeps, Trail!Newer
    <3>. QED
      BY <1>2, <2>1, <2>3, <3>2, <3>3 DEF Knows, Falls
  <2>. QED
    BY <2>1, <2>4, <2>5
<1>4. PICK E \in SUBSET all : E = {e \in all : e.correlation # Trail!None}
  OBVIOUS
<1>5. Sortable(E)
  BY <1>3, PartSortable
<1>6. PICK n, filtered : /\ filtered = Trail!filterAuditEventsWithCorrelation(list)
                         /\ Falls(filtered, n, E) /\ Covers(filtered, n, E)
  BY <1>2, <1>3, <1>4, Filtered
<1>7. PICK found \in Seq(FlowSet(E)) :
         /\ Trail!GroupAuditEventsByCorrelation(filtered) = Trail!Reverse(found)
         /\ AreFlows(found, E)
  BY <1>5, <1>6, Grouped
<1>8. PICK flows : flows = Trail!Reverse(found)
  OBVIOUS
<1>9. PICK m \in Nat : m = Len(found)
  OBVIOUS
<1>10. /\ DOMAIN flows = 1 .. m
       /\ \A i \in 1 .. m : flows[i] = found[(m - i) + 1]
  BY <1>8, <1>9 DEF Trail!Reverse
<1>11. \A i \in 1 .. m : (m - i) + 1 \in 1 .. m /\ (m - ((m - i) + 1)) + 1 = i
  OBVIOUS
<1>12. /\ \A i \in 1 .. m : \E k : IsFlow(found[i], k, E)
       /\ \A e \in E : \E i \in 1 .. m : found[i].correlation = e.correlation
       /\ \A i, j \in 1 .. m : i < j => Trail!Newer(found[j].events[1], found[i].events[1])
  BY <1>7, <1>9 DEF AreFlows
<1>13. \A f \in Trail!ToSet(flows) : \E i \in 1 .. m : f = found[i]
  BY <1>10, <1>11 DEF Trail!ToSet
<1>14. \A i \in 1 .. m : found[i] \in Trail!ToSet(flows)
  <2>. SUFFICES ASSUME NEW i \in 1 .. m PROVE found[i] \in Trail!ToSet(flows)
    OBVIOUS
  <2>1. flows[(m - i) + 1] = found[i] /\ (m - i) + 1 \in DOMAIN flows
    BY <1>10, <1>11
  <2>. QED
    BY <2>1 DEF Trail!ToSet
<1>15. ASSUME NEW f \in Trail!ToSet(flows)
       PROVE  /\ Trail!IsFlowOf(f, {e \in all : e.correlation = f.correlation})
              /\ \E e \in E : e.correlation = f.correlation
  <2>1. PICK k : IsFlow(f, k, E)
    BY <1>12, <1>13
  <2>2. 1 \in 1 .. k /\ f.events[1] \in E /\ f.events[1].correlation = f.correlation
    BY <2>1 DEF IsFlow, Rises
  <2>3. {e \in all : e.correlation = f.correlation} = {e \in E : e.correlation = f.correlation}
    BY <1>4, <2>2
  <2>4. Trail!IsFlowOf(f, {e \in E : e.correlation = f.correlation})
    BY <1>5, <2>1, FlowIs
  <2>. QED
    BY <2>2, <2>3, <2>4
<1>16. {f.correlation : f \in Trail!ToSet(flows)}
          = {e.correlation : e \in all} \ {Trail!None}
  <2>1. ASSUME NEW f \in Trail!ToSet(flows)
        PROVE  f.correlation \in {e.correlation : e \in all} \ {Trail!None}
    BY <1>4, <1>15
  <2>2. ASSUME NEW e \in all, e.correlation # Trail!None
        PROVE  \E f \in Trail!ToSet(flows) : f.correlation = e.correlation
    <3>1. e \in E
      BY <1>4, <2>2
    <3>. QED
      BY <1>12, <1>14, <3>1
  <2>. QED
    BY <2>1, <2>2
<1>17. ASSUME NEW i \in DOMAIN flows, NEW j \in DOMAIN flows, i < j
       PROVE  Trail!Newer(flows[i].events[1], flows[j].events[1])
  <2>1. (m - j) + 1 < (m - i) + 1 /\ (m - j) + 1 \in 1 .. m /\ (m - i) + 1 \in 1 .. m
    BY <1>10, <1>11, <1>17
  <2>. QED
    BY <1>10, <1>12, <1>17, <2>1
<1>18. Trail!GroupAuditEventsByCorrelation(Trail!filterAuditEventsWithCorrelation(list)) = flows
  BY <1>6, <1>7, <1>8
<1>. QED
  BY <1>1, <1>2, <1>15, <1>16, <1>17, <1>18 DEF Trail!FlowsAreDeployments

(***************************************************************************)
(* What is shown is true to the log: an overview has the newest of all     *)
(* events its reader may see; the page and the export of a service have    *)
(* all events of its apps and all about it; the deployments of an app are  *)
(* its flows, from the first event to the last and with the status that    *)
(* was reported last; and an event is put down to a person whenever one    *)
(* took part in the deployment, never to another one than it was logged    *)
(* for, in the list as on its own page.  That is so for all events that    *)
(* are logged, all readers and all links of the service, whichever call to *)
(* dokku fails, as far as the other pages ask for as many events as there  *)
(* are and an overview asks each app for as many as it shows, as it does   *)
(* (handleAuditOverview, handleServiceAudit, handleServiceAuditExport,     *)
(* handleAppAudit, handleAppAuditEvent, GroupAuditEventsByCorrelation).    *)
(***************************************************************************)
THEOREM AuditStaysFaithful ==
    ASSUME Shown <= PerApp, MaxEvents <= Page
    PROVE  Trail!Spec => []AuditIsFaithful
<1>1. Trail!Init => LogInv
  BY AuditAssumption DEF Trail!Init, LogInv
<1>2. LogInv /\ [Trail!Next]_(Trail!vars) => LogInv'
  BY LogGrows
<1>3. LogInv => AuditIsFaithful
  BY OverviewNewest, ServiceWhole, FlowsRight, ActorsRight
     DEF AuditIsFaithful, Trail!AuditIsFaithful
<1>. QED
  BY <1>1, <1>2, <1>3, PTL DEF Trail!Spec
=============================================================================
