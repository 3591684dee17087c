------------------------------ MODULE Manifest ------------------------------
(***************************************************************************)
(* The manifest file: internal/server/manifest.go and its callers in       *)
(* server.go.  Request handlers, the startup refresh and the ticker end by *)
(* writing the registry's state to the file; the registry's own retries    *)
(* change that state and write nothing.                                    *)
(*                                                                         *)
(* atomicWrite prepares the contents under the name `path.tmp' and renames *)
(* it to `path'.  The name is the same for every writer and no lock is     *)
(* held, so names and files are kept apart here: a name is bound to an     *)
(* inode, and a descriptor keeps its inode whatever happens to the names.  *)
(* The daemon may die at any moment and be started again.                  *)
(*                                                                         *)
(* The registry's state is a version number, and the manifest of version v *)
(* is Size[v] blocks that all read v.                                      *)
(***************************************************************************)
EXTENDS Naturals, Sequences, FiniteSets

CONSTANTS
  Writer,      \* goroutines that write the manifest
  Ticker,      \* the one among them that never stops doing so
  Inode,       \* files
  None,        \* no file
  MaxVersion,  \* changes of the registry that are considered
  Size         \* the number of blocks of each version's manifest

Version == 0..MaxVersion

ASSUME ManifestAssumption ==
  /\ Ticker \in Writer
  /\ None \notin Inode
  /\ MaxVersion \in Nat
  /\ Size \in [Version -> Nat \ {0}]

VARIABLES
  version,     \* what the registry holds
  content,     \* the blocks of each file
  tmp, path,   \* the inodes that the two names are bound to
  pc,          \* where each goroutine is
  buf,         \* the version that it rendered
  fd,          \* the file that it writes
  alone,       \* writers that nobody else has met in atomicWrite
  wroteAlone   \* `path' was last renamed by such a writer

files == <<content, tmp, path>>
history == <<alone, wroteAlone>>
vars == <<version, files, pc, buf, fd, history>>

TypeOK ==
  /\ version \in Version
  /\ content \in [Inode -> Seq(Version)]
  /\ tmp \in Inode \cup {None}
  /\ path \in Inode \cup {None}
  /\ pc \in [Writer -> {"idle", "render", "open", "write", "rename", "remove"}]
  /\ buf \in [Writer -> Version]
  /\ fd \in [Writer -> Inode \cup {None}]
  /\ alone \in SUBSET Writer
  /\ wroteAlone \in BOOLEAN

Init ==
  /\ version = 0
  /\ content = [i \in Inode |-> <<>>]
  /\ tmp = None
  /\ path = None
  /\ pc = [w \in Writer |-> "idle"]
  /\ buf = [w \in Writer |-> 0]
  /\ fd = [w \in Writer |-> None]
  /\ alone = {}
  /\ wroteAlone = FALSE

\* The registry may or may not have changed.
MayChange == version' \in {version, version + 1} \cap Version

Inside(w) == pc[w] \in {"write", "rename", "remove"}

\* Inodes that no name and no descriptor refers to.
Free == {i \in Inode : i # tmp /\ i # path /\ \A w \in Writer : fd[w] # i}

\* Writing n blocks of version v at the start of a file that holds f: the rest remains.
Overwrite(f, v, n) ==
  [k \in 1..(IF Len(f) > n THEN Len(f) ELSE n) |-> IF k <= n THEN v ELSE f[k]]

-----------------------------------------------------------------------------

\* A refresh, a registry change or a tick has done its work and calls writeManifest.
Refreshes(w) ==
  /\ pc[w] = "idle"
  /\ MayChange
  /\ pc' = [pc EXCEPT ![w] = "render"]
  /\ UNCHANGED <<files, buf, fd, history>>

\* A retry that the registry scheduled has done its work.
RetryRefreshes ==
  /\ version < MaxVersion
  /\ version' = version + 1
  /\ UNCHANGED <<files, pc, buf, fd, history>>

\* RenderManifest reads the registry under its lock.
Render(w) ==
  /\ pc[w] = "render"
  /\ buf' = [buf EXCEPT ![w] = version]
  /\ pc' = [pc EXCEPT ![w] = "open"]
  /\ UNCHANGED <<version, files, fd, history>>

\* w is in atomicWrite with the file i open.
Enters(w, i) ==
  /\ fd' = [fd EXCEPT ![w] = i]
  /\ pc' = [pc EXCEPT ![w] = "write"]
  /\ alone' = IF \E v \in Writer : Inside(v) THEN {} ELSE {w}

\* Fault: an existing temporary file is not truncated.
OpenKeepsContent(w) ==
  /\ pc[w] = "open"
  /\ \E i \in IF tmp = None THEN Free ELSE {tmp} :
       /\ tmp' = i
       /\ content' = IF tmp = None THEN [content EXCEPT ![i] = <<>>] ELSE content
       /\ Enters(w, i)
  /\ UNCHANGED <<version, path, buf, wroteAlone>>

\* os.WriteFile opens the temporary name: a new file, or the one it finds, truncated.
Open(w) ==
  /\ pc[w] = "open"
  /\ \E i \in IF tmp = None THEN Free ELSE {tmp} :
       /\ tmp' = i
       /\ content' = [content EXCEPT ![i] = <<>>]
       /\ Enters(w, i)
  /\ UNCHANGED <<version, path, buf, wroteAlone>>

\* The directory cannot be made, or the file not be opened.
OpenFails(w) ==
  /\ pc[w] = "open"
  /\ pc' = [pc EXCEPT ![w] = "idle"]
  /\ UNCHANGED <<version, files, buf, fd, history>>

\* It writes the data and closes the file ...
Write(w) ==
  /\ pc[w] = "write"
  /\ content' = [content EXCEPT ![fd[w]] = Overwrite(@, buf[w], Size[buf[w]])]
  /\ fd' = [fd EXCEPT ![w] = None]
  /\ pc' = [pc EXCEPT ![w] = "rename"]
  /\ UNCHANGED <<version, tmp, path, buf, history>>

\* ... or fails, having written a part of them.
WriteFails(w) ==
  /\ pc[w] = "write"
  /\ \E n \in 0..Size[buf[w]] :
       content' = [content EXCEPT ![fd[w]] = Overwrite(@, buf[w], n)]
  /\ fd' = [fd EXCEPT ![w] = None]
  /\ pc' = [pc EXCEPT ![w] = "idle"]
  /\ UNCHANGED <<version, tmp, path, buf, history>>

\* Fault: a manifest that is there is kept, and the new one dropped.
RenameOnce(w) ==
  /\ pc[w] = "rename"
  /\ IF tmp # None
       THEN /\ IF path = None
                 THEN path' = tmp /\ wroteAlone' = (w \in alone)
                 ELSE UNCHANGED <<path, wroteAlone>>
            /\ tmp' = None
            /\ pc' = [pc EXCEPT ![w] = "idle"]
       ELSE /\ pc' = [pc EXCEPT ![w] = "remove"]
            /\ UNCHANGED <<tmp, path, wroteAlone>>
  /\ UNCHANGED <<version, content, buf, fd, alone>>

\* os.Rename moves whatever the temporary name is bound to by now.
Rename(w) ==
  /\ pc[w] = "rename"
  /\ IF tmp # None
       THEN /\ path' = tmp
            /\ tmp' = None
            /\ pc' = [pc EXCEPT ![w] = "idle"]
            /\ wroteAlone' = (w \in alone)
       ELSE /\ pc' = [pc EXCEPT ![w] = "remove"]
            /\ UNCHANGED <<tmp, path, wroteAlone>>
  /\ UNCHANGED <<version, content, buf, fd, alone>>

\* It may fail although the temporary file is there.
RenameFails(w) ==
  /\ pc[w] = "rename"
  /\ tmp # None
  /\ pc' = [pc EXCEPT ![w] = "remove"]
  /\ UNCHANGED <<version, files, buf, fd, history>>

\* The rename failed: os.Remove of the temporary name, which may fail as well.
Remove(w) ==
  /\ pc[w] = "remove"
  /\ tmp' \in {None, tmp}
  /\ pc' = [pc EXCEPT ![w] = "idle"]
  /\ UNCHANGED <<version, content, path, buf, fd, history>>

\* The daemon dies and is started again; only the file system survives.
Restart ==
  /\ \E w \in Writer : pc[w] # "idle"
  /\ MayChange
  /\ pc' = [w \in Writer |-> "idle"]
  /\ fd' = [w \in Writer |-> None]
  /\ UNCHANGED <<files, buf, history>>

WriterStep(w) == Render(w) \/ Open(w) \/ Write(w) \/ Rename(w) \/ Remove(w)

Fails(w) == OpenFails(w) \/ WriteFails(w) \/ RenameFails(w)

Next ==
  \/ \E w \in Writer : Refreshes(w) \/ WriterStep(w) \/ Fails(w)
  \/ RetryRefreshes
  \/ Restart

Spec == Init /\ [][Next]_vars

\* The ticker never stops and goroutines are scheduled.
Fairness ==
  /\ WF_vars(Refreshes(Ticker))
  /\ \A w \in Writer : WF_vars(WriterStep(w) \/ Fails(w))

FairSpec == Spec /\ Fairness

-----------------------------------------------------------------------------
(* Properties. *)

\* f is the whole manifest of version v.
Shows(f, v) == f = [k \in 1..Size[v] |-> v]

Whole(f) == \E v \in Version : Shows(f, v)

\* manifest.go:50-51: a manifest that one writer prepared by itself is whole, and stays
\* whole while later writers prepare theirs, fail, or die between two steps and leave
\* a partial temporary file behind.
LoneWriteIsWhole == path # None /\ wroteAlone => Whole(content[path])

\* Descriptors and names.
Linked ==
  /\ tmp # None => tmp # path
  /\ \A w \in Writer : fd[w] # None <=> pc[w] = "write"

\* A writer that is alone finds its own file under the temporary name.
AloneOwnsTmp ==
  \A w \in alone : Inside(w) =>
    /\ \A v \in Writer \ {w} : ~Inside(v)
    /\ pc[w] = "write" => tmp = fd[w] /\ content[fd[w]] = <<>>
    /\ pc[w] = "rename" => tmp # None /\ Whole(content[tmp])

NobodyWritesIt == wroteAlone => \A w \in Writer : fd[w] # None => fd[w] # path

\* The inductive invariant behind LoneWriteIsWhole.
IInv == TypeOK /\ Linked /\ AloneOwnsTmp /\ NobodyWritesIt /\ LoneWriteIsWhole

\* Once the registry rests at a version, nobody but the ticker refreshes, and writes
\* neither fail nor are cut short, the file shows that version again and again: the
\* ticker repairs what retries did not write and what writers that met in atomicWrite
\* did to each other's files.  (Writers that keep meeting may keep it from doing so.)
CatchesUp ==
  \A v \in Version :
    (/\ <>[](version = v)
     /\ <>[][\A w \in Writer \ {Ticker} : ~Refreshes(w)]_vars
     /\ <>[][\A w \in Writer : ~Fails(w)]_vars
     /\ <>[][~Restart]_vars)
    => []<>(path # None /\ Shows(content[path], v))

\* manifest.go:50-51: "an in-progress write never leaves a partial manifest visible".
\* Writers that share the temporary name do leave one.
NeverPartial == path # None => Whole(content[path])

=============================================================================
