--------------------------- MODULE ManifestProofs ---------------------------
(***************************************************************************)
(* Proofs about Manifest, for any number of writers, files and versions.   *)
(***************************************************************************)
EXTENDS Manifest, TLAPS

USE ManifestAssumption DEF Version

\* Any write leaves a sequence of blocks ...
LEMMA Overwritten ==
  ASSUME NEW f \in Seq(Version), NEW v \in Version, NEW n \in 0..Size[v]
  PROVE  Overwrite(f, v, n) \in Seq(Version)
  <1> DEFINE m == IF Len(f) > n THEN Len(f) ELSE n
  <1>1. m \in Nat /\ n \in Nat /\ Len(f) \in Nat
    OBVIOUS
  <1>2. \A k \in 1..m : (IF k <= n THEN v ELSE f[k]) \in Version
    BY <1>1
  <1>3. [k \in 1..m |-> IF k <= n THEN v ELSE f[k]] \in Seq(Version)
    BY <1>1, <1>2
  <1> QED
    BY <1>3 DEF Overwrite

\* ... and writing all of a version into an empty file leaves its manifest.
LEMMA WrittenWhole ==
  ASSUME NEW v \in Version
  PROVE  Whole(Overwrite(<<>>, v, Size[v]))
  <1>1. Size[v] \in Nat /\ Len(<<>>) = 0 /\ ~(0 > Size[v])
    OBVIOUS
  <1>2. Overwrite(<<>>, v, Size[v]) = [k \in 1..Size[v] |-> v]
    BY <1>1 DEF Overwrite
  <1> QED
    BY <1>2 DEF Whole, Shows

LEMMA RefreshesStep ==
  ASSUME IInv, NEW w \in Writer, Refreshes(w)
  PROVE  IInv'
  <1> USE DEF IInv, Refreshes, history, files, MayChange
  <1>1. TypeOK'
    BY DEF TypeOK
  <1>2. Linked'
    BY DEF Linked
  <1>3. AloneOwnsTmp'
    BY DEF AloneOwnsTmp, Inside
  <1>4. NobodyWritesIt'
    BY DEF NobodyWritesIt
  <1>5. LoneWriteIsWhole'
    BY DEF LoneWriteIsWhole
  <1> QED
    BY <1>1, <1>2, <1>3, <1>4, <1>5

LEMMA RetryRefreshesStep ==
  ASSUME IInv, RetryRefreshes
  PROVE  IInv'
  <1> USE DEF IInv, RetryRefreshes, history, files
  <1>1. TypeOK'
    BY DEF TypeOK
  <1>2. Linked'
    BY DEF Linked
  <1>3. AloneOwnsTmp'
    BY DEF AloneOwnsTmp, Inside
  <1>4. NobodyWritesIt'
    BY DEF NobodyWritesIt
  <1>5. LoneWriteIsWhole'
    BY DEF LoneWriteIsWhole
  <1> QED
    BY <1>1, <1>2, <1>3, <1>4, <1>5

LEMMA RenderStep ==
  ASSUME IInv, NEW w \in Writer, Render(w)
  PROVE  IInv'
  <1> USE DEF IInv, Render, history, files
  <1>1. TypeOK'
    BY DEF TypeOK
  <1>2. Linked'
    BY DEF Linked
  <1>3. AloneOwnsTmp'
    BY DEF AloneOwnsTmp, Inside
  <1>4. NobodyWritesIt'
    BY DEF NobodyWritesIt
  <1>5. LoneWriteIsWhole'
    BY DEF LoneWriteIsWhole
  <1> QED
    BY <1>1, <1>2, <1>3, <1>4, <1>5

LEMMA OpenStep ==
  ASSUME IInv, NEW w \in Writer, Open(w)
  PROVE  IInv'
  <1> USE DEF IInv, Open, Enters, Free
  <1>1. TypeOK'
    BY DEF TypeOK
  <1>2. Linked'
    BY DEF TypeOK, Linked
  <1>3. AloneOwnsTmp'
    BY DEF TypeOK, AloneOwnsTmp, Inside
  <1>4. NobodyWritesIt'
    BY DEF NobodyWritesIt
  <1>5. LoneWriteIsWhole'
    BY DEF TypeOK, Linked, LoneWriteIsWhole
  <1> QED
    BY <1>1, <1>2, <1>3, <1>4, <1>5

LEMMA WriteStep ==
  ASSUME IInv, NEW w \in Writer, Write(w)
  PROVE  IInv'
  <1> USE DEF IInv, Write, history
  <1>1. TypeOK'
    <2>1. buf[w] \in Version /\ Size[buf[w]] \in 0..Size[buf[w]] /\ fd[w] \in Inode
      BY DEF TypeOK, Linked
    <2>2. Overwrite(content[fd[w]], buf[w], Size[buf[w]]) \in Seq(Version)
      BY <2>1, Overwritten DEF TypeOK
    <2> QED
      BY <2>1, <2>2 DEF TypeOK
  <1>2. Linked'
    BY DEF TypeOK, Linked
  <1>3. AloneOwnsTmp'
    BY WrittenWhole DEF TypeOK, Linked, AloneOwnsTmp, Inside
  <1>4. NobodyWritesIt'
    BY DEF NobodyWritesIt
  <1>5. LoneWriteIsWhole'
    BY DEF TypeOK, Linked, NobodyWritesIt, LoneWriteIsWhole
  <1> QED
    BY <1>1, <1>2, <1>3, <1>4, <1>5

LEMMA WriteFailsStep ==
  ASSUME IInv, NEW w \in Writer, WriteFails(w)
  PROVE  IInv'
  <1> USE DEF IInv, WriteFails, history
  <1>1. TypeOK'
    <2>1. buf[w] \in Version /\ fd[w] \in Inode
      BY DEF TypeOK, Linked
    <2>2. PICK n \in 0..Size[buf[w]] :
            content' = [content EXCEPT ![fd[w]] = Overwrite(@, buf[w], n)]
      OBVIOUS
    <2>3. Overwrite(content[fd[w]], buf[w], n) \in Seq(Version)
      BY <2>1, Overwritten DEF TypeOK
    <2> QED
      BY <2>1, <2>2, <2>3 DEF TypeOK
  <1>2. Linked'
    BY DEF TypeOK, Linked
  <1>3. AloneOwnsTmp'
    BY DEF TypeOK, AloneOwnsTmp, Inside
  <1>4. NobodyWritesIt'
    BY DEF NobodyWritesIt
  <1>5. LoneWriteIsWhole'
    BY DEF TypeOK, Linked, NobodyWritesIt, LoneWriteIsWhole
  <1> QED
    BY <1>1, <1>2, <1>3, <1>4, <1>5

LEMMA RenameStep ==
  ASSUME IInv, NEW w \in Writer, Rename(w)
  PROVE  IInv'
  <1> USE DEF IInv, Rename
  <1>1. TypeOK'
    <2>1. wroteAlone' \in BOOLEAN
      <3>1. wroteAlone' = (w \in alone) \/ wroteAlone' = wroteAlone
        OBVIOUS
      <3>2. wroteAlone \in BOOLEAN /\ (w \in alone) \in BOOLEAN
        BY DEF TypeOK
      <3> HIDE DEF Rename, IInv
      <3> QED
        BY <3>1, <3>2, Zenon
    <2>2. /\ tmp' \in Inode \cup {None} /\ path' \in Inode \cup {None}
          /\ pc' \in [Writer -> {"idle", "render", "open", "write", "rename", "remove"}]
      BY DEF TypeOK
    <2> QED
      BY <2>1, <2>2 DEF TypeOK
  <1>2. Linked'
    BY DEF TypeOK, Linked
  <1>3. AloneOwnsTmp'
    BY DEF TypeOK, AloneOwnsTmp, Inside
  <1>4. NobodyWritesIt'
    BY DEF TypeOK, Linked, AloneOwnsTmp, Inside, NobodyWritesIt
  <1>5. LoneWriteIsWhole'
    BY DEF TypeOK, Linked, AloneOwnsTmp, Inside, LoneWriteIsWhole
  <1> QED
    BY <1>1, <1>2, <1>3, <1>4, <1>5

LEMMA OpenFailsStep ==
  ASSUME IInv, NEW w \in Writer, OpenFails(w)
  PROVE  IInv'
  <1> USE DEF IInv, OpenFails, files, history
  <1>1. TypeOK'
    BY DEF TypeOK
  <1>2. Linked'
    BY DEF Linked
  <1>3. AloneOwnsTmp'
    BY DEF AloneOwnsTmp, Inside
  <1>4. NobodyWritesIt'
    BY DEF NobodyWritesIt
  <1>5. LoneWriteIsWhole'
    BY DEF LoneWriteIsWhole
  <1> QED
    BY <1>1, <1>2, <1>3, <1>4, <1>5

LEMMA RenameFailsStep ==
  ASSUME IInv, NEW w \in Writer, RenameFails(w)
  PROVE  IInv'
  <1> USE DEF IInv, RenameFails, files, history
  <1>1. TypeOK'
    BY DEF TypeOK
  <1>2. Linked'
    BY DEF Linked
  <1>3. AloneOwnsTmp'
    BY DEF AloneOwnsTmp, Inside
  <1>4. NobodyWritesIt'
    BY DEF NobodyWritesIt
  <1>5. LoneWriteIsWhole'
    BY DEF LoneWriteIsWhole
  <1> QED
    BY <1>1, <1>2, <1>3, <1>4, <1>5

LEMMA RemoveStep ==
  ASSUME IInv, NEW w \in Writer, Remove(w)
  PROVE  IInv'
  <1> USE DEF IInv, Remove, history
  <1>1. TypeOK'
    BY DEF TypeOK
  <1>2. Linked'
    BY DEF Linked
  <1>3. AloneOwnsTmp'
    BY DEF AloneOwnsTmp, Inside
  <1>4. NobodyWritesIt'
    BY DEF NobodyWritesIt
  <1>5. LoneWriteIsWhole'
    BY DEF LoneWriteIsWhole
  <1> QED
    BY <1>1, <1>2, <1>3, <1>4, <1>5

LEMMA RestartStep ==
  ASSUME IInv, Restart
  PROVE  IInv'
  <1> USE DEF IInv, Restart, history, files, MayChange
  <1>1. TypeOK'
    BY DEF TypeOK
  <1>2. Linked'
    BY DEF Linked
  <1>3. AloneOwnsTmp'
    BY DEF TypeOK, AloneOwnsTmp, Inside
  <1>4. NobodyWritesIt'
    BY DEF NobodyWritesIt
  <1>5. LoneWriteIsWhole'
    BY DEF LoneWriteIsWhole
  <1> QED
    BY <1>1, <1>2, <1>3, <1>4, <1>5

LEMMA InitInv == Init => IInv
  <1> SUFFICES ASSUME Init PROVE IInv
    OBVIOUS
  <1>1. TypeOK
    <2>1. <<>> \in Seq(Version) /\ 0 \in Version
      OBVIOUS
    <2> QED
      BY <2>1 DEF Init, TypeOK
  <1>2. Linked /\ AloneOwnsTmp /\ NobodyWritesIt /\ LoneWriteIsWhole
    BY DEF Init, Linked, AloneOwnsTmp, NobodyWritesIt, LoneWriteIsWhole
  <1> QED
    BY <1>1, <1>2 DEF IInv

LEMMA NextInv == IInv /\ [Next]_vars => IInv'
  <1> SUFFICES ASSUME IInv, [Next]_vars PROVE IInv'
    OBVIOUS
  <1>1. CASE UNCHANGED vars
    BY <1>1 DEF vars, files, history, IInv, TypeOK, Linked, AloneOwnsTmp, Inside,
       NobodyWritesIt, LoneWriteIsWhole
  <1>2. ASSUME NEW w \in Writer, Refreshes(w) \/ WriterStep(w) \/ Fails(w)
        PROVE  IInv'
    BY <1>2, RefreshesStep, RenderStep, OpenStep, WriteStep, WriteFailsStep, RenameStep,
       OpenFailsStep, RenameFailsStep, RemoveStep DEF WriterStep, Fails
  <1> QED
    BY <1>1, <1>2, RetryRefreshesStep, RestartStep DEF Next

\* The inductive invariant holds of every reachable state.
THEOREM Invariance == Spec => []IInv
  BY InitInv, NextInv, PTL DEF Spec

\* manifest.go:50-51 for a writer that meets no other: however many writers there are,
\* whatever fails and whenever the daemon dies, the manifest that it renamed into place
\* is whole, and it stays whole until another one replaces it.
THEOREM LoneWritesAreWhole == Spec => []LoneWriteIsWhole
  <1>1. IInv => LoneWriteIsWhole
    BY DEF IInv
  <1> QED
    BY <1>1, Invariance, PTL

=============================================================================
