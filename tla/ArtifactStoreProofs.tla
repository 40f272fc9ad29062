------------------------- MODULE ArtifactStoreProofs -------------------------
(***************************************************************************)
(* Proofs about the artifact store for any number of artifacts and reads,  *)
(* any time to live and any clock.  What a read may end with depends on    *)
(* the life of its artifact, so the invariant follows an artifact from its *)
(* creation to its removal, and a read from get to the end of the file.    *)
(***************************************************************************)
EXTENDS ArtifactStore, TLAPS

\* An artifact has a record only between its creation and its removal, and
\* without one something has befallen it.
Lives ==
    \A i \in Ids :
        /\ stage[i] = "unborn" => i \notin held /\ fate[i] = {} /\ backing[i] = "memory"
        /\ stage[i] = "writing" => i \notin held /\ backing[i] = "temp_file"
        /\ stage[i] = "removing" =>
               i \notin held /\ backing[i] = "temp_file" /\ "removed" \in fate[i]
        /\ stage[i] = "settled" /\ i \notin held =>
               fate[i] \cap {"unwritten", "expired", "removed", "forgotten"} # {}

\* The file behind an artifact is as good as it was when the record was set,
\* unless it was removed or its owner changed it.
Sound(i) ==
    /\ backing[i] # "memory"
    /\ file[i] = "partial" => backing[i] \in Links /\ "changed" \in fate[i]
    /\ file[i] = "absent" => fate[i] \cap {"removed", "changed"} # {}

\* A record leads to a sound file, and a read under way to one too, even when
\* the record has gone meanwhile.
Readable ==
    /\ \A i \in held : backing[i] # "memory" => Sound(i)
    /\ \A r \in Readers :
           /\ reader[r].pc = "reading" =>
                  /\ reader[r].id \in Ids /\ reader[r].result = "none"
                  /\ stage[reader[r].id] \in {"settled", "removing"} /\ Sound(reader[r].id)
           /\ reader[r].result # "none" =>
                  reader[r].id \in Ids /\ stage[reader[r].id] # "unborn"

ArtifactInv ==
    TypeOK /\ Lives /\ Readable /\ ReadsExplained /\ LinkedFilesKept /\ FilesAccounted

-----------------------------------------------------------------------------
(* Each step keeps the invariant. *)

\* get drops the record of an expired artifact and notes why; it leaves the
\* file and every other artifact alone.
LEMMA GetEffect ==
    ASSUME TypeOK, NEW i \in Ids, get(i)
    PROVE  /\ file' = file
           /\ held' \in SUBSET held /\ held \ {i} \subseteq held'
           /\ fate' \in [Ids -> SUBSET Fates]
           /\ \A k \in Ids : fate[k] \subseteq fate'[k]
           /\ \A k \in Ids : k # i => fate'[k] = fate[k]
           /\ i \in held /\ i \notin held' => "expired" \in fate'[i]
           /\ i \notin held => fate'[i] = fate[i]
<1>1. CASE i \in held /\ Lapsed(i)
  <2>1. fate' = [fate EXCEPT ![i] = fate[i] \cup {"expired"}]
    BY <1>1 DEF get, Befalls
  <2>2. held' = held \ {i} /\ file' = file
    BY <1>1 DEF get
  <2> QED
    BY <1>1, <2>1, <2>2 DEF TypeOK, Fates
<1>2. CASE ~(i \in held /\ Lapsed(i))
  BY <1>2 DEF get, TypeOK
<1> QED
  BY <1>1, <1>2

\* Every operation of the manager keeps the types.
LEMMA TypeStep ==
    ASSUME TypeOK, Next
    PROVE  TypeOK'
<1> USE TtlNat, ClockNat DEF TypeOK, Never, Backings, Links, Results, Fates, record, vars, Lapsed
<1>1. ASSUME NEW i \in Ids, NEW b \in Backings, NEW e \in BOOLEAN, CreateAtOnce(i, b, e)
      PROVE  TypeOK'
  BY <1>1 DEF CreateAtOnce, createBaseRecord
<1>2. ASSUME NEW i \in Ids, NEW e \in BOOLEAN, CreateTempFile(i, e)
      PROVE  TypeOK'
  BY <1>2 DEF CreateTempFile, createBaseRecord
<1>3. ASSUME NEW i \in Ids, WriteEnds(i)
      PROVE  TypeOK'
  BY <1>3 DEF WriteEnds
<1>4. ASSUME NEW i \in Ids, WriteFails(i)
      PROVE  TypeOK'
  BY <1>4 DEF WriteFails, Befalls
<1>5. ASSUME NEW i \in Ids, remove(i)
      PROVE  TypeOK'
  BY <1>5 DEF remove, Befalls, Cleanup
<1>6. ASSUME NEW i \in Ids, RmEnds(i)
      PROVE  TypeOK'
  BY <1>6 DEF RmEnds, Befalls
<1>7. ASSUME NEW i \in Ids, LinkedFileChanges(i)
      PROVE  TypeOK'
  BY <1>7 DEF LinkedFileChanges, Befalls
<1>8. ASSUME NEW r \in Readers, NEW i \in Ids, readArtifactBuffer(r, i)
      PROVE  TypeOK'
  BY <1>8, GetEffect DEF readArtifactBuffer, Finish
<1>9. ASSUME NEW r \in Readers, FileRead(r)
      PROVE  TypeOK'
  BY <1>9 DEF FileRead, LocalRead, RemoteRead, Finish
<1>10. ASSUME NEW r \in Readers, ReadReturns(r)
      PROVE  TypeOK'
  BY <1>10 DEF ReadReturns, Resting
<1>11. CASE Restart
  BY <1>11 DEF Restart, Resting
<1>12. CASE Tick
  BY <1>12 DEF Tick
<1> QED
  BY <1>1, <1>2, <1>3, <1>4, <1>5, <1>6, <1>7, <1>8, <1>9, <1>10, <1>11, <1>12 DEF Next

\* The record of an artifact follows its life: set when its file is written,
\* gone when it is removed, found expired or the server restarts.
LEMMA LivesStep ==
    ASSUME TypeOK, Lives, Next
    PROVE  Lives'
<1> USE DEF Lives, TypeOK, Backings, Links, record, vars
<1>1. ASSUME NEW i \in Ids, NEW b \in Backings, NEW e \in BOOLEAN, CreateAtOnce(i, b, e)
      PROVE  Lives'
  BY <1>1 DEF CreateAtOnce, createBaseRecord
<1>2. ASSUME NEW i \in Ids, NEW e \in BOOLEAN, CreateTempFile(i, e)
      PROVE  Lives'
  BY <1>2 DEF CreateTempFile, createBaseRecord
<1>3. ASSUME NEW i \in Ids, WriteEnds(i)
      PROVE  Lives'
  BY <1>3 DEF WriteEnds
<1>4. ASSUME NEW i \in Ids, WriteFails(i)
      PROVE  Lives'
  BY <1>4 DEF WriteFails, Befalls
<1>5. ASSUME NEW i \in Ids, remove(i)
      PROVE  Lives'
  BY <1>5 DEF remove, Befalls, Cleanup
<1>6. ASSUME NEW i \in Ids, RmEnds(i)
      PROVE  Lives'
  BY <1>6 DEF RmEnds, Befalls
<1>7. ASSUME NEW i \in Ids, LinkedFileChanges(i)
      PROVE  Lives'
  BY <1>7 DEF LinkedFileChanges, Befalls
<1>8. ASSUME NEW r \in Readers, NEW i \in Ids, readArtifactBuffer(r, i)
      PROVE  Lives'
  BY <1>8, GetEffect DEF readArtifactBuffer, Finish
<1>9. ASSUME NEW r \in Readers, FileRead(r)
      PROVE  Lives'
  BY <1>9 DEF FileRead, LocalRead, RemoteRead, Finish
<1>10. ASSUME NEW r \in Readers, ReadReturns(r)
      PROVE  Lives'
  BY <1>10 DEF ReadReturns, Resting
<1>11. CASE Restart
  BY <1>11 DEF Restart, Resting
<1>12. CASE Tick
  BY <1>12 DEF Tick
<1> QED
  BY <1>1, <1>2, <1>3, <1>4, <1>5, <1>6, <1>7, <1>8, <1>9, <1>10, <1>11, <1>12 DEF Next

\* A sound file stays sound while it is read: only remove and its owner delete it.
LEMMA ReadableStep ==
    ASSUME TypeOK, Lives, Readable, Next
    PROVE  Readable'
<1> USE DEF Readable, Sound, Lives, TypeOK, Backings, Links, record, vars
<1>1. ASSUME NEW i \in Ids, NEW b \in Backings, NEW e \in BOOLEAN, CreateAtOnce(i, b, e)
      PROVE  Readable'
  <2> USE <1>1 DEF CreateAtOnce, createBaseRecord
  <2>1. stage[i] = "unborn" /\ i \notin held
    OBVIOUS
  <2>2. ASSUME NEW k \in held', backing'[k] # "memory"
        PROVE  Sound(k)'
    <3>1. CASE k = i
      BY <3>1, <2>2
    <3>2. CASE k # i
      BY <3>2, <2>2
    <3> QED
      BY <3>1, <3>2
  <2>3. ASSUME NEW r \in Readers, reader[r].pc = "reading" \/ reader[r].result # "none"
        PROVE  reader[r].id # i
    BY <2>1, <2>3
  <2> QED
    BY <2>1, <2>2, <2>3
<1>2. ASSUME NEW i \in Ids, NEW e \in BOOLEAN, CreateTempFile(i, e)
      PROVE  Readable'
  BY <1>2 DEF CreateTempFile, createBaseRecord
<1>3. ASSUME NEW i \in Ids, WriteEnds(i)
      PROVE  Readable'
  BY <1>3 DEF WriteEnds
<1>4. ASSUME NEW i \in Ids, WriteFails(i)
      PROVE  Readable'
  BY <1>4 DEF WriteFails, Befalls
<1>5. ASSUME NEW i \in Ids, remove(i)
      PROVE  Readable'
  BY <1>5 DEF remove, Befalls, Cleanup
<1>6. ASSUME NEW i \in Ids, RmEnds(i)
      PROVE  Readable'
  BY <1>6 DEF RmEnds, Befalls
<1>7. ASSUME NEW i \in Ids, LinkedFileChanges(i)
      PROVE  Readable'
  BY <1>7 DEF LinkedFileChanges, Befalls
<1>8. ASSUME NEW r \in Readers, NEW i \in Ids, readArtifactBuffer(r, i)
      PROVE  Readable'
  BY <1>8, GetEffect DEF readArtifactBuffer, Finish
<1>9. ASSUME NEW r \in Readers, FileRead(r)
      PROVE  Readable'
  BY <1>9 DEF FileRead, LocalRead, RemoteRead, Finish
<1>10. ASSUME NEW r \in Readers, ReadReturns(r)
      PROVE  Readable'
  BY <1>10 DEF ReadReturns, Resting
<1>11. CASE Restart
  BY <1>11 DEF Restart, Resting
<1>12. CASE Tick
  BY <1>12 DEF Tick
<1> QED
  BY <1>1, <1>2, <1>3, <1>4, <1>5, <1>6, <1>7, <1>8, <1>9, <1>10, <1>11, <1>12 DEF Next

\* A read ends with the payload or for a reason that stays true.
LEMMA ReadsStep ==
    ASSUME TypeOK, Lives, Readable, ReadsExplained, Next
    PROVE  ReadsExplained'
<1> USE DEF ReadsExplained, Readable, Sound, Lives, TypeOK, Backings, Links, Lapsed, record, vars
<1>1. ASSUME NEW i \in Ids, NEW b \in Backings, NEW e \in BOOLEAN, CreateAtOnce(i, b, e)
      PROVE  ReadsExplained'
  BY <1>1 DEF CreateAtOnce, createBaseRecord
<1>2. ASSUME NEW i \in Ids, NEW e \in BOOLEAN, CreateTempFile(i, e)
      PROVE  ReadsExplained'
  BY <1>2 DEF CreateTempFile, createBaseRecord
<1>3. ASSUME NEW i \in Ids, WriteEnds(i)
      PROVE  ReadsExplained'
  BY <1>3 DEF WriteEnds
<1>4. ASSUME NEW i \in Ids, WriteFails(i)
      PROVE  ReadsExplained'
  BY <1>4 DEF WriteFails, Befalls
<1>5. ASSUME NEW i \in Ids, remove(i)
      PROVE  ReadsExplained'
  BY <1>5 DEF remove, Befalls, Cleanup
<1>6. ASSUME NEW i \in Ids, RmEnds(i)
      PROVE  ReadsExplained'
  BY <1>6 DEF RmEnds, Befalls
<1>7. ASSUME NEW i \in Ids, LinkedFileChanges(i)
      PROVE  ReadsExplained'
  BY <1>7 DEF LinkedFileChanges, Befalls
<1>8. ASSUME NEW r \in Readers, NEW i \in Ids, readArtifactBuffer(r, i)
      PROVE  ReadsExplained'
  BY <1>8, GetEffect DEF readArtifactBuffer, Finish
<1>9. ASSUME NEW r \in Readers, FileRead(r)
      PROVE  ReadsExplained'
  BY <1>9 DEF FileRead, LocalRead, RemoteRead, Finish
<1>10. ASSUME NEW r \in Readers, ReadReturns(r)
      PROVE  ReadsExplained'
  BY <1>10 DEF ReadReturns, Resting
<1>11. CASE Restart
  BY <1>11 DEF Restart, Resting
<1>12. CASE Tick
  BY <1>12 DEF Tick
<1> QED
  BY <1>1, <1>2, <1>3, <1>4, <1>5, <1>6, <1>7, <1>8, <1>9, <1>10, <1>11, <1>12 DEF Next

\* A linked file is left alone and a temporary one accounted for.
LEMMA FilesStep ==
    ASSUME TypeOK, Lives, LinkedFilesKept, FilesAccounted, Next
    PROVE  (LinkedFilesKept /\ FilesAccounted)'
<1> USE DEF LinkedFilesKept, FilesAccounted, Lives, TypeOK, Backings, Links, record, vars
<1>1. ASSUME NEW i \in Ids, NEW b \in Backings, NEW e \in BOOLEAN, CreateAtOnce(i, b, e)
      PROVE  (LinkedFilesKept /\ FilesAccounted)'
  BY <1>1 DEF CreateAtOnce, createBaseRecord
<1>2. ASSUME NEW i \in Ids, NEW e \in BOOLEAN, CreateTempFile(i, e)
      PROVE  (LinkedFilesKept /\ FilesAccounted)'
  BY <1>2 DEF CreateTempFile, createBaseRecord
<1>3. ASSUME NEW i \in Ids, WriteEnds(i)
      PROVE  (LinkedFilesKept /\ FilesAccounted)'
  BY <1>3 DEF WriteEnds
<1>4. ASSUME NEW i \in Ids, WriteFails(i)
      PROVE  (LinkedFilesKept /\ FilesAccounted)'
  BY <1>4 DEF WriteFails, Befalls
<1>5. ASSUME NEW i \in Ids, remove(i)
      PROVE  (LinkedFilesKept /\ FilesAccounted)'
  BY <1>5 DEF remove, Befalls, Cleanup
<1>6. ASSUME NEW i \in Ids, RmEnds(i)
      PROVE  (LinkedFilesKept /\ FilesAccounted)'
  <2> USE <1>6 DEF RmEnds
  <2>1. backing[i] = "temp_file" /\ i \notin held
    OBVIOUS
  <2>2. CASE file' = [file EXCEPT ![i] = "absent"] /\ UNCHANGED fate
    BY <2>1, <2>2
  <2>3. CASE Befalls(i, {"unremoved"}) /\ UNCHANGED file
    <3>1. \A k \in Ids : fate[k] \subseteq fate'[k]
      BY <2>3 DEF Befalls
    <3>2. "unremoved" \in fate'[i]
      BY <2>3 DEF Befalls
    <3> QED
      BY <2>1, <2>3, <3>1, <3>2
  <2> QED
    BY <2>2, <2>3
<1>7. ASSUME NEW i \in Ids, LinkedFileChanges(i)
      PROVE  (LinkedFilesKept /\ FilesAccounted)'
  BY <1>7 DEF LinkedFileChanges, Befalls
<1>8. ASSUME NEW r \in Readers, NEW i \in Ids, readArtifactBuffer(r, i)
      PROVE  (LinkedFilesKept /\ FilesAccounted)'
  BY <1>8, GetEffect DEF readArtifactBuffer, Finish
<1>9. ASSUME NEW r \in Readers, FileRead(r)
      PROVE  (LinkedFilesKept /\ FilesAccounted)'
  BY <1>9 DEF FileRead, LocalRead, RemoteRead, Finish
<1>10. ASSUME NEW r \in Readers, ReadReturns(r)
      PROVE  (LinkedFilesKept /\ FilesAccounted)'
  BY <1>10 DEF ReadReturns, Resting
<1>11. CASE Restart
  BY <1>11 DEF Restart, Resting
<1>12. CASE Tick
  BY <1>12 DEF Tick
<1> QED
  BY <1>1, <1>2, <1>3, <1>4, <1>5, <1>6, <1>7, <1>8, <1>9, <1>10, <1>11, <1>12 DEF Next

-----------------------------------------------------------------------------
(* The theorems. *)

\* The invariant of the store, whatever is created, read, removed, expires or
\* is forgotten in a restart, in any order.
THEOREM ArtifactInvariant == Spec => []ArtifactInv
<1>1. Init => ArtifactInv
  <2> SUFFICES ASSUME Init
               PROVE  ArtifactInv
    OBVIOUS
  <2>1. TypeOK
    BY TtlNat, ClockNat DEF Init, TypeOK, Never, Backings, Links, Results, Resting
  <2>2. Lives /\ Readable
    BY DEF Init, Lives, Readable, Resting
  <2>3. ReadsExplained /\ LinkedFilesKept /\ FilesAccounted
    BY DEF Init, ReadsExplained, LinkedFilesKept, FilesAccounted, Links, Resting
  <2> QED
    BY <2>1, <2>2, <2>3 DEF ArtifactInv
<1>2. ArtifactInv /\ [Next]_vars => ArtifactInv'
  <2> SUFFICES ASSUME ArtifactInv, [Next]_vars
               PROVE  ArtifactInv'
    OBVIOUS
  <2>1. CASE Next
    BY <2>1, TypeStep, LivesStep, ReadableStep, ReadsStep, FilesStep DEF ArtifactInv
  <2>2. CASE UNCHANGED vars
    BY <2>2 DEF vars, record, ArtifactInv, TypeOK, Lives, Readable, Sound, ReadsExplained,
       Lapsed,
       LinkedFilesKept, FilesAccounted
  <2> QED
    BY <2>1, <2>2
<1> QED
  BY <1>1, <1>2, PTL DEF Spec

\* readArtifactBuffer ends with the whole payload or for a reason: a read that
\* get has let pass is not hurt by one that finds the artifact expired, and only
\* a file that is not the manager's own is ever returned in part.
THEOREM ReadsAreExplained == Spec => []ReadsExplained
BY ArtifactInvariant, PTL DEF ArtifactInv

\* cleanupPath guards remove: no file the manager did not write is deleted.
THEOREM LinkedFilesAreKept == Spec => []LinkedFilesKept
BY ArtifactInvariant, PTL DEF ArtifactInv

\* remove takes the temporary file along: one that is left behind expired, was
\* not written or removed properly, or outlived its server.
THEOREM FilesAreAccounted == Spec => []FilesAccounted
BY ArtifactInvariant, PTL DEF ArtifactInv
=============================================================================
