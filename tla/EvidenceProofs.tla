---------------------------- MODULE EvidenceProofs ----------------------------
(* What holds of Evidence for any number of candidates of a link, and of     *)
(* answers, attempts, recordings, delete requests and cleanups, as long as   *)
(* no storage call fails and nothing crashes.                                *)
EXTENDS Evidence, FiniteSetTheorems, TLAPS

-----------------------------------------------------------------------------
(* The invariant. *)

Artifacts == [who : Cands, kind : Kinds, path : BOOLEAN]

RowShapes ==
    /\ row \in [Cands -> [text : BOOLEAN, recs : SUBSET Recordings]]
    /\ ver \in [Cands -> BOOLEAN]
    /\ erased \in [Cands -> SUBSET Ways]

ArtifactShapes ==
    /\ arts \in Seq(Artifacts)
    /\ old.arts \subseteq DOMAIN arts
    /\ old.tables \subseteq {"session", "verification"}
    /\ erase.arts \subseteq DOMAIN arts /\ sweep.arts \subseteq DOMAIN arts

FileShapes ==
    /\ file \in [Keys -> Cands \cup {None}]
    /\ faults \in 0..MaxFaults

UploadShapes ==
    /\ verify \in [Cands -> [at : {"idle", "read", "stored"}, had : BOOLEAN]]
    /\ DOMAIN upload = {"due", "admitted", "now"}
    /\ DOMAIN upload.now = {"who", "kind", "at"} /\ upload.now.kind \in Recordings

EraseShapes ==
    /\ DOMAIN erase = {"who", "way", "at", "arts", "recs", "ver", "text"}
    /\ erase.way \in Ways /\ erase.recs \subseteq Recordings
    /\ erase.ver \in BOOLEAN
    /\ erase.at # "idle" => erase.who \in Cands

SweepShapes == DOMAIN sweep = {"at", "arts", "recs", "vers"}

Shapes == RowShapes /\ ArtifactShapes /\ FileShapes /\ UploadShapes /\ EraseShapes /\ SweepShapes

\* A delete request collects rows of its candidate.
Collected == \A i \in erase.arts : arts[i].who = erase.who

\* A recording is uploaded once: there is no row of what is still to come.
Coming(c, kind) ==
    \/ c \in upload.due \cup upload.admitted
    \/ /\ upload.now.at # "idle" /\ upload.now.who = c
       /\ kind = "mp4" \/ upload.now.kind = "webm"

Once ==
    /\ \A i \in DOMAIN arts : arts[i].kind \in Recordings => ~Coming(arts[i].who, arts[i].kind)
    /\ upload.due \cap upload.admitted = {}
    /\ upload.now.at # "idle" => upload.now.who \in Taking \ (upload.due \cup upload.admitted)
    /\ upload.due \cup upload.admitted \subseteq Taking

\* Rows whose path the commits under way will clear: their files were removed.
Clearing == {i \in erase.arts : erase.at \in {"deleted", "flushed"}} \cup sweep.arts

StaysListed(c, k) ==
    \E i \in DOMAIN arts \ Clearing : arts[i].path /\ arts[i].who = c /\ Key(c, arts[i].kind) = k
Verifying(c, k) == verify[c].at = "stored" /\ Key(c, "identity") = k
Uploading(c, k) ==
    upload.now.at \in {"row", "list"} /\ upload.now.who = c /\ Key(c, upload.now.kind) = k

\* Every file has a row of its candidate, or its handler is about to list it.
Named ==
    faults = MaxFaults =>
        \A c \in Cands, k \in Keys :
            file[k] = c => StaysListed(c, k) \/ Verifying(c, k) \/ Uploading(c, k)

\* Files of a candidate who stored nothing since the last erasure began are gone,
\* or about to be removed by it.
Gone ==
    faults = MaxFaults =>
        \A c \in Cands \ later, k \in Keys :
            file[k] = c => /\ erase.at = "collected" /\ erase.who = c
                           /\ \E i \in erase.arts : Key(c, arts[i].kind) = k

Kept == Collected /\ Once /\ Named /\ Gone  \* what the steps keep besides the types
IInv == Shapes /\ Collected /\ Once /\ Named /\ Gone

-----------------------------------------------------------------------------
(* Rows of artifacts. *)

LEMMA RowsGrow ==
    ASSUME Shapes, NEW a \in Artifacts, arts' = Append(arts, a)
    PROVE  /\ arts' \in Seq(Artifacts)
           /\ DOMAIN arts' = DOMAIN arts \cup {Len(arts) + 1} /\ Len(arts) + 1 \notin DOMAIN arts
           /\ \A i \in DOMAIN arts : arts'[i] = arts[i]
           /\ arts'[Len(arts) + 1] = a
<1>1. arts \in Seq(Artifacts)
    BY DEF Shapes, ArtifactShapes
<1>2. QED
    BY <1>1

LEMMA RowsCleared ==
    ASSUME Shapes, NEW S,
           arts' = [i \in DOMAIN arts |-> IF i \in S THEN [arts[i] EXCEPT !.path = FALSE] ELSE arts[i]]
    PROVE  /\ arts' \in Seq(Artifacts)
           /\ DOMAIN arts' = DOMAIN arts
           /\ \A i \in DOMAIN arts : arts'[i].who = arts[i].who /\ arts'[i].kind = arts[i].kind
           /\ \A i \in DOMAIN arts \ S : arts'[i] = arts[i]
<1>1. arts \in Seq(Artifacts) /\ Len(arts) \in Nat /\ DOMAIN arts = 1..Len(arts)
    BY DEF Shapes, ArtifactShapes
<1>2. ASSUME NEW i \in DOMAIN arts
      PROVE  arts'[i] \in Artifacts /\ arts'[i].who = arts[i].who /\ arts'[i].kind = arts[i].kind
  <2>1. arts[i] \in Artifacts
      BY <1>1
  <2>2. CASE i \in S
    <3>1. arts'[i] = [arts[i] EXCEPT !.path = FALSE]
        BY <2>2
    <3>2. QED
        BY <2>1, <3>1 DEF Artifacts
  <2>3. CASE i \notin S
      BY <2>1, <2>3
  <2>4. QED
      BY <2>2, <2>3
<1>3. DOMAIN arts' = 1..Len(arts)
    BY <1>1
<1>4. arts' \in Seq(Artifacts)
  <2>1. arts' \in [1..Len(arts) -> Artifacts]
      BY <1>1, <1>2, <1>3
  <2>2. QED
      BY <1>1, <2>1
<1>5. QED
    BY <1>1, <1>2, <1>3, <1>4

-----------------------------------------------------------------------------
(* Files. *)

\* A removal in which no call failed removes every key.
LEMMA AllRemoved ==
    ASSUME Shapes, NEW keys \in SUBSET Keys, Remove(keys)
    PROVE  /\ faults' \in 0..MaxFaults /\ faults' <= faults
           /\ file' \in [Keys -> Cands \cup {None}]
           /\ \A k \in Keys : file'[k] # None => file'[k] = file[k]
           /\ faults' = MaxFaults => \A k \in keys : file'[k] = None
<1>1. PICK kept \in SUBSET {k \in keys : file[k] # None} :
        /\ Cardinality(kept) <= faults
        /\ faults' = faults - Cardinality(kept)
        /\ file' = [k \in Keys |-> IF k \in keys \ kept THEN None ELSE file[k]]
    BY DEF Remove
<1>2. IsFiniteSet(kept)
  <2>1. IsFiniteSet(Keys)
    <3> DEFINE f == [x \in Cands \X Kinds |-> Key(x[1], x[2])]
    <3>1. IsFiniteSet({}) /\ IsFiniteSet({"webm"})
        BY FS_EmptySet, FS_Singleton
    <3>2. IsFiniteSet({"webm"} \cup {"mp4"})
        BY <3>1, FS_AddElement
    <3>3. IsFiniteSet(({"webm"} \cup {"mp4"}) \cup {"identity"})
        BY <3>2, FS_AddElement
    <3>4. Kinds = ({"webm"} \cup {"mp4"}) \cup {"identity"}
        BY DEF Kinds, Recordings
    <3>5. IsFiniteSet(Kinds)
        BY <3>3, <3>4
    <3>6. IsFiniteSet(Cands \X Kinds)
        BY <3>5, FS_Product, EvidenceAssumption
    <3>7. f \in Surjection(Cands \X Kinds, Keys)
      <4>1. ASSUME NEW k \in Keys PROVE \E x \in Cands \X Kinds : f[x] = k
        <5>1. PICK c \in Cands, kind \in Kinds : k = Key(c, kind)
            BY DEF Keys
        <5>2. <<c, kind>> \in Cands \X Kinds
            BY <5>1
        <5>3. f[<<c, kind>>] = k
            BY <5>1, <5>2
        <5>4. QED
            BY <5>2, <5>3
      <4>2. f \in [Cands \X Kinds -> Keys]
        <5>1. ASSUME NEW x \in Cands \X Kinds PROVE Key(x[1], x[2]) \in Keys
          <6>1. x[1] \in Cands /\ x[2] \in Kinds
              OBVIOUS
          <6>2. QED
              BY <6>1 DEF Keys
        <5>2. QED
            BY <5>1
      <4>3. QED
          BY <4>1, <4>2 DEF Surjection
    <3>8. QED
      <4> HIDE DEF f
      <4> QED
          BY <3>6, <3>7, FS_Surjection
  <2>2. QED
      BY <2>1, FS_Subset
<1>3. Cardinality(kept) \in Nat /\ (Cardinality(kept) = 0 => kept = {})
    BY <1>2, FS_CardinalityType, FS_EmptySet
<1>4. faults \in Nat /\ MaxFaults \in Nat /\ faults <= MaxFaults /\ file \in [Keys -> Cands \cup {None}]
    BY EvidenceAssumption DEF Shapes, FileShapes
<1>5. faults' \in 0..MaxFaults /\ faults' <= faults /\ (faults' = MaxFaults => kept = {})
    BY <1>1, <1>3, <1>4
<1>6. QED
    BY <1>1, <1>4, <1>5

-----------------------------------------------------------------------------
(* Steps that touch neither rows nor files. *)

Untouched == <<arts, file, verify, upload, erase, sweep, later, faults>>

LEMMA QuietStep ==
    ASSUME Collected, Once, Named, Gone, UNCHANGED Untouched
    PROVE  Collected' /\ Once' /\ Named' /\ Gone'
<1>1. Collected'
    BY DEF Collected, Untouched
<1>2. Once'
    BY DEF Once, Coming, Untouched
<1>3. Named'
    BY DEF Named, StaysListed, Clearing, Verifying, Uploading, Untouched
<1>4. Gone'
    BY DEF Gone, Untouched
<1>5. QED
    BY <1>1, <1>2, <1>3, <1>4

LEMMA InitIInv == Init => IInv
<1> SUFFICES ASSUME Init PROVE IInv
    OBVIOUS
<1>1. Shapes
  <2>1. RowShapes
      BY DEF Init, RowShapes
  <2>2. ArtifactShapes
      BY DEF Init, ArtifactShapes, NoErase, NoSweep
  <2>3. FileShapes
      BY EvidenceAssumption DEF Init, FileShapes
  <2>4. UploadShapes
      BY DEF Init, UploadShapes, NoUpload, Recordings
  <2>5. EraseShapes /\ SweepShapes
      BY DEF Init, EraseShapes, SweepShapes, NoErase, NoSweep, Ways
  <2>6. QED
      BY <2>1, <2>2, <2>3, <2>4, <2>5 DEF Shapes
<1>2. Collected /\ Once
  <2>1. DOMAIN arts = {}
      BY DEF Init
  <2>2. erase.arts = {} /\ upload.due = Taking /\ upload.admitted = {}
        /\ upload.now.at = "idle"
      BY DEF Init, NoErase, NoUpload
  <2>3. QED
      BY <2>1, <2>2 DEF Collected, Once
<1>3. Named /\ Gone
  <2>1. ASSUME NEW c \in Cands, NEW k \in Keys PROVE file[k] # c
      BY EvidenceAssumption DEF Init
  <2>2. QED
      BY <2>1 DEF Named, Gone
<1>4. QED
    BY <1>1, <1>2, <1>3 DEF IInv

-----------------------------------------------------------------------------
(* Types. *)

LEMMA KeysKnown == ASSUME NEW c \in Cands, NEW kind \in Kinds PROVE Key(c, kind) \in Keys
BY DEF Keys

LEMMA RowsTyped == ASSUME ArtifactShapes, NEW i \in DOMAIN arts PROVE arts[i] \in Artifacts
<1>1. arts \in Seq(Artifacts)
    BY DEF ArtifactShapes
<1>2. QED
    BY <1>1

LEMMA DoomedKnown ==
    ASSUME Shapes, Collected, erase.at # "idle" PROVE Doomed \subseteq Keys
<1>1. erase.who \in Cands /\ erase.recs \subseteq Kinds /\ "identity" \in Kinds
    BY DEF Shapes, EraseShapes, Kinds
<1>2. \A i \in erase.arts : arts[i].kind \in Kinds
  <2>1. \A i \in erase.arts : arts[i] \in Artifacts
      BY RowsTyped DEF Shapes, ArtifactShapes
  <2>2. QED
      BY <2>1 DEF Artifacts
<1>3. QED
    BY <1>1, <1>2, KeysKnown DEF Doomed

\* A file is stored under a known key.
LEMMA StoreShapes ==
    ASSUME FileShapes, NEW c \in Cands, NEW kind \in Kinds, Store(c, kind)
    PROVE  /\ file' \in [Keys -> Cands \cup {None}]
           /\ file'[Key(c, kind)] = c /\ Key(c, kind) \in Keys
           /\ \A k \in Keys : k # Key(c, kind) => file'[k] = file[k]
<1>1. Key(c, kind) \in Keys
    BY KeysKnown
<1>2. QED
    BY <1>1 DEF FileShapes, Store

\* The end of storing, field by field.
LEMMA Listing ==
    ASSUME UploadShapes, UploadList
    PROVE  /\ DOMAIN upload' = DOMAIN upload /\ DOMAIN upload'.now = DOMAIN upload.now
           /\ upload'.due = upload.due /\ upload'.admitted = upload.admitted
           /\ upload'.now.kind \in Recordings
           /\ \/ upload'.now.at = "idle"
              \/ /\ upload.now.kind = "webm" /\ upload'.now.kind = "mp4"
                 /\ upload'.now.at = "store" /\ upload'.now.who = upload.now.who
<1>1. CASE upload' = [upload EXCEPT !.now = NoUpload]
    BY <1>1 DEF UploadShapes, NoUpload, Recordings
<1>2. CASE upload.now.kind = "webm" /\ upload' = [upload EXCEPT !.now.kind = "mp4", !.now.at = "store"]
  <2>1. upload'.now = [upload.now EXCEPT !.kind = "mp4", !.at = "store"]
      BY <1>2 DEF UploadShapes
  <2>2. DOMAIN upload' = DOMAIN upload /\ upload'.due = upload.due /\ upload'.admitted = upload.admitted
      BY <1>2 DEF UploadShapes
  <2>3. QED
      BY <1>2, <2>1, <2>2 DEF UploadShapes, Recordings
<1>3. QED
    BY <1>1, <1>2 DEF UploadList

\* Steps of the handlers that answer, attempt and upload.
LEMMA HandlerShapes ==
    ASSUME Shapes, Once, NEW c \in Cands,
           \/ Answer(c) \/ SaveAnswer(c) \/ VerifyStart(c) \/ VerifyStore(c) \/ VerifyCommit(c)
           \/ UploadAdmit(c) \/ UploadStore(c, "webm") \/ UploadStore(c, "mp4")
           \/ UploadRow \/ UploadList
    PROVE  Shapes'
<1> USE DEF Shapes
<1>1. CASE Answer(c)
    BY <1>1 DEF Answer, rows, RowShapes, ArtifactShapes, FileShapes, UploadShapes, EraseShapes, SweepShapes
<1>2. CASE SaveAnswer(c)
  <2>1. RowShapes'
      BY <1>2 DEF SaveAnswer, RowShapes
  <2>2. QED
      BY <1>2, <2>1 DEF SaveAnswer, ArtifactShapes, FileShapes, UploadShapes, EraseShapes, SweepShapes
<1>3. CASE VerifyStart(c)
  <2>1. verify' = [verify EXCEPT ![c] = [at |-> "read", had |-> ver[c]]] /\ ver[c] \in BOOLEAN
      BY <1>3 DEF VerifyStart, RowShapes
  <2>2. verify' \in [Cands -> [at : {"idle", "read", "stored"}, had : BOOLEAN]]
    <3>1. [at |-> "read", had |-> ver[c]] \in [at : {"idle", "read", "stored"}, had : BOOLEAN]
        BY <2>1
    <3>2. QED
        BY <2>1, <3>1 DEF UploadShapes
  <2>3. UploadShapes'
      BY <1>3, <2>2 DEF VerifyStart, UploadShapes
  <2>4. QED
      BY <1>3, <2>3 DEF VerifyStart, rows, RowShapes, ArtifactShapes, FileShapes, EraseShapes, SweepShapes
<1>4. CASE VerifyStore(c)
  <2>1. FileShapes'
    <3>1. file' \in [Keys -> Cands \cup {None}]
        BY <1>4, StoreShapes DEF VerifyStore, Kinds
    <3>2. faults' \in 0..MaxFaults
        BY <1>4, EvidenceAssumption DEF VerifyStore, FileShapes
    <3>3. QED
        BY <3>1, <3>2 DEF FileShapes
  <2>2. UploadShapes'
      BY <1>4 DEF VerifyStore, UploadShapes
  <2>3. QED
      BY <1>4, <2>1, <2>2 DEF VerifyStore, rows, RowShapes, ArtifactShapes, EraseShapes, SweepShapes
<1>5. CASE VerifyCommit(c)
  <2>1. ArtifactShapes'
    <3>1. Listed(c, "identity") \in Artifacts
        BY DEF Listed, Artifacts, Kinds
    <3>2. QED
        BY <1>5, <3>1, RowsGrow DEF VerifyCommit, ArtifactShapes
  <2>2. UploadShapes'
      BY <1>5 DEF VerifyCommit, UploadShapes
  <2>3. RowShapes'
    <3>1. ver' \in [Cands -> BOOLEAN]
      <4>1. (ver[c] \/ ~verify[c].had) \in BOOLEAN
          OBVIOUS
      <4>2. ver' = [ver EXCEPT ![c] = ver[c] \/ ~verify[c].had]
          BY <1>5 DEF VerifyCommit
      <4>3. QED
          BY <4>1, <4>2, Zenon DEF RowShapes
    <3>2. QED
        BY <1>5, <3>1 DEF VerifyCommit, RowShapes
  <2>4. QED
      BY <1>5, <2>1, <2>2, <2>3 DEF VerifyCommit, FileShapes, EraseShapes, SweepShapes
<1>6. CASE UploadAdmit(c)
  <2>1. UploadShapes'
      BY <1>6 DEF UploadAdmit, UploadShapes
  <2>2. QED
      BY <1>6, <2>1 DEF UploadAdmit, rows, RowShapes, ArtifactShapes, FileShapes, EraseShapes, SweepShapes
<1>7. ASSUME NEW kind \in Recordings, UploadStore(c, kind) PROVE Shapes'
  <2>1. FileShapes'
      BY <1>7, StoreShapes DEF UploadStore, FileShapes, Kinds
  <2>2. UploadShapes'
      BY <1>7 DEF UploadStore, UploadShapes
  <2>3. QED
      BY <1>7, <2>1, <2>2 DEF UploadStore, rows, RowShapes, ArtifactShapes, EraseShapes, SweepShapes
<1>8. CASE UploadRow
  <2>1. UploadShapes'
      BY <1>8 DEF UploadRow, UploadShapes
  <2>2. RowShapes'
    <3>1. row' = [row EXCEPT ![upload.now.who].recs = @ \cup {upload.now.kind}]
        BY <1>8 DEF UploadRow
    <3>2. upload.now.who \in Cands /\ upload.now.kind \in Recordings
        BY <1>8, EvidenceAssumption DEF UploadRow, Once, UploadShapes
    <3>3. QED
        BY <1>8, <3>1, <3>2 DEF UploadRow, RowShapes
  <2>3. QED
      BY <1>8, <2>1, <2>2 DEF UploadRow, ArtifactShapes, FileShapes, EraseShapes, SweepShapes
<1>9. CASE UploadList
  <2>1. ArtifactShapes'
    <3>1. Listed(upload.now.who, upload.now.kind) \in Artifacts
        BY <1>9, EvidenceAssumption DEF UploadList, Once, UploadShapes, Listed, Artifacts, Kinds
    <3>2. arts' = arts \/ arts' = Append(arts, Listed(upload.now.who, upload.now.kind))
        BY <1>9 DEF UploadList, Upserted
    <3>3. QED
        BY <1>9, <3>1, <3>2, RowsGrow DEF UploadList, ArtifactShapes
  <2>2. UploadShapes'
      BY <1>9, Listing DEF UploadList, UploadShapes
  <2>3. QED
      BY <1>9, <2>1, <2>2 DEF UploadList, RowShapes, FileShapes, EraseShapes, SweepShapes
<1>10. "webm" \in Recordings /\ "mp4" \in Recordings
    BY DEF Recordings
<1>11. QED
    BY <1>1, <1>2, <1>3, <1>4, <1>5, <1>6, <1>7, <1>8, <1>9, <1>10

\* Steps of a delete request.
LEMMA EraseStepShapes ==
    ASSUME Shapes, Collected, NEW c \in Cands, NEW way \in Ways,
           EraseCollect(c, way) \/ EraseFiles \/ EraseFlush \/ EraseCommit
    PROVE  Shapes'
<1> USE DEF Shapes
<1>1. CASE EraseCollect(c, way)
  <2> DEFINE mine == {i \in DOMAIN arts : arts[i].who = c /\ arts[i].path}
             known == erased[c] = {} /\ ver[c]
  <2>1. mine \subseteq DOMAIN arts /\ known \in BOOLEAN /\ row[c].recs \subseteq Recordings
      BY DEF RowShapes
  <2>2. EraseShapes' /\ erase'.arts \subseteq DOMAIN arts
    <3>1. erase' = [who |-> c, way |-> way, at |-> "collected", arts |-> mine,
                    recs |-> row[c].recs, ver |-> known, text |-> row[c].text]
        BY <1>1 DEF EraseCollect
    <3> HIDE DEF mine, known
    <3>2. QED
        BY <2>1, <3>1 DEF EraseShapes
  <2>3. UNCHANGED <<row, ver, arts, erased, old, file, faults, verify, upload, sweep>>
      BY <1>1 DEF EraseCollect, rows
  <2>4. QED
      BY <2>2, <2>3 DEF RowShapes, ArtifactShapes, FileShapes, UploadShapes, SweepShapes
<1>2. CASE EraseFiles
  <2>1. erase' = [erase EXCEPT !.at = "deleted"] /\ erase.at = "collected"
      BY <1>2 DEF EraseFiles
  <2>2. EraseShapes' /\ erase'.arts = erase.arts
      BY <2>1 DEF EraseShapes
  <2>3. FileShapes'
    <3>1. Doomed \subseteq Keys /\ Remove(Doomed)
        BY <1>2, <2>1, DoomedKnown DEF EraseFiles
    <3>2. QED
        BY <3>1, AllRemoved DEF FileShapes
  <2>4. QED
      BY <1>2, <2>2, <2>3 DEF EraseFiles, rows, RowShapes, ArtifactShapes, UploadShapes, SweepShapes
<1>3. CASE EraseFlush
  <2>1. erase' = [erase EXCEPT !.at = "flushed"] /\ erase.at = "deleted"
      BY <1>3 DEF EraseFlush
  <2>2. EraseShapes' /\ erase'.arts = erase.arts
      BY <2>1 DEF EraseShapes
  <2>3. QED
      BY <1>3, <2>2 DEF EraseFlush, rows, RowShapes, ArtifactShapes, FileShapes, UploadShapes, SweepShapes
<1>4. CASE EraseCommit
  <2>1. EraseShapes' /\ erase'.arts = {}
      BY <1>4 DEF EraseCommit, NoErase, EraseShapes, Ways
  <2>2. ArtifactShapes'
    <3>1. arts' \in Seq(Artifacts) /\ DOMAIN arts' = DOMAIN arts
        BY <1>4, RowsCleared DEF EraseCommit
    <3>2. QED
        BY <1>4, <2>1, <3>1 DEF EraseCommit, ArtifactShapes
  <2>3. RowShapes'
    <3>1. erase.who \in Cands /\ erase.way \in Ways /\ erase.recs \subseteq Recordings
        BY <1>4 DEF EraseCommit, EraseShapes
    <3>2. ver' \in [Cands -> BOOLEAN]
      <4>1. ver' = [ver EXCEPT ![erase.who] = ver[erase.who] /\ ~erase.ver]
          BY <1>4 DEF EraseCommit
      <4>2. (ver[erase.who] /\ ~erase.ver) \in BOOLEAN
          OBVIOUS
      <4>3. QED
          BY <3>1, <4>1, <4>2, Zenon DEF RowShapes
    <3>3. erased' \in [Cands -> SUBSET Ways]
        BY <1>4, <3>1 DEF EraseCommit, RowShapes
    <3>4. row' \in [Cands -> [text : BOOLEAN, recs : SUBSET Recordings]]
      <4>1. CASE erase.way = "email"
          BY <1>4, <4>1 DEF EraseCommit, RowShapes
      <4>2. CASE erase.way # "email"
        <5> DEFINE left == [text |-> row[erase.who].text /\ ~erase.text,
                            recs |-> row[erase.who].recs \ erase.recs]
        <5>1. row' = [row EXCEPT ![erase.who] = left]
            BY <1>4, <4>2 DEF EraseCommit
        <5>2. left \in [text : BOOLEAN, recs : SUBSET Recordings]
          <6>1. (row[erase.who].text /\ ~erase.text) \in BOOLEAN
              OBVIOUS
          <6>2. row[erase.who].recs \ erase.recs \in SUBSET Recordings
              BY <3>1 DEF RowShapes
          <6>3. QED
              BY <6>1, <6>2
        <5>3. QED
          <6> HIDE DEF left
          <6> QED
              BY <5>1, <5>2 DEF RowShapes
      <4>3. QED
          BY <4>1, <4>2
    <3>5. QED
        BY <3>2, <3>3, <3>4 DEF RowShapes
  <2>4. QED
      BY <1>4, <2>1, <2>2, <2>3 DEF EraseCommit, FileShapes, UploadShapes, SweepShapes
<1>5. QED
    BY <1>1, <1>2, <1>3, <1>4

\* Steps of the cleanup, crashes, and time.
LEMMA SweepStepShapes ==
    ASSUME Shapes, NEW table \in {"session", "verification"},
           SweepFiles \/ SweepRows \/ SweepCommit \/ Age(table) \/ Restart \/ SweepStops
    PROVE  Shapes'
<1> USE DEF Shapes
<1>1. CASE SweepFiles
  <2> DEFINE expired == {i \in old.arts : arts[i].path}
             keys == {Key(arts[i].who, arts[i].kind) : i \in expired}
  <2>1. expired \subseteq DOMAIN arts
      BY DEF ArtifactShapes
  <2>2. keys \subseteq Keys
    <3>1. ASSUME NEW i \in expired PROVE Key(arts[i].who, arts[i].kind) \in Keys
        BY <2>1, RowsTyped, KeysKnown DEF Artifacts
    <3>2. QED
        BY <3>1
  <2>3. Remove(keys) /\ sweep' = [NoSweep EXCEPT !.at = "deleted", !.arts = expired]
      BY <1>1 DEF SweepFiles
  <2>4. FileShapes'
      BY <2>2, <2>3, AllRemoved DEF FileShapes
  <2>5. SweepShapes' /\ sweep'.arts = expired
      BY <2>3 DEF SweepShapes, NoSweep
  <2>6. QED
      BY <1>1, <2>1, <2>4, <2>5 DEF SweepFiles, rows, requests, RowShapes, ArtifactShapes, UploadShapes, EraseShapes
<1>2. CASE SweepRows
  <2>1. PICK recs, vers : sweep' = [sweep EXCEPT !.at = "checked", !.recs = recs, !.vers = vers]
      BY <1>2 DEF SweepRows
  <2>2. SweepShapes' /\ sweep'.arts = sweep.arts
      BY <2>1 DEF SweepShapes
  <2>3. QED
      BY <1>2, <2>2 DEF SweepRows, rows, requests, RowShapes, ArtifactShapes, FileShapes, UploadShapes, EraseShapes
<1>3. CASE SweepCommit
  <2>1. SweepShapes' /\ sweep'.arts = {}
      BY <1>3 DEF SweepCommit, NoSweep, SweepShapes
  <2>2. ArtifactShapes'
    <3>1. arts' \in Seq(Artifacts) /\ DOMAIN arts' = DOMAIN arts
        BY <1>3, RowsCleared DEF SweepCommit
    <3>2. QED
        BY <1>3, <2>1, <3>1 DEF SweepCommit, requests, ArtifactShapes
  <2>3. RowShapes'
    <3>1. ver' \in [Cands -> BOOLEAN]
      <4>1. ver' = [c \in Cands |-> ver[c] /\ c \notin sweep.vers]
          BY <1>3 DEF SweepCommit
      <4>2. QED
          BY <4>1, Zenon
    <3>2. row' \in [Cands -> [text : BOOLEAN, recs : SUBSET Recordings]]
      <4>1. row' = [c \in Cands |-> [row[c] EXCEPT !.recs = @ \ {k \in @ : <<c, k>> \in sweep.recs}]]
          BY <1>3 DEF SweepCommit
      <4>2. ASSUME NEW c \in Cands PROVE row'[c] \in [text : BOOLEAN, recs : SUBSET Recordings]
          BY <4>1 DEF RowShapes
      <4>3. QED
          BY <4>1, <4>2
    <3>3. QED
        BY <1>3, <3>1, <3>2 DEF SweepCommit, RowShapes
  <2>4. QED
      BY <1>3, <2>1, <2>2, <2>3 DEF SweepCommit, requests, FileShapes, UploadShapes, EraseShapes
<1>4. CASE Age(table)
  <2>1. ArtifactShapes'
      BY <1>4 DEF Age, rows, requests, ArtifactShapes
  <2>2. QED
      BY <1>4, <2>1 DEF Age, rows, requests, RowShapes, FileShapes, UploadShapes, EraseShapes, SweepShapes
<1>5. CASE Restart
  <2>1. FileShapes'
      BY <1>5, EvidenceAssumption DEF Restart, FileShapes
  <2>2. UploadShapes'
    <3>1. verify' \in [Cands -> [at : {"idle", "read", "stored"}, had : BOOLEAN]]
        BY <1>5 DEF Restart, UploadShapes
    <3>2. upload' = [upload EXCEPT !.admitted = {}, !.now = NoUpload]
        BY <1>5 DEF Restart
    <3>3. QED
        BY <3>1, <3>2 DEF UploadShapes, NoUpload, Recordings
  <2>3. EraseShapes' /\ erase'.arts = {}
      BY <1>5 DEF Restart, NoErase, EraseShapes, Ways
  <2>4. QED
      BY <1>5, <2>1, <2>2, <2>3 DEF Restart, rows, RowShapes, ArtifactShapes, SweepShapes
<1>6. CASE SweepStops
  <2>1. FileShapes'
      BY <1>6, EvidenceAssumption DEF SweepStops, FileShapes
  <2>2. SweepShapes' /\ sweep'.arts = {}
      BY <1>6 DEF SweepStops, NoSweep, SweepShapes
  <2>3. QED
      BY <1>6, <2>1, <2>2 DEF SweepStops, rows, requests, RowShapes, ArtifactShapes, UploadShapes, EraseShapes
<1>7. QED
    BY <1>1, <1>2, <1>3, <1>4, <1>5, <1>6

-----------------------------------------------------------------------------
(* What the steps of the handlers keep. *)

\* What has been collected and is being cleared are rows that are there.
LEMMA ClearingKnown == ASSUME ArtifactShapes PROVE Clearing \subseteq DOMAIN arts
BY DEF ArtifactShapes, Clearing

LEMMA AttemptStarts == ASSUME IInv, NEW c \in Cands, VerifyStart(c) PROVE Kept'
<1>1. Collected' /\ Once' /\ Gone'
    BY DEF IInv, VerifyStart, rows, Collected, Once, Coming, Gone
<1>2. Named'
  <2>1. ASSUME NEW d \in Cands, NEW k \in Keys, Verifying(d, k) PROVE Verifying(d, k)'
      BY <2>1 DEF IInv, Shapes, UploadShapes, VerifyStart, Verifying
  <2>2. QED
      BY <2>1 DEF IInv, VerifyStart, rows, Named, StaysListed, Clearing, Uploading
<1>3. QED
    BY <1>1, <1>2 DEF Kept

LEMMA AttemptStores == ASSUME IInv, NEW c \in Cands, VerifyStore(c) PROVE Kept'
<1>1. Collected' /\ Once'
    BY DEF IInv, VerifyStore, rows, Collected, Once, Coming
<1>2. /\ file'[Key(c, "identity")] = c
      /\ \A k \in Keys : k # Key(c, "identity") => file'[k] = file[k]
      /\ later' = later \cup {c}
    BY StoreShapes DEF IInv, Shapes, VerifyStore, Kinds, Store
<1>3. CASE verify' = [verify EXCEPT ![c].at = "stored"] /\ UNCHANGED faults
  <2>1. /\ verify'[c].at = "stored"
        /\ \A d \in Cands : verify[d].at = "stored" => verify'[d].at = "stored"
      BY <1>3 DEF IInv, Shapes, UploadShapes
  <2>2. Named'
    <3> SUFFICES ASSUME faults = MaxFaults, NEW d \in Cands, NEW k \in Keys, file'[k] = d
                 PROVE  StaysListed(d, k)' \/ Verifying(d, k)' \/ Uploading(d, k)'
        BY <1>3 DEF Named
    <3>1. CASE k = Key(c, "identity")
        BY <1>2, <2>1, <3>1 DEF Verifying
    <3>2. CASE k # Key(c, "identity")
      <4>1. file[k] = d
          BY <1>2, <3>2
      <4>2. StaysListed(d, k) \/ Verifying(d, k) \/ Uploading(d, k)
          BY <4>1 DEF IInv, Named
      <4>3. QED
          BY <2>1, <4>2 DEF VerifyStore, rows, StaysListed, Clearing, Verifying, Uploading
    <3>3. QED
        BY <3>1, <3>2
  <2>3. Gone'
    <3> SUFFICES ASSUME faults = MaxFaults, NEW d \in Cands \ later', NEW k \in Keys, file'[k] = d
                 PROVE  /\ erase'.at = "collected" /\ erase'.who = d
                        /\ \E i \in erase'.arts : Key(d, arts'[i].kind) = k
        BY <1>3 DEF Gone
    <3>1. d # c /\ d \notin later /\ file[k] = d
        BY <1>2
    <3>2. QED
        BY <3>1 DEF IInv, Gone, VerifyStore, rows
  <2>4. QED
      BY <1>1, <2>2, <2>3 DEF Kept
<1>4. CASE faults > 0 /\ faults' = faults - 1
  <2>1. faults' # MaxFaults
      BY <1>4, EvidenceAssumption DEF IInv, Shapes, FileShapes
  <2>2. QED
      BY <1>1, <2>1 DEF Kept, Named, Gone
<1>5. QED
    BY <1>3, <1>4 DEF VerifyStore

\* A new row, of a candidate whose handler was about to list the file.
LEMMA NewRow ==
    ASSUME IInv, NEW a \in Artifacts, arts' = Append(arts, a),
           UNCHANGED <<erase, sweep, file, later, faults>>
    PROVE  /\ Collected' /\ Gone'
           /\ \A d \in Cands, k \in Keys : StaysListed(d, k) => StaysListed(d, k)'
           /\ a.path => StaysListed(a.who, Key(a.who, a.kind))'
<1>1. /\ DOMAIN arts' = DOMAIN arts \cup {Len(arts) + 1} /\ Len(arts) + 1 \notin DOMAIN arts
      /\ \A i \in DOMAIN arts : arts'[i] = arts[i]
      /\ arts'[Len(arts) + 1] = a
    BY RowsGrow DEF IInv
<1>2. erase.arts \subseteq DOMAIN arts /\ Clearing \subseteq DOMAIN arts /\ Clearing' = Clearing
    BY ClearingKnown DEF IInv, Shapes, ArtifactShapes, Clearing
<1>3. Collected'
    BY <1>1, <1>2 DEF IInv, Collected
<1>4. Gone'
  <2>1. \A i \in erase.arts : arts'[i].kind = arts[i].kind
      BY <1>1, <1>2
  <2>2. QED
      BY <2>1, ZenonT(60) DEF IInv, Gone
<1>5. ASSUME NEW d \in Cands, NEW k \in Keys, StaysListed(d, k) PROVE StaysListed(d, k)'
  <2>1. PICK i \in DOMAIN arts \ Clearing : arts[i].path /\ arts[i].who = d /\ Key(d, arts[i].kind) = k
      BY <1>5 DEF StaysListed
  <2>2. arts'[i] = arts[i] /\ i \in DOMAIN arts' \ Clearing'
      BY <1>1, <1>2
  <2>3. QED
      BY <2>1, <2>2 DEF StaysListed
<1>6. ASSUME a.path PROVE StaysListed(a.who, Key(a.who, a.kind))'
    BY <1>1, <1>2, <1>6 DEF StaysListed
<1>7. QED
    BY <1>3, <1>4, <1>5, <1>6

LEMMA AttemptEnds == ASSUME IInv, NEW c \in Cands, VerifyCommit(c) PROVE Kept'
<1> DEFINE a == Listed(c, "identity")
<1>1. a \in Artifacts /\ a.who = c /\ a.kind = "identity" /\ a.path
    BY DEF Listed, Artifacts, Kinds
<1>2. arts' = Append(arts, a) /\ UNCHANGED <<erase, sweep, file, later, faults, upload>>
    BY DEF VerifyCommit
<1> HIDE DEF a
<1>3. /\ Collected' /\ Gone'
      /\ \A d \in Cands, k \in Keys : StaysListed(d, k) => StaysListed(d, k)'
      /\ StaysListed(c, Key(c, "identity"))'
    BY <1>1, <1>2, NewRow
<1>4. Once'
  <2>1. DOMAIN arts' = DOMAIN arts \cup {Len(arts) + 1} /\ arts'[Len(arts) + 1] = a
        /\ \A i \in DOMAIN arts : arts'[i] = arts[i]
      BY <1>1, <1>2, RowsGrow DEF IInv
  <2>2. "identity" \notin Recordings
      BY DEF Recordings
  <2>3. QED
      BY <1>1, <1>2, <2>1, <2>2 DEF IInv, Once, Coming
<1>5. Named'
  <2> SUFFICES ASSUME faults = MaxFaults, NEW d \in Cands, NEW k \in Keys, file[k] = d
               PROVE  StaysListed(d, k)' \/ Verifying(d, k)' \/ Uploading(d, k)'
      BY <1>2 DEF Named
  <2>1. StaysListed(d, k) \/ Verifying(d, k) \/ Uploading(d, k)
      BY DEF IInv, Named
  <2>2. CASE Verifying(d, k)
    <3>1. CASE d = c
        BY <1>3, <2>2, <3>1 DEF Verifying
    <3>2. CASE d # c
        BY <2>2, <3>2 DEF IInv, Shapes, UploadShapes, VerifyCommit, Verifying
    <3>3. QED
        BY <3>1, <3>2
  <2>3. QED
      BY <1>2, <1>3, <2>1, <2>2 DEF Uploading
<1>6. QED
    BY <1>3, <1>4, <1>5 DEF Kept

LEMMA UploadStarts == ASSUME IInv, NEW c \in Cands, UploadAdmit(c) PROVE Kept'
<1>1. /\ upload'.due = upload.due \ {c} /\ upload'.admitted = upload.admitted \cup {c}
      /\ upload'.now = upload.now /\ c \in upload.due
    BY DEF UploadAdmit, IInv, Shapes, UploadShapes
<1>2. Once'
    BY <1>1 DEF UploadAdmit, rows, IInv, Once, Coming
<1>3. Collected' /\ Gone'
    BY DEF UploadAdmit, rows, IInv, Collected, Gone
<1>4. Named'
    BY <1>1 DEF UploadAdmit, rows, IInv, Named, StaysListed, Clearing, Verifying, Uploading
<1>5. QED
    BY <1>2, <1>3, <1>4 DEF Kept

LEMMA UploadStores ==
    ASSUME IInv, NEW c \in Cands, NEW kind \in Recordings, UploadStore(c, kind) PROVE Kept'
<1>1. /\ file'[Key(c, kind)] = c
      /\ \A k \in Keys : k # Key(c, kind) => file'[k] = file[k]
      /\ later' = later \cup {c}
    BY StoreShapes DEF IInv, Shapes, UploadStore, Kinds, Store
<1>2. /\ upload'.due = upload.due /\ upload'.admitted = upload.admitted \ {c}
      /\ upload'.now.who = c /\ upload'.now.kind = kind /\ upload'.now.at = "row"
    BY DEF UploadStore, IInv, Shapes, UploadShapes
<1>3. \/ upload.now.at = "idle" /\ c \in upload.admitted /\ kind = "webm"
      \/ upload.now.at = "store" /\ upload.now.who = c /\ upload.now.kind = kind
    BY DEF UploadStore, Loop
<1>4. Once'
    BY <1>2, <1>3 DEF UploadStore, rows, IInv, Once, Coming
<1>5. Collected'
    BY DEF UploadStore, rows, IInv, Collected
<1>6. Named'
  <2> SUFFICES ASSUME faults = MaxFaults, NEW d \in Cands, NEW k \in Keys, file'[k] = d
               PROVE  StaysListed(d, k)' \/ Verifying(d, k)' \/ Uploading(d, k)'
      BY DEF Named, UploadStore
  <2>1. CASE k = Key(c, kind)
      BY <1>1, <1>2, <2>1 DEF Uploading
  <2>2. CASE k # Key(c, kind)
    <3>1. StaysListed(d, k) \/ Verifying(d, k) \/ Uploading(d, k)
        BY <1>1, <2>2 DEF IInv, Named
    <3>2. ~Uploading(d, k)
        BY <1>3 DEF Uploading
    <3>3. QED
        BY <3>1, <3>2 DEF UploadStore, rows, StaysListed, Clearing, Verifying
  <2>3. QED
      BY <2>1, <2>2
<1>7. Gone'
  <2> SUFFICES ASSUME faults = MaxFaults, NEW d \in Cands \ later', NEW k \in Keys, file'[k] = d
               PROVE  /\ erase'.at = "collected" /\ erase'.who = d
                      /\ \E i \in erase'.arts : Key(d, arts'[i].kind) = k
      BY DEF Gone, UploadStore
  <2>1. d # c /\ d \notin later /\ file[k] = d
      BY <1>1
  <2>2. QED
      BY <2>1 DEF IInv, Gone, UploadStore, rows
<1>8. QED
    BY <1>4, <1>5, <1>6, <1>7 DEF Kept

LEMMA UploadPoints == ASSUME IInv, UploadRow PROVE Kept'
<1>1. /\ upload'.due = upload.due /\ upload'.admitted = upload.admitted
      /\ upload'.now.who = upload.now.who /\ upload'.now.kind = upload.now.kind
      /\ upload'.now.at = "list" /\ upload.now.at = "row"
    BY DEF UploadRow, IInv, Shapes, UploadShapes
<1>2. Once'
    BY <1>1 DEF UploadRow, IInv, Once, Coming
<1>3. Collected' /\ Gone'
    BY DEF UploadRow, IInv, Collected, Gone
<1>4. Named'
    BY <1>1 DEF UploadRow, IInv, Named, StaysListed, Clearing, Verifying, Uploading
<1>5. QED
    BY <1>2, <1>3, <1>4 DEF Kept

LEMMA UploadLists == ASSUME IInv, UploadList PROVE Kept'
<1>1. /\ upload.now.at = "list" /\ upload.now.who \in Cands /\ upload.now.kind \in Recordings
      /\ Recordings \subseteq Kinds
    BY EvidenceAssumption DEF UploadList, IInv, Once, Shapes, UploadShapes, Kinds
<1>2. PICK a \in Artifacts : /\ a = Listed(upload.now.who, upload.now.kind) /\ a.path
                             /\ a.who = upload.now.who /\ a.kind = upload.now.kind
  <2>1. /\ Listed(upload.now.who, upload.now.kind) \in Artifacts
        /\ Listed(upload.now.who, upload.now.kind).path
        /\ Listed(upload.now.who, upload.now.kind).who = upload.now.who
        /\ Listed(upload.now.who, upload.now.kind).kind = upload.now.kind
      BY <1>1 DEF Listed, Artifacts
  <2>2. QED
      BY <2>1
<1>3. arts' = Append(arts, a)
  <2>1. ASSUME NEW i \in DOMAIN arts PROVE arts[i] # a
    <3>1. Coming(upload.now.who, upload.now.kind)
        BY <1>1 DEF Coming, Recordings
    <3>2. QED
        BY <1>1, <1>2, <3>1 DEF IInv, Once
  <2>2. QED
      BY <1>2, <2>1 DEF UploadList, Upserted
<1>4. UNCHANGED <<erase, sweep, file, later, faults, verify>>
    BY DEF UploadList
<1>5. /\ Collected' /\ Gone'
      /\ \A d \in Cands, k \in Keys : StaysListed(d, k) => StaysListed(d, k)'
      /\ StaysListed(a.who, Key(a.who, a.kind))'
    BY <1>2, <1>3, <1>4, NewRow
<1>6. Once'
  <2>1. DOMAIN arts' = DOMAIN arts \cup {Len(arts) + 1} /\ arts'[Len(arts) + 1] = a
        /\ \A i \in DOMAIN arts : arts'[i] = arts[i]
      BY <1>2, <1>3, RowsGrow DEF IInv
  <2>2. /\ upload'.due = upload.due /\ upload'.admitted = upload.admitted
        /\ \/ upload'.now.at = "idle"
           \/ /\ upload.now.kind = "webm" /\ upload'.now.kind = "mp4"
              /\ upload'.now.at = "store" /\ upload'.now.who = upload.now.who
      BY Listing DEF IInv, Shapes
  <2>3. ~Coming(a.who, a.kind)'
      BY <1>1, <1>2, <2>2 DEF Coming, IInv, Once
  <2>4. (\A i \in DOMAIN arts : arts[i].kind \in Recordings => ~Coming(arts[i].who, arts[i].kind))'
    <3> SUFFICES ASSUME NEW i \in DOMAIN arts', arts'[i].kind \in Recordings
                 PROVE  ~Coming(arts[i].who, arts[i].kind)'
        OBVIOUS
    <3>1. CASE i \in DOMAIN arts
      <4>1. ~Coming(arts[i].who, arts[i].kind) /\ arts'[i] = arts[i]
          BY <2>1, <3>1 DEF IInv, Once
      <4>2. QED
          BY <2>2, <4>1, <1>1 DEF Coming
    <3>2. CASE i \notin DOMAIN arts
        BY <2>1, <2>3, <3>2 DEF Coming
    <3>3. QED
        BY <3>1, <3>2
  <2>5. upload.now.who \in Taking \ (upload.due \cup upload.admitted)
      BY <1>1 DEF IInv, Once
  <2>6. QED
      BY <1>1, <2>2, <2>4, <2>5 DEF IInv, Once
<1>7. Named'
  <2> SUFFICES ASSUME faults = MaxFaults, NEW d \in Cands, NEW k \in Keys, file[k] = d
               PROVE  StaysListed(d, k)' \/ Verifying(d, k)' \/ Uploading(d, k)'
      BY <1>4 DEF Named
  <2>1. StaysListed(d, k) \/ Verifying(d, k) \/ Uploading(d, k)
      BY DEF IInv, Named
  <2>2. CASE Uploading(d, k)
      BY <1>2, <1>5, <2>2 DEF Uploading
  <2>3. QED
      BY <1>4, <1>5, <2>1, <2>2 DEF Verifying
<1>8. QED
    BY <1>5, <1>6, <1>7 DEF Kept

-----------------------------------------------------------------------------
(* What the steps of a delete request and of a cleanup keep. *)

LEMMA EraseStarts ==
    ASSUME IInv, NEW c \in Cands, NEW way \in Ways, EraseCollect(c, way) PROVE Kept'
<1> DEFINE mine == {i \in DOMAIN arts : arts[i].who = c /\ arts[i].path}
<1>1. /\ erase'.who = c /\ erase'.at = "collected" /\ erase'.arts = mine
      /\ erase.at = "idle" /\ upload.now.at = "idle"
      /\ UNCHANGED <<arts, file, verify, upload, sweep, faults>>
    BY DEF EraseCollect, rows, Loop
<1>2. Once'
    BY <1>1 DEF IInv, Once, Coming
<1>3. Collected'
    BY <1>1 DEF Collected
<1>4. Clearing' = Clearing
    BY <1>1 DEF Clearing
<1>5. Named'
    BY <1>1, <1>4 DEF IInv, Named, StaysListed, Verifying, Uploading
<1>6. Gone'
  <2> SUFFICES ASSUME faults = MaxFaults, NEW d \in Cands \ later', NEW k \in Keys, file[k] = d
               PROVE  /\ erase'.at = "collected" /\ erase'.who = d
                      /\ \E i \in erase'.arts : Key(d, arts'[i].kind) = k
      BY <1>1 DEF Gone
  <2>1. d = c /\ verify[c].at # "stored"
      BY <1>1 DEF EraseCollect, IInv, Gone
  <2>2. StaysListed(c, k)
      BY <1>1, <2>1 DEF IInv, Named, Verifying, Uploading
  <2>3. PICK i \in DOMAIN arts : arts[i].path /\ arts[i].who = c /\ Key(c, arts[i].kind) = k
      BY <2>2 DEF StaysListed
  <2>4. i \in mine
      BY <2>3
  <2>5. QED
      BY <1>1, <2>1, <2>3, <2>4
<1>7. QED
    BY <1>2, <1>3, <1>5, <1>6 DEF Kept

LEMMA EraseRemoves == ASSUME IInv, EraseFiles PROVE Kept'
<1>1. /\ erase.at = "collected" /\ erase' = [erase EXCEPT !.at = "deleted"]
      /\ UNCHANGED <<arts, verify, upload, sweep, later>>
    BY DEF EraseFiles, rows
<1>2. erase'.at = "deleted" /\ erase'.who = erase.who /\ erase'.arts = erase.arts
    BY <1>1 DEF IInv, Shapes, EraseShapes
<1>3. Once' /\ Collected'
    BY <1>1, <1>2 DEF IInv, Once, Coming, Collected
<1>4. Doomed \subseteq Keys /\ Remove(Doomed)
    BY <1>1, DoomedKnown DEF IInv, EraseFiles
<1>5. /\ \A k \in Keys : file'[k] # None => file'[k] = file[k]
      /\ faults' = MaxFaults => \A k \in Doomed : file'[k] = None
      /\ faults' = MaxFaults => faults = MaxFaults
  <2>1. /\ \A k \in Keys : file'[k] # None => file'[k] = file[k]
        /\ faults' = MaxFaults => \A k \in Doomed : file'[k] = None
        /\ faults' <= faults
      BY <1>4, AllRemoved DEF IInv
  <2>2. QED
      BY <2>1, EvidenceAssumption DEF IInv, Shapes, FileShapes
<1>6. \A i \in erase.arts : Key(erase.who, arts[i].kind) \in Doomed
    BY DEF Doomed
<1>7. Clearing' = Clearing \cup erase.arts
    BY <1>1, <1>2 DEF Clearing
<1>8. Named'
  <2> SUFFICES ASSUME faults' = MaxFaults, NEW d \in Cands, NEW k \in Keys, file'[k] = d
               PROVE  StaysListed(d, k)' \/ Verifying(d, k)' \/ Uploading(d, k)'
      BY DEF Named
  <2>1. file[k] = d /\ k \notin Doomed
      BY <1>5, EvidenceAssumption
  <2>2. StaysListed(d, k) \/ Verifying(d, k) \/ Uploading(d, k)
      BY <1>5, <2>1 DEF IInv, Named
  <2>3. CASE StaysListed(d, k)
    <3>1. PICK i \in DOMAIN arts \ Clearing : arts[i].path /\ arts[i].who = d /\ Key(d, arts[i].kind) = k
        BY <2>3 DEF StaysListed
    <3>2. i \notin erase.arts
        BY <1>6, <2>1, <3>1 DEF IInv, Collected
    <3>3. QED
        BY <1>1, <1>7, <3>1, <3>2 DEF StaysListed
  <2>4. QED
      BY <1>1, <2>2, <2>3 DEF Verifying, Uploading
<1>9. Gone'
  <2> SUFFICES ASSUME faults' = MaxFaults, NEW d \in Cands \ later, NEW k \in Keys, file'[k] = d
               PROVE  FALSE
      BY <1>1 DEF Gone
  <2>1. file[k] = d /\ k \notin Doomed
      BY <1>5, EvidenceAssumption
  <2>2. erase.who = d /\ \E i \in erase.arts : Key(d, arts[i].kind) = k
      BY <1>5, <2>1 DEF IInv, Gone
  <2>3. QED
      BY <1>6, <2>1, <2>2
<1>10. QED
    BY <1>3, <1>8, <1>9 DEF Kept

\* Clearing the paths of rows whose files were removed.
LEMMA Cleared ==
    ASSUME IInv, NEW S \in SUBSET Clearing,
           arts' = [i \in DOMAIN arts |-> IF i \in S THEN [arts[i] EXCEPT !.path = FALSE] ELSE arts[i]],
           Clearing' \subseteq Clearing
    PROVE  /\ \A i \in DOMAIN arts' : arts'[i].who = arts[i].who /\ arts'[i].kind = arts[i].kind
           /\ DOMAIN arts' = DOMAIN arts
           /\ \A d \in Cands, k \in Keys : StaysListed(d, k) => StaysListed(d, k)'
<1>1. /\ DOMAIN arts' = DOMAIN arts
      /\ \A i \in DOMAIN arts : arts'[i].who = arts[i].who /\ arts'[i].kind = arts[i].kind
      /\ \A i \in DOMAIN arts \ S : arts'[i] = arts[i]
    BY RowsCleared DEF IInv
<1>2. ASSUME NEW d \in Cands, NEW k \in Keys, StaysListed(d, k) PROVE StaysListed(d, k)'
  <2>1. PICK i \in DOMAIN arts \ Clearing : arts[i].path /\ arts[i].who = d /\ Key(d, arts[i].kind) = k
      BY <1>2 DEF StaysListed
  <2>2. arts'[i] = arts[i] /\ i \in DOMAIN arts' \ Clearing'
      BY <1>1
  <2>3. QED
      BY <2>1, <2>2 DEF StaysListed
<1>3. QED
    BY <1>1, <1>2

\* Gone says nothing but of a delete request that is to remove the files: the
\* commits of others clear paths and leave who and kind.
LEMMA EraseFlushes == ASSUME IInv, EraseFlush PROVE Kept'
<1>1. /\ erase.at = "deleted" /\ erase'.at = "flushed" /\ erase'.who = erase.who
      /\ erase'.arts = erase.arts
      /\ UNCHANGED <<arts, file, verify, upload, sweep, later, faults>>
    BY DEF EraseFlush, rows, IInv, Shapes, EraseShapes
<1>2. Collected' /\ Once' /\ Gone'
    BY <1>1 DEF IInv, Collected, Once, Coming, Gone
<1>3. Clearing' = Clearing
    BY <1>1 DEF Clearing
<1>4. Named'
    BY <1>1, <1>3 DEF IInv, Named, StaysListed, Verifying, Uploading
<1>5. QED
    BY <1>2, <1>4 DEF Kept

LEMMA EraseEnded == ASSUME IInv, EraseCommit PROVE Kept'
<1>1. /\ erase.at = "flushed" /\ erase'.at = "idle" /\ erase'.arts = {}
      /\ arts' = [i \in DOMAIN arts |->
                    IF i \in erase.arts THEN [arts[i] EXCEPT !.path = FALSE] ELSE arts[i]]
      /\ UNCHANGED <<file, verify, upload, sweep, later, faults>>
    BY DEF EraseCommit, NoErase
<1>2. erase.arts \subseteq Clearing /\ Clearing' \subseteq Clearing
    BY <1>1 DEF Clearing
<1>3. /\ \A i \in DOMAIN arts' : arts'[i].who = arts[i].who /\ arts'[i].kind = arts[i].kind
      /\ DOMAIN arts' = DOMAIN arts
      /\ \A d \in Cands, k \in Keys : StaysListed(d, k) => StaysListed(d, k)'
    BY <1>1, <1>2, Cleared
<1>4. Collected'
    BY <1>1 DEF Collected
<1>5. Once'
    BY <1>1, <1>3 DEF IInv, Once, Coming
<1>6. Named'
    BY <1>1, <1>3 DEF IInv, Named, Verifying, Uploading
<1>7. Gone'
    BY <1>1 DEF IInv, Gone
<1>8. QED
    BY <1>4, <1>5, <1>6, <1>7 DEF Kept

LEMMA SweepRemoves == ASSUME IInv, SweepFiles PROVE Kept'
<1> DEFINE expired == {i \in old.arts : arts[i].path}
           keys == {Key(arts[i].who, arts[i].kind) : i \in expired}
<1>1. /\ Remove(keys) /\ sweep.at = "idle" /\ sweep'.arts = expired
      /\ UNCHANGED <<arts, verify, upload, erase, later>>
    BY DEF SweepFiles, rows, requests, NoSweep
<1>2. keys \subseteq Keys
  <2>1. expired \subseteq DOMAIN arts
      BY DEF IInv, Shapes, ArtifactShapes
  <2>2. ASSUME NEW i \in expired PROVE Key(arts[i].who, arts[i].kind) \in Keys
      BY <2>1, RowsTyped, KeysKnown DEF IInv, Shapes, Artifacts
  <2>3. QED
      BY <2>2
<1>3. /\ \A k \in Keys : file'[k] # None => file'[k] = file[k]
      /\ faults' = MaxFaults => \A k \in keys : file'[k] = None
      /\ faults' = MaxFaults => faults = MaxFaults
  <2>1. /\ \A k \in Keys : file'[k] # None => file'[k] = file[k]
        /\ faults' = MaxFaults => \A k \in keys : file'[k] = None
        /\ faults' <= faults
      BY <1>1, <1>2, AllRemoved DEF IInv
  <2>2. QED
      BY <2>1, EvidenceAssumption DEF IInv, Shapes, FileShapes
<1>4. \A i \in expired : Key(arts[i].who, arts[i].kind) \in keys
    OBVIOUS
<1>5. Clearing' \subseteq Clearing \cup expired
    BY <1>1 DEF Clearing
<1> HIDE DEF keys
<1>6. Once' /\ Collected'
    BY <1>1 DEF IInv, Once, Coming, Collected
<1>7. Named'
  <2> SUFFICES ASSUME faults' = MaxFaults, NEW d \in Cands, NEW k \in Keys, file'[k] = d
               PROVE  StaysListed(d, k)' \/ Verifying(d, k)' \/ Uploading(d, k)'
      BY DEF Named
  <2>1. file[k] = d /\ k \notin keys
      BY <1>3, EvidenceAssumption
  <2>2. StaysListed(d, k) \/ Verifying(d, k) \/ Uploading(d, k)
      BY <1>3, <2>1 DEF IInv, Named
  <2>3. CASE StaysListed(d, k)
    <3>1. PICK i \in DOMAIN arts \ Clearing : arts[i].path /\ arts[i].who = d /\ Key(d, arts[i].kind) = k
        BY <2>3 DEF StaysListed
    <3>2. i \notin expired
        BY <1>4, <2>1, <3>1
    <3>3. QED
        BY <1>1, <1>5, <3>1, <3>2 DEF StaysListed
  <2>4. QED
      BY <1>1, <2>2, <2>3 DEF Verifying, Uploading
<1>8. Gone'
  <2> SUFFICES ASSUME faults' = MaxFaults, NEW d \in Cands \ later, NEW k \in Keys, file'[k] = d
               PROVE  /\ erase.at = "collected" /\ erase.who = d
                      /\ \E i \in erase.arts : Key(d, arts[i].kind) = k
      BY <1>1 DEF Gone
  <2>1. file[k] = d
      BY <1>3, EvidenceAssumption
  <2>2. QED
      BY <1>3, <2>1 DEF IInv, Gone
<1>9. QED
    BY <1>6, <1>7, <1>8 DEF Kept

LEMMA SweepChecks == ASSUME IInv, SweepRows PROVE Kept'
<1>1. /\ sweep'.arts = sweep.arts
      /\ UNCHANGED <<arts, file, verify, upload, erase, later, faults>>
  <2>1. PICK recs, vers : sweep' = [sweep EXCEPT !.at = "checked", !.recs = recs, !.vers = vers]
      BY DEF SweepRows
  <2>2. QED
      BY <2>1 DEF IInv, Shapes, SweepShapes, SweepRows, rows, requests
<1>2. Collected' /\ Once' /\ Gone'
    BY <1>1 DEF IInv, Collected, Once, Coming, Gone
<1>3. Clearing' = Clearing
    BY <1>1 DEF Clearing
<1>4. Named'
    BY <1>1, <1>3 DEF IInv, Named, StaysListed, Verifying, Uploading
<1>5. QED
    BY <1>2, <1>4 DEF Kept

LEMMA SweepEnds == ASSUME IInv, SweepCommit PROVE Kept'
<1>1. /\ sweep'.arts = {}
      /\ arts' = [i \in DOMAIN arts |->
                    IF i \in sweep.arts THEN [arts[i] EXCEPT !.path = FALSE] ELSE arts[i]]
      /\ UNCHANGED <<file, verify, upload, erase, later, faults>>
    BY DEF SweepCommit, NoSweep, requests
<1>2. sweep.arts \subseteq Clearing /\ Clearing' \subseteq Clearing
    BY <1>1 DEF Clearing
<1>3. /\ \A i \in DOMAIN arts' : arts'[i].who = arts[i].who /\ arts'[i].kind = arts[i].kind
      /\ DOMAIN arts' = DOMAIN arts
      /\ \A d \in Cands, k \in Keys : StaysListed(d, k) => StaysListed(d, k)'
    BY <1>1, <1>2, Cleared
<1>4. erase.arts \subseteq DOMAIN arts'
    BY <1>3 DEF IInv, Shapes, ArtifactShapes
<1>5. Collected'
    BY <1>1, <1>3, <1>4 DEF IInv, Collected
<1>6. Once'
    BY <1>1, <1>3 DEF IInv, Once, Coming
<1>7. Named'
    BY <1>1, <1>3 DEF IInv, Named, Verifying, Uploading
<1>8. Gone'
  <2>1. \A i \in erase.arts : arts'[i].kind = arts[i].kind
      BY <1>3, <1>4
  <2>2. QED
      BY <1>1, <2>1 DEF IInv, Gone
<1>9. QED
    BY <1>5, <1>6, <1>7, <1>8 DEF Kept

\* After a failure the invariant keeps only what has no need of its absence.
LEMMA Crashes == ASSUME IInv, Restart \/ SweepStops PROVE Kept'
<1>1. faults' # MaxFaults
    BY EvidenceAssumption DEF Restart, SweepStops, IInv, Shapes, FileShapes
<1>2. Collected' /\ Once'
  <2>1. CASE Restart
    <3>1. /\ upload'.due = upload.due /\ upload'.admitted = {} /\ upload'.now.at = "idle"
          /\ erase'.arts = {} /\ UNCHANGED arts
        BY <2>1 DEF Restart, NoErase, NoUpload, rows, IInv, Shapes, UploadShapes
    <3>2. QED
        BY <3>1 DEF IInv, Once, Coming, Collected
  <2>2. CASE SweepStops
      BY <2>2 DEF SweepStops, rows, requests, IInv, Once, Coming, Collected
  <2>3. QED
      BY <2>1, <2>2
<1>3. QED
    BY <1>1, <1>2 DEF Kept, Named, Gone

-----------------------------------------------------------------------------
(* The invariant, and what follows. *)

LEMMA StepIInv == ASSUME IInv, [Next]_vars PROVE IInv'
<1> USE DEF IInv
<1>1. "webm" \in Recordings /\ "mp4" \in Recordings
    BY DEF Recordings
<1>2. ASSUME NEW c \in Cands,
             \/ Answer(c) \/ SaveAnswer(c)
             \/ VerifyStart(c) \/ VerifyStore(c) \/ VerifyCommit(c)
             \/ UploadAdmit(c) \/ UploadStore(c, "webm") \/ UploadStore(c, "mp4")
             \/ UploadRow \/ UploadList
      PROVE  IInv'
  <2>1. Shapes'
      BY <1>2, HandlerShapes
  <2>2. CASE Answer(c) \/ SaveAnswer(c)
    <3>1. UNCHANGED Untouched
        BY <2>2 DEF Answer, SaveAnswer, Untouched, rows
    <3>2. QED
        BY <2>1, <3>1, QuietStep
  <2>3. CASE ~(Answer(c) \/ SaveAnswer(c))
    <3>1. Kept'
        BY <1>1, <1>2, <2>3, AttemptStarts, AttemptStores, AttemptEnds, UploadStarts,
           UploadStores, UploadPoints, UploadLists
    <3>2. QED
        BY <2>1, <3>1 DEF Kept
  <2>4. QED
      BY <2>2, <2>3
<1>3. ASSUME NEW c \in Cands, NEW way \in Ways, EraseCollect(c, way) PROVE IInv'
  <2>1. Shapes'
      BY <1>3, EraseStepShapes
  <2>2. QED
      BY <1>3, <2>1, EraseStarts DEF Kept
<1>4. ASSUME EraseFiles \/ EraseFlush \/ EraseCommit PROVE IInv'
  <2>1. PICK c \in Cands : TRUE
      BY <1>4 DEF EraseFiles, EraseFlush, EraseCommit, Shapes, EraseShapes
  <2>2. Shapes'
      BY <1>4, <2>1, EraseStepShapes DEF Ways
  <2>3. QED
      BY <1>4, <2>2, EraseRemoves, EraseFlushes, EraseEnded DEF Kept
<1>5. ASSUME NEW table \in {"session", "verification"},
             SweepFiles \/ SweepRows \/ SweepCommit \/ Age(table) \/ Restart \/ SweepStops
      PROVE  IInv'
  <2>1. Shapes'
      BY <1>5, SweepStepShapes
  <2>2. CASE Age(table)
    <3>1. UNCHANGED Untouched
        BY <2>2 DEF Age, Untouched, rows, requests
    <3>2. QED
        BY <2>1, <3>1, QuietStep
  <2>3. QED
      BY <1>5, <2>1, <2>2, SweepRemoves, SweepChecks, SweepEnds, Crashes DEF Kept
<1>6. CASE UNCHANGED vars
  <2>1. Shapes'
      BY <1>6 DEF vars, rows, requests, Shapes, RowShapes, ArtifactShapes, FileShapes, UploadShapes,
                  EraseShapes, SweepShapes
  <2>2. UNCHANGED Untouched
      BY <1>6 DEF vars, rows, requests, Untouched
  <2>3. QED
      BY <2>1, <2>2, QuietStep
<1>7. CASE UploadRow \/ UploadList
  <2>1. PICK c \in Cands : TRUE
      BY <1>7, EvidenceAssumption DEF UploadRow, UploadList, Once
  <2>2. QED
      BY <1>2, <1>7, <2>1
<1>8. QED
    BY <1>2, <1>3, <1>4, <1>5, <1>6, <1>7 DEF Next, Erases, Sweeps, Uploads

\* The inductive invariant holds in every state of every execution.
THEOREM Invariant == Spec => []IInv
<1>1. Init => IInv
    BY InitIInv
<1>2. IInv /\ [Next]_vars => IInv'
    BY StepIInv
<1>3. QED
    BY <1>1, <1>2, PTL DEF Spec

\* Types: rows, artifacts, files and collected rows stay what they are, and
\* every row that is old is there.
THEOREM TypesHold == Spec => []TypeOK
<1>1. IInv => TypeOK
  <2> SUFFICES ASSUME IInv PROVE TypeOK
      OBVIOUS
  <2>1. \A i \in DOMAIN arts : arts[i] \in [who : Cands, kind : Kinds, path : BOOLEAN]
      BY RowsTyped DEF IInv, Shapes, Artifacts
  <2>2. QED
      BY <2>1 DEF IInv, Shapes, RowShapes, ArtifactShapes, FileShapes, TypeOK
<1>2. QED
    BY <1>1, Invariant, PTL

\* When nothing is running and no call failed, every stored file is named by an
\* artifact row of the candidate it is of, however the handlers of any number of
\* candidates, their delete requests and the cleanups overlapped.
THEOREM NoFileForgotten == Spec => []EveryFileNamed
<1>1. IInv => EveryFileNamed
  <2> SUFFICES ASSUME IInv, Idle, faults = MaxFaults, NEW k \in Keys, file[k] # None
               PROVE  \E i \in DOMAIN arts : /\ arts[i].path /\ arts[i].who = file[k]
                                             /\ Key(arts[i].who, arts[i].kind) = k
      BY DEF EveryFileNamed
  <2>1. file[k] \in Cands
      BY DEF IInv, Shapes, FileShapes
  <2>2. ~Verifying(file[k], k) /\ ~Uploading(file[k], k)
      BY <2>1 DEF Idle, Loop, Verifying, Uploading
  <2>3. StaysListed(file[k], k)
      BY <2>1, <2>2 DEF IInv, Named
  <2>4. QED
      BY <2>3 DEF StaysListed
<1>2. QED
    BY <1>1, Invariant, PTL

\* If no storage call failed, an erasure leaves no file of a candidate who stored
\* none while it ran or after it.
THEOREM ErasuresComplete == Spec => []ErasedFilesGone
<1>1. IInv => ErasedFilesGone
    BY DEF IInv, Gone, ErasedFilesGone
<1>2. QED
    BY <1>1, Invariant, PTL
=============================================================================
