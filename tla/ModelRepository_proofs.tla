------------------------ MODULE ModelRepository_proofs ------------------------
(***************************************************************************)
(* Proofs about the model repository: for any number of writers, readers,  *)
(* versions and faults.                                                    *)
(***************************************************************************)
EXTENDS ModelRepository, TLAPS

(* Nothing lies outside a version directory.                               *)
FilesInDirs ==
  \A v \in Versions : v \notin dirs => artifact[v] = NoObject /\ card[v] = NoCard

(* The version a save is writing is the highest, and not published yet.    *)
WritingOK ==
  \A t \in Threads : job[t].pc \in {"mkdir", "artifact", "card"} =>
    LET v == job[t].ver
    IN  /\ v \in Versions
        /\ card[v] = NoCard
        /\ \A w \in dirs : w <= v
        /\ job[t].pc = "mkdir" => v \notin dirs
        /\ job[t].pc # "mkdir" => v \in dirs
        /\ job[t].pc = "card" => artifact[v] = t

(* What may still be live while incumbents are being archived.             *)
ArchivingOK ==
  \A t \in Threads : job[t].pc = "archive" =>
    /\ job[t].ver \in Live
    /\ job[t].ver \notin job[t].todo
    /\ Live \subseteq job[t].todo \cup {job[t].ver}

(* Outside of an archiving, and unless one was cut short, one is live.     *)
SettledOK ==
  ~interrupted /\ (\A t \in Threads : job[t].pc # "archive") =>
    \A v \in Live : \A w \in Live : v = w

(* What a reader relies on.                                                *)
ReadersOK ==
  \A r \in Readers :
    /\ read[r].pc = "scan" /\ read[r].newest # 0 =>
         read[r].newest \in read[r].left /\ read[r].newest \in Readable
    /\ read[r].pc = "load" => read[r].got \in Readable
    /\ read[r].pc \in {"load", "loaded"} => read[r].got >= read[r].newest
    /\ read[r].pc = "none" => read[r].newest = 0
    /\ read[r].pc # "missing"

Inv ==
  /\ TypeOK
  /\ FilesInDirs
  /\ CardDescribesArtifact
  /\ WritingOK
  /\ ArchivingOK
  /\ SettledOK
  /\ ReadersOK

(* One step keeps what is published.                                       *)
Kept ==
  /\ \A v \in Readable : v \in Readable' /\ artifact'[v] = artifact[v]
  /\ \A v \in Readable' \ Readable : \A w \in Readable : w < v

(* One step keeps a live version, unless it demotes.                       *)
StillLive == Live # {} => Live' # {}

LEMMA CardsAreReal == NoCard \notin Card
  BY RepositoryAssumption DEF RepositoryAssumption, Card, Stage

LEMMA Constants ==
  /\ NoThread \notin Threads /\ NoObject \notin Threads
  /\ MaxVersion \in Nat
  BY RepositoryAssumption DEF RepositoryAssumption

LEMMA IdleType == Idle \in Job /\ NoRead \in Read /\ Idle.pc = "idle" /\ NoRead.pc = "idle"
  BY DEF Idle, NoRead, Job, Read, Stage

LEMMA InitInv == Init => Inv
  <1> SUFFICES ASSUME Init PROVE Inv
    OBVIOUS
  <1> USE DEF Init
  <1>1. TypeOK
    BY Constants, IdleType DEF TypeOK
  <1>2. Readable = {} /\ Live = {}
    BY DEF Readable, Live
  <1>3. QED BY <1>1, <1>2, IdleType
            DEF Inv, FilesInDirs, CardDescribesArtifact, WritingOK, ArchivingOK, SettledOK,
                ReadersOK

(* A step that leaves the readers alone and publishes for good.            *)
LEMMA ReadersKeep ==
  ASSUME ReadersOK, Kept, read' = read
  PROVE  ReadersOK'
  BY DEF ReadersOK, Kept

(* A step that leaves the disk and the writers alone.                      *)
LEMMA WritersKeep ==
  ASSUME Inv, UNCHANGED <<disk, holder, job, interrupted>>, faults' \in Nat,
         read' \in [Readers -> Read], ReadersOK'
  PROVE  Inv' /\ Kept /\ StillLive
  BY DEF Inv, TypeOK, FilesInDirs, CardDescribesArtifact, WritingOK, ArchivingOK, SettledOK,
         Readable, Live, Kept, StillLive, disk

(* What the lock gives: a thread at work is the only one.                  *)
LEMMA OnlyOne ==
  ASSUME TypeOK, NEW t \in Threads, job[t].pc # "idle"
  PROVE  holder = t /\ \A u \in Threads : u # t => job[u].pc = "idle"
  BY DEF TypeOK

LEMMA SaveInv ==
  ASSUME Inv, NEW t \in Threads, NEW s \in Stage, Save(t, s)
  PROVE  Inv' /\ Kept /\ StillLive
  <1>1. PICK v \in Versions :
          /\ NextVersion(v)
          /\ job' = [job EXCEPT ![t] = [pc |-> "mkdir", ver |-> v, stage |-> s, todo |-> {}]]
    BY DEF Save
  <1>2. /\ holder = NoThread /\ holder' = t
        /\ UNCHANGED <<dirs, artifact, card, read, interrupted, faults>>
    BY DEF Save, disk
  <1>3. Readable' = Readable /\ Live' = Live
    BY <1>2 DEF Readable, Live
  <1>4. \A u \in Threads : job[u].pc = "idle"
    BY <1>2, Constants DEF Inv, TypeOK
  <1>5. [pc |-> "mkdir", ver |-> v, stage |-> s, todo |-> {}] \in Job
    BY DEF Job
  <1>6. TypeOK'
    BY <1>1, <1>2, <1>4, <1>5, Constants DEF Inv, TypeOK
  <1>7. WritingOK'
    <2>1. \A w \in dirs : w < v
      BY <1>1 DEF NextVersion
    <2>2. v \notin dirs /\ card[v] = NoCard
      BY <2>1 DEF Inv, TypeOK, FilesInDirs, Versions
    <2>3. \A w \in dirs : w <= v
      BY <2>1 DEF Inv, TypeOK, Versions
    <2>4. job'[t].pc = "mkdir" /\ job'[t].ver = v
      BY <1>1 DEF Inv, TypeOK
    <2>5. \A u \in Threads : u # t => job'[u].pc = "idle"
      BY <1>1, <1>4 DEF Inv, TypeOK
    <2>6. QED BY <1>2, <2>2, <2>3, <2>4, <2>5 DEF WritingOK
  <1>8. ArchivingOK' /\ SettledOK'
    <2>1. \A u \in Threads : job'[u].pc # "archive"
      BY <1>1, <1>4 DEF Inv, TypeOK
    <2>2. \A u \in Threads : job[u].pc # "archive"
      BY <1>4
    <2>3. ArchivingOK'
      BY <2>1 DEF ArchivingOK
    <2>4. SettledOK'
      BY <1>2, <1>3, <2>2 DEF Inv, SettledOK
    <2>5. QED BY <2>3, <2>4
  <1>9. Kept /\ StillLive
    BY <1>2, <1>3 DEF Kept, StillLive
  <1>10. FilesInDirs' /\ CardDescribesArtifact'
    BY <1>2, <1>3 DEF Inv, FilesInDirs, CardDescribesArtifact
  <1>11. QED BY <1>2, <1>6, <1>7, <1>8, <1>9, <1>10, ReadersKeep DEF Inv

LEMMA MakeDirInv ==
  ASSUME Inv, NEW t \in Threads, MakeDir(t)
  PROVE  Inv' /\ Kept /\ StillLive
  <1> DEFINE v == job[t].ver
  <1>1. /\ job[t].pc = "mkdir" /\ dirs' = dirs \cup {v}
        /\ job' = [job EXCEPT ![t].pc = "artifact"]
        /\ UNCHANGED <<artifact, card, holder, read, interrupted, faults>>
    BY DEF MakeDir
  <1>2. /\ v \in Versions /\ card[v] = NoCard /\ v \notin dirs
        /\ \A w \in dirs : w <= v
    BY <1>1 DEF Inv, WritingOK
  <1>3. Readable' = Readable /\ Live' = Live
    BY <1>1, <1>2 DEF Readable, Live
  <1>4. /\ job' \in [Threads -> Job]
        /\ job'[t] = [job[t] EXCEPT !.pc = "artifact"]
        /\ \A u \in Threads : u # t => job'[u] = job[u]
    BY <1>1 DEF Inv, TypeOK, Job
  <1>5. job'[t].pc = "artifact" /\ job'[t].ver = v
    BY <1>4 DEF Inv, TypeOK, Job
  <1>6. TypeOK'
    BY <1>1, <1>2, <1>4, <1>5 DEF Inv, TypeOK
  <1>7. \A u \in Threads : u # t => job'[u].pc = "idle"
    BY <1>1, <1>4, OnlyOne DEF Inv
  <1>8. WritingOK'
    <2>1. \A w \in dirs' : w <= v
      BY <1>1, <1>2 DEF Versions
    <2>2. QED BY <1>1, <1>2, <1>5, <1>7, <2>1 DEF WritingOK
  <1>9. ArchivingOK' /\ SettledOK'
    <2>1. \A u \in Threads : job[u].pc # "archive" /\ job'[u].pc # "archive"
      BY <1>1, <1>5, <1>7, OnlyOne DEF Inv
    <2>2. QED BY <1>1, <1>3, <2>1 DEF Inv, ArchivingOK, SettledOK
  <1>10. Kept /\ StillLive
    BY <1>1, <1>3 DEF Kept, StillLive
  <1>11. FilesInDirs' /\ CardDescribesArtifact'
    BY <1>1, <1>3 DEF Inv, FilesInDirs, CardDescribesArtifact
  <1>12. QED BY <1>1, <1>6, <1>8, <1>9, <1>10, <1>11, ReadersKeep DEF Inv

LEMMA WriteArtifactInv ==
  ASSUME Inv, NEW t \in Threads, WriteArtifact(t)
  PROVE  Inv' /\ Kept /\ StillLive
  <1> DEFINE v == job[t].ver
  <1>1. /\ job[t].pc = "artifact" /\ artifact' = [artifact EXCEPT ![v] = t]
        /\ job' = [job EXCEPT ![t].pc = "card"]
        /\ UNCHANGED <<dirs, card, holder, read, interrupted, faults>>
    BY DEF WriteArtifact
  <1>2. /\ v \in Versions /\ card[v] = NoCard /\ v \in dirs
        /\ \A w \in dirs : w <= v
    BY <1>1 DEF Inv, WritingOK
  <1>3. Readable' = Readable /\ Live' = Live /\ v \notin Readable /\ Readable \subseteq Versions
    BY <1>1, <1>2 DEF Readable, Live, Inv, TypeOK
  <1>4. /\ job' \in [Threads -> Job]
        /\ job'[t] = [job[t] EXCEPT !.pc = "card"]
        /\ \A u \in Threads : u # t => job'[u] = job[u]
    BY <1>1 DEF Inv, TypeOK, Job
  <1>5. job'[t].pc = "card" /\ job'[t].ver = v
    BY <1>4 DEF Inv, TypeOK, Job
  <1>6. /\ artifact' \in [Versions -> Threads \cup {NoObject}]
        /\ artifact'[v] = t
        /\ \A w \in Versions : w # v => artifact'[w] = artifact[w]
    BY <1>1, <1>2 DEF Inv, TypeOK
  <1>7. TypeOK'
    BY <1>1, <1>4, <1>5, <1>6 DEF Inv, TypeOK
  <1>8. \A u \in Threads : u # t => job'[u].pc = "idle"
    BY <1>1, <1>4, OnlyOne DEF Inv
  <1>9. WritingOK'
    BY <1>1, <1>2, <1>5, <1>6, <1>8 DEF WritingOK
  <1>10. ArchivingOK' /\ SettledOK'
    <2>1. \A u \in Threads : job[u].pc # "archive" /\ job'[u].pc # "archive"
      BY <1>1, <1>5, <1>8, OnlyOne DEF Inv
    <2>2. QED BY <1>1, <1>3, <2>1 DEF Inv, ArchivingOK, SettledOK
  <1>11. Kept /\ StillLive
    BY <1>1, <1>3, <1>6 DEF Kept, StillLive
  <1>12. FilesInDirs' /\ CardDescribesArtifact'
    BY <1>1, <1>2, <1>3, <1>6 DEF Inv, FilesInDirs, CardDescribesArtifact
  <1>13. QED BY <1>1, <1>7, <1>9, <1>10, <1>11, <1>12, ReadersKeep DEF Inv

(* After the lock is released nobody is writing.                           *)
LEMMA ReleaseType ==
  ASSUME TypeOK, NEW t \in Threads, job[t].pc # "idle", Release(t)
  PROVE  /\ job' \in [Threads -> Job]
         /\ holder' = NoThread
         /\ \A u \in Threads : job'[u].pc = "idle"
  BY IdleType, OnlyOne DEF Release, TypeOK

LEMMA NobodyWriting ==
  ASSUME \A u \in Threads : job'[u].pc = "idle"
  PROVE  WritingOK' /\ ArchivingOK'
  BY DEF WritingOK, ArchivingOK

(* Publishing a version: its card describes its artifact, and it is the    *)
(* newest.                                                                 *)
LEMMA WriteCardInv ==
  ASSUME Inv, NEW t \in Threads, WriteCard(t)
  PROVE  Inv' /\ Kept /\ StillLive
  <1> DEFINE v == job[t].ver
             c == [of |-> t, stage |-> job[t].stage]
  <1>1. /\ job[t].pc = "card" /\ card' = [card EXCEPT ![v] = c]
        /\ UNCHANGED <<dirs, artifact, read, interrupted, faults>>
    BY DEF WriteCard
  <1>2. /\ v \in Versions /\ card[v] = NoCard /\ v \in dirs /\ artifact[v] = t
        /\ \A w \in dirs : w <= v
    BY <1>1 DEF Inv, WritingOK
  <1>3. c \in Card /\ c # NoCard /\ job[t].stage \in Stage
    BY CardsAreReal DEF Inv, TypeOK, Job, Card
  <1>4. /\ card' \in [Versions -> Card \cup {NoCard}]
        /\ card'[v] = c
        /\ \A w \in Versions : w # v => card'[w] = card[w]
    BY <1>1, <1>2, <1>3 DEF Inv, TypeOK
  <1>5. /\ Readable' = Readable \cup {v} /\ v \notin Readable
        /\ Live' = IF job[t].stage = "production" THEN Live \cup {v} ELSE Live
    <2>1. dirs \subseteq Versions
      BY DEF Inv, TypeOK
    <2>2. Readable' = Readable \cup {v} /\ v \notin Readable
      BY <1>1, <1>2, <1>3, <1>4, <2>1 DEF Readable
    <2>3. Live' = IF job[t].stage = "production" THEN Live \cup {v} ELSE Live
      BY <1>2, <1>4, <2>1, <2>2 DEF Live, Readable
    <2>4. QED BY <2>2, <2>3
  <1>6. Kept /\ StillLive
    <2>1. \A w \in Readable : w < v
      BY <1>2, <1>5 DEF Readable, Inv, TypeOK, Versions
    <2>2. Kept
      BY <1>1, <1>5, <2>1 DEF Kept
    <2>3. StillLive
      BY <1>5 DEF StillLive
    <2>4. QED BY <2>2, <2>3
  <1>7. FilesInDirs' /\ CardDescribesArtifact'
    <2>1. FilesInDirs'
      BY <1>1, <1>2, <1>4 DEF Inv, FilesInDirs
    <2>2. CardDescribesArtifact'
      BY <1>1, <1>2, <1>4, <1>5 DEF Inv, CardDescribesArtifact, Readable, TypeOK
    <2>3. QED BY <2>1, <2>2
  <1>8. \A u \in Threads : job[u].pc # "archive"
    BY <1>1, OnlyOne DEF Inv
  <1>9. CASE job[t].stage = "production"
    <2>1. job' = [job EXCEPT ![t].pc = "archive", ![t].todo = dirs \ {v}] /\ holder' = holder
      BY <1>1, <1>9 DEF WriteCard, Incumbents
    <2>2. /\ job' \in [Threads -> Job]
          /\ job'[t].pc = "archive" /\ job'[t].ver = v /\ job'[t].todo = dirs \ {v}
          /\ \A u \in Threads : u # t => job'[u] = job[u]
      BY <2>1 DEF Inv, TypeOK, Job
    <2>3. \A u \in Threads : u # t => job'[u].pc = "idle"
      BY <1>1, <2>2, OnlyOne DEF Inv
    <2>4. TypeOK'
      BY <1>1, <1>4, <2>1, <2>2 DEF Inv, TypeOK
    <2>5. WritingOK'
      BY <2>2, <2>3 DEF WritingOK
    <2>6. ArchivingOK'
      <3>1. Live \subseteq dirs
        BY DEF Live, Readable
      <3>2. Live' = Live \cup {v}
        BY <1>5, <1>9
      <3>3. QED BY <2>2, <2>3, <3>1, <3>2 DEF ArchivingOK
    <2>7. SettledOK'
      BY <2>2 DEF SettledOK
    <2>8. QED BY <1>1, <1>6, <1>7, <2>4, <2>5, <2>6, <2>7, ReadersKeep DEF Inv
  <1>10. CASE job[t].stage # "production"
    <2>1. Release(t)
      BY <1>1, <1>10 DEF WriteCard
    <2>2. /\ job' \in [Threads -> Job] /\ holder' = NoThread
          /\ \A u \in Threads : job'[u].pc = "idle"
      BY <1>1, <2>1, ReleaseType DEF Inv
    <2>3. TypeOK'
      BY <1>1, <1>4, <2>2, Constants DEF Inv, TypeOK
    <2>4. SettledOK'
      BY <1>1, <1>5, <1>8, <1>10 DEF Inv, SettledOK
    <2>5. QED BY <1>1, <1>6, <1>7, <2>2, <2>3, <2>4, NobodyWriting, ReadersKeep DEF Inv
  <1>11. QED BY <1>9, <1>10

(* A failed save removes at most a version nobody has seen.                *)
LEMMA SaveFailsInv ==
  ASSUME Inv, NEW t \in Threads, SaveFails(t)
  PROVE  Inv' /\ Kept /\ StillLive
  <1> DEFINE v == job[t].ver
  <1>1. /\ job[t].pc \in {"mkdir", "artifact", "card"} /\ Release(t)
        /\ faults' = faults + 1
        /\ UNCHANGED <<card, read, interrupted>>
        /\ \/ UNCHANGED <<dirs, artifact>>
           \/ artifact' = [artifact EXCEPT ![v] = NoObject] /\ dirs' \in {dirs, dirs \ {v}}
    BY DEF SaveFails, Fault
  <1>2. v \in Versions /\ card[v] = NoCard
    BY <1>1 DEF Inv, WritingOK
  <1>3. /\ artifact' \in [Versions -> Threads \cup {NoObject}]
        /\ \A w \in Versions : w # v => artifact'[w] = artifact[w]
        /\ artifact'[v] \in {artifact[v], NoObject}
        /\ v \notin dirs' => v \notin dirs \/ artifact'[v] = NoObject
        /\ dirs' \in {dirs, dirs \ {v}}
    BY <1>1, <1>2 DEF Inv, TypeOK
  <1>4. /\ job' \in [Threads -> Job] /\ holder' = NoThread
        /\ \A u \in Threads : job'[u].pc = "idle"
    BY <1>1, ReleaseType DEF Inv
  <1>5. Readable' = Readable /\ Live' = Live /\ v \notin Readable /\ Readable \subseteq Versions
    BY <1>1, <1>2, <1>3 DEF Readable, Live, Inv, TypeOK
  <1>6. TypeOK'
    BY <1>1, <1>3, <1>4, Constants DEF Inv, TypeOK
  <1>7. FilesInDirs' /\ CardDescribesArtifact'
    <2>1. FilesInDirs'
      BY <1>1, <1>2, <1>3 DEF Inv, FilesInDirs
    <2>2. CardDescribesArtifact'
      BY <1>1, <1>3, <1>5 DEF Inv, CardDescribesArtifact
    <2>3. QED BY <2>1, <2>2
  <1>8. Kept /\ StillLive
    BY <1>3, <1>5 DEF Kept, StillLive
  <1>9. SettledOK'
    <2>1. \A u \in Threads : job[u].pc # "archive"
      BY <1>1, OnlyOne DEF Inv
    <2>2. QED BY <1>1, <1>5, <2>1 DEF Inv, SettledOK
  <1>10. QED BY <1>1, <1>4, <1>6, <1>7, <1>8, <1>9, NobodyWriting, ReadersKeep DEF Inv

(* Changing the stage of a readable card publishes and loses nothing.      *)
LEMMA Restage ==
  ASSUME TypeOK, CardDescribesArtifact, FilesInDirs, NEW v \in Readable, NEW s \in Stage,
         card' = [card EXCEPT ![v].stage = s], UNCHANGED <<dirs, artifact>>
  PROVE  /\ card' \in [Versions -> Card \cup {NoCard}]
         /\ Readable' = Readable
         /\ Live' = IF s = "production" THEN Live \cup {v} ELSE Live \ {v}
         /\ FilesInDirs' /\ CardDescribesArtifact' /\ Kept
  <1>1. /\ v \in Versions /\ v \in dirs /\ card[v] # NoCard /\ card[v] \in Card
        /\ dirs \subseteq Versions
    BY DEF Readable, TypeOK
  <1>2. /\ card'[v] = [card[v] EXCEPT !.stage = s]
        /\ \A w \in Versions : w # v => card'[w] = card[w]
        /\ card' = [card EXCEPT ![v] = [card[v] EXCEPT !.stage = s]]
    BY <1>1 DEF TypeOK
  <1>3. card'[v] \in Card /\ card'[v].stage = s /\ card'[v].of = card[v].of /\ card'[v] # NoCard
    BY <1>1, <1>2, CardsAreReal DEF Card
  <1>4. card' \in [Versions -> Card \cup {NoCard}]
    BY <1>1, <1>2, <1>3 DEF TypeOK
  <1>5. Readable' = Readable
    BY <1>1, <1>2, <1>3 DEF Readable
  <1>6. Live' = IF s = "production" THEN Live \cup {v} ELSE Live \ {v}
    BY <1>1, <1>2, <1>3, <1>5 DEF Live, Readable
  <1>7. FilesInDirs'
    BY <1>1, <1>2 DEF FilesInDirs
  <1>8. CardDescribesArtifact'
    BY <1>1, <1>2, <1>3, <1>5 DEF CardDescribesArtifact, Readable
  <1>9. Kept
    BY <1>5 DEF Kept
  <1>10. QED BY <1>4, <1>5, <1>6, <1>7, <1>8, <1>9

LEMMA ArchiveOneInv ==
  ASSUME Inv, NEW t \in Threads, ArchiveOne(t)
  PROVE  Inv' /\ Kept /\ StillLive
  <1>1. PICK v \in Versions :
          /\ Lowest(v, job[t].todo)
          /\ card' = IF v \in Live THEN [card EXCEPT ![v].stage = "archived"] ELSE card
          /\ job' = [job EXCEPT ![t].todo = job[t].todo \ {v}]
    BY DEF ArchiveOne
  <1>2. /\ job[t].pc = "archive"
        /\ UNCHANGED <<dirs, artifact, holder, read, interrupted, faults>>
    BY DEF ArchiveOne
  <1>3. /\ v \in job[t].todo /\ job[t].todo \subseteq Versions
        /\ job[t].ver \in Live /\ job[t].ver \notin job[t].todo
        /\ Live \subseteq job[t].todo \cup {job[t].ver}
    BY <1>1, <1>2 DEF Lowest, Inv, ArchivingOK, TypeOK, Job
  <1>4. /\ job' \in [Threads -> Job]
        /\ job'[t].pc = "archive" /\ job'[t].ver = job[t].ver
        /\ job'[t].todo = job[t].todo \ {v}
        /\ \A u \in Threads : u # t => job'[u] = job[u]
    BY <1>1, <1>2, <1>3 DEF Inv, TypeOK, Job
  <1>5. \A u \in Threads : u # t => job'[u].pc = "idle"
    BY <1>2, <1>4, OnlyOne DEF Inv
  <1>6. /\ card' \in [Versions -> Card \cup {NoCard}]
        /\ Readable' = Readable /\ Live' = Live \ {v}
        /\ FilesInDirs' /\ CardDescribesArtifact' /\ Kept
    <2>1. CASE v \in Live
      <3>1. v \in Readable /\ "archived" \in Stage
        BY <2>1 DEF Live, Stage
      <3>2. card' = [card EXCEPT ![v].stage = "archived"]
        BY <1>1, <2>1
      <3>3. QED BY <1>2, <3>1, <3>2, Restage DEF Inv
    <2>2. CASE v \notin Live
      BY <1>1, <1>2, <2>2
      DEF Inv, TypeOK, Readable, Live, FilesInDirs, CardDescribesArtifact, Kept
    <2>3. QED BY <2>1, <2>2
  <1>7. TypeOK'
    BY <1>2, <1>4, <1>6 DEF Inv, TypeOK
  <1>8. WritingOK'
    BY <1>4, <1>5 DEF WritingOK
  <1>9. ArchivingOK'
    BY <1>3, <1>4, <1>5, <1>6 DEF ArchivingOK
  <1>10. SettledOK'
    BY <1>4 DEF SettledOK
  <1>11. StillLive
    BY <1>3, <1>6 DEF StillLive
  <1>12. QED BY <1>2, <1>6, <1>7, <1>8, <1>9, <1>10, <1>11, ReadersKeep DEF Inv

LEMMA ArchiveDoneInv ==
  ASSUME Inv, NEW t \in Threads, ArchiveDone(t)
  PROVE  Inv' /\ Kept /\ StillLive
  <1>1. /\ job[t].pc = "archive" /\ job[t].todo = {} /\ Release(t)
        /\ ~interrupted' /\ interrupted' \in BOOLEAN
        /\ UNCHANGED <<dirs, artifact, card, read, faults>>
    BY DEF ArchiveDone, disk
  <1>2. /\ job' \in [Threads -> Job] /\ holder' = NoThread
        /\ \A u \in Threads : job'[u].pc = "idle"
    BY <1>1, ReleaseType DEF Inv
  <1>3. Readable' = Readable /\ Live' = Live
    BY <1>1 DEF Readable, Live
  <1>4. Live \subseteq {job[t].ver}
    BY <1>1 DEF Inv, ArchivingOK
  <1>5. SettledOK'
    BY <1>3, <1>4 DEF SettledOK
  <1>6. TypeOK'
    BY <1>1, <1>2, Constants DEF Inv, TypeOK
  <1>7. Kept /\ StillLive /\ FilesInDirs' /\ CardDescribesArtifact'
    BY <1>1, <1>3 DEF Kept, StillLive, Inv, FilesInDirs, CardDescribesArtifact
  <1>8. QED BY <1>1, <1>2, <1>5, <1>6, <1>7, NobodyWriting, ReadersKeep DEF Inv

LEMMA ArchiveFailsInv ==
  ASSUME Inv, NEW t \in Threads, ArchiveFails(t)
  PROVE  Inv' /\ Kept /\ StillLive
  <1>1. /\ job[t].pc = "archive" /\ Release(t)
        /\ interrupted' = TRUE /\ faults' = faults + 1
        /\ UNCHANGED <<dirs, artifact, card, read>>
    BY DEF ArchiveFails, Fault, disk
  <1>2. /\ job' \in [Threads -> Job] /\ holder' = NoThread
        /\ \A u \in Threads : job'[u].pc = "idle"
    BY <1>1, ReleaseType DEF Inv
  <1>3. Readable' = Readable /\ Live' = Live
    BY <1>1 DEF Readable, Live
  <1>4. TypeOK' /\ SettledOK'
    BY <1>1, <1>2, Constants DEF Inv, TypeOK, SettledOK
  <1>5. Kept /\ StillLive /\ FilesInDirs' /\ CardDescribesArtifact'
    BY <1>1, <1>3 DEF Kept, StillLive, Inv, FilesInDirs, CardDescribesArtifact
  <1>6. QED BY <1>1, <1>2, <1>4, <1>5, NobodyWriting, ReadersKeep DEF Inv

(* A promotion publishes nothing, and only a demotion leaves none live.    *)
LEMMA PromoteInv ==
  ASSUME Inv, NEW t \in Threads, NEW v \in Versions, NEW s \in Stage, Promote(t, v, s)
  PROVE  Inv' /\ Kept /\ (s = "production" => StillLive)
  <1>1. /\ holder = NoThread /\ v \in Readable
        /\ card' = [card EXCEPT ![v].stage = s]
        /\ UNCHANGED <<dirs, artifact, read, interrupted, faults>>
    BY DEF Promote
  <1>2. /\ card' \in [Versions -> Card \cup {NoCard}]
        /\ Readable' = Readable
        /\ Live' = IF s = "production" THEN Live \cup {v} ELSE Live \ {v}
        /\ FilesInDirs' /\ CardDescribesArtifact' /\ Kept
    BY <1>1, Restage DEF Inv
  <1>3. \A u \in Threads : job[u].pc = "idle"
    BY <1>1, Constants DEF Inv, TypeOK
  <1>4. CASE s = "production"
    <2> DEFINE j == [pc |-> "archive", ver |-> v, stage |-> s, todo |-> dirs \ {v}]
    <2>1. holder' = t /\ job' = [job EXCEPT ![t] = j]
      BY <1>4 DEF Promote, Incumbents
    <2>2. j \in Job
      BY DEF Job, Inv, TypeOK
    <2>3. job' \in [Threads -> Job] /\ job'[t] = j /\ \A u \in Threads : u # t => job'[u] = job[u]
      BY <2>1, <2>2 DEF Inv, TypeOK
    <2>4. TypeOK'
      BY <1>1, <1>2, <1>3, <2>1, <2>3, Constants DEF Inv, TypeOK
    <2>5. WritingOK' /\ SettledOK'
      BY <1>3, <2>3 DEF WritingOK, SettledOK
    <2>6. ArchivingOK'
      <3>1. Live \subseteq dirs
        BY DEF Live, Readable
      <3>2. QED BY <1>2, <1>3, <1>4, <2>3, <3>1 DEF ArchivingOK
    <2>7. StillLive
      BY <1>2, <1>4 DEF StillLive
    <2>8. QED BY <1>1, <1>2, <2>4, <2>5, <2>6, <2>7, ReadersKeep DEF Inv
  <1>5. CASE s # "production"
    <2>1. UNCHANGED <<holder, job>>
      BY <1>5 DEF Promote
    <2>2. TypeOK'
      BY <1>1, <1>2, <2>1 DEF Inv, TypeOK
    <2>3. \A u \in Threads : job'[u].pc = "idle"
      BY <1>3, <2>1
    <2>4. SettledOK'
      BY <1>1, <1>2, <1>3, <1>5 DEF Inv, SettledOK
    <2>5. QED BY <1>1, <1>2, <1>5, <2>2, <2>3, <2>4, NobodyWriting, ReadersKeep DEF Inv
  <1>6. QED BY <1>4, <1>5

LEMMA CrashInv ==
  ASSUME Inv, Crash
  PROVE  Inv' /\ Kept /\ StillLive
  <1>1. /\ holder' = NoThread /\ job' = [t \in Threads |-> Idle]
        /\ read' = [r \in Readers |-> NoRead]
        /\ interrupted' = (interrupted \/ \E t \in Threads : job[t].pc = "archive")
        /\ faults' = faults + 1
        /\ UNCHANGED <<dirs, artifact, card>>
    BY DEF Crash, Fault, disk
  <1>2. /\ job' \in [Threads -> Job] /\ \A u \in Threads : job'[u].pc = "idle"
        /\ read' \in [Readers -> Read] /\ \A r \in Readers : read'[r].pc = "idle"
    BY <1>1, IdleType
  <1>3. Readable' = Readable /\ Live' = Live
    BY <1>1 DEF Readable, Live
  <1>4. TypeOK'
    BY <1>1, <1>2, Constants DEF Inv, TypeOK
  <1>5. SettledOK'
    BY <1>1, <1>3 DEF Inv, SettledOK
  <1>6. ReadersOK'
    BY <1>2 DEF ReadersOK
  <1>7. Kept /\ StillLive /\ FilesInDirs' /\ CardDescribesArtifact'
    BY <1>1, <1>3 DEF Kept, StillLive, Inv, FilesInDirs, CardDescribesArtifact
  <1>8. QED BY <1>2, <1>4, <1>5, <1>6, <1>7, NobodyWriting DEF Inv

(* A reader's step: what it found readable stays so.                       *)
LEMMA ReaderInv ==
  ASSUME Inv, NEW r \in Readers,
         List(r) \/ ReadCard(r) \/ NoneReadable(r) \/ LoadArtifact(r) \/ Answer(r)
  PROVE  Inv' /\ Kept /\ StillLive
  <1>1. UNCHANGED <<disk, holder, job, interrupted, faults>>
    BY DEF List, ReadCard, NoneReadable, LoadArtifact, Answer
  <1>2. /\ Readable' = Readable /\ Readable \subseteq dirs /\ dirs \subseteq Versions
        /\ read \in [Readers -> Read] /\ faults' \in Nat
    BY <1>1 DEF Readable, disk, Inv, TypeOK
  <1>3. ASSUME NEW x \in Read, read' = [read EXCEPT ![r] = x],
               /\ x.pc = "scan" /\ x.newest # 0 => x.newest \in x.left /\ x.newest \in Readable
               /\ x.pc = "load" => x.got \in Readable
               /\ x.pc \in {"load", "loaded"} => x.got >= x.newest
               /\ x.pc = "none" => x.newest = 0
               /\ x.pc # "missing"
        PROVE  Inv' /\ Kept /\ StillLive
    <2>1. read' \in [Readers -> Read]
      BY <1>2, <1>3
    <2>2. read'[r] = x /\ \A q \in Readers : q # r => read'[q] = read[q]
      BY <1>2, <1>3
    <2>3. ReadersOK'
      BY <1>2, <1>3, <2>2 DEF Inv, ReadersOK
    <2>4. QED BY <1>1, <1>2, <2>1, <2>3, WritersKeep
  <1>4. CASE List(r)
    <2>1. PICK newest \in Versions \cup {0} :
            /\ Highest(newest, Readable) \/ (newest = 0 /\ Readable = {})
            /\ read' = [read EXCEPT ![r] = [pc |-> "scan", left |-> dirs, got |-> 0,
                                            newest |-> newest]]
      BY <1>4 DEF List
    <2>2. [pc |-> "scan", left |-> dirs, got |-> 0, newest |-> newest] \in Read
      BY <1>2 DEF Read
    <2>3. newest # 0 => newest \in dirs /\ newest \in Readable
      BY <1>2, <2>1 DEF Highest
    <2>4. QED BY <1>3, <2>1, <2>2, <2>3
  <1>5. CASE ReadCard(r)
    <2>1. PICK v \in Versions :
            /\ Highest(v, read[r].left)
            /\ read' = IF v \in Readable
                         THEN [read EXCEPT ![r].pc = "load", ![r].got = v]
                         ELSE [read EXCEPT ![r].left = read[r].left \ {v}]
      BY <1>5 DEF ReadCard
    <2>2. /\ read[r].pc = "scan" /\ read[r] \in Read
          /\ read[r].newest # 0 => read[r].newest \in read[r].left /\ read[r].newest \in Readable
      BY <1>2, <1>5 DEF ReadCard, Inv, ReadersOK
    <2>3. read[r].newest <= v
      BY <2>1, <2>2 DEF Highest, Read, Versions
    <2>4. CASE v \in Readable
      <3> DEFINE x == [read[r] EXCEPT !.pc = "load", !.got = v]
      <3>1. x \in Read /\ x.pc = "load" /\ x.got = v /\ x.newest = read[r].newest
        BY <2>2 DEF Read
      <3>2. read' = [read EXCEPT ![r] = x]
        BY <1>2, <2>1, <2>4
      <3>3. v >= read[r].newest
        BY <2>2, <2>3 DEF Read, Versions
      <3> HIDE DEF x
      <3>4. QED BY <1>3, <2>4, <3>1, <3>2, <3>3
    <2>5. CASE v \notin Readable
      <3> DEFINE x == [read[r] EXCEPT !.left = read[r].left \ {v}]
      <3>1. /\ x \in Read /\ x.pc = "scan" /\ x.left = read[r].left \ {v}
            /\ x.newest = read[r].newest
        BY <2>2 DEF Read
      <3>2. read' = [read EXCEPT ![r] = x]
        BY <1>2, <2>1, <2>5
      <3> HIDE DEF x
      <3>3. QED BY <1>3, <2>2, <2>5, <3>1, <3>2
    <2>6. QED BY <2>4, <2>5
  <1>6. CASE NoneReadable(r)
    <2> DEFINE x == [read[r] EXCEPT !.pc = "none"]
    <2>1. read[r].newest = 0
      BY <1>6 DEF NoneReadable, Inv, ReadersOK
    <2>2. x \in Read /\ x.pc = "none" /\ x.newest = read[r].newest
      BY <1>2 DEF Read
    <2>3. read' = [read EXCEPT ![r] = x]
      BY <1>2, <1>6 DEF NoneReadable
    <2> HIDE DEF x
    <2>4. QED BY <1>3, <2>1, <2>2, <2>3
  <1>7. CASE LoadArtifact(r)
    <2> DEFINE x == [read[r] EXCEPT !.pc = "loaded"]
    <2>1. read[r].pc = "load" /\ read[r].got \in Readable /\ read[r].got >= read[r].newest
      BY <1>7 DEF LoadArtifact, Inv, ReadersOK
    <2>2. artifact[read[r].got] # NoObject
      <3>1. card[read[r].got] \in Card
        BY <2>1 DEF Readable, Inv, TypeOK
      <3>2. QED BY <2>1, <3>1, Constants DEF Inv, CardDescribesArtifact, Card
    <2>3. /\ x \in Read /\ x.pc = "loaded" /\ x.got = read[r].got
          /\ x.newest = read[r].newest
      BY <1>2 DEF Read
    <2>4. read' = [read EXCEPT ![r] = x]
      BY <1>2, <1>7, <2>2 DEF LoadArtifact
    <2> HIDE DEF x
    <2>5. QED BY <1>3, <2>1, <2>3, <2>4
  <1>8. CASE Answer(r)
    <2>1. read' = [read EXCEPT ![r] = NoRead]
      BY <1>8 DEF Answer
    <2>2. QED BY <1>3, <2>1, IdleType
  <1>9. QED BY <1>4, <1>5, <1>6, <1>7, <1>8

LEMMA NextInv ==
  ASSUME Inv, [Next]_vars
  PROVE  /\ Inv' /\ Kept
         /\ StillLive \/ \E t \in Threads, v \in Versions, s \in Stage \ {"production"} :
                           Promote(t, v, s)
  <1>1. CASE \E t \in Threads, s \in Stage : Save(t, s)
    BY <1>1, SaveInv
  <1>2. CASE \E t \in Threads : MakeDir(t) \/ WriteArtifact(t) \/ WriteCard(t) \/ SaveFails(t)
    BY <1>2, MakeDirInv, WriteArtifactInv, WriteCardInv, SaveFailsInv
  <1>3. CASE \E t \in Threads : ArchiveOne(t) \/ ArchiveDone(t) \/ ArchiveFails(t)
    BY <1>3, ArchiveOneInv, ArchiveDoneInv, ArchiveFailsInv
  <1>4. CASE \E t \in Threads, v \in Versions, s \in Stage : Promote(t, v, s)
    BY <1>4, PromoteInv
  <1>5. CASE Crash
    BY <1>5, CrashInv
  <1>6. CASE \E r \in Readers :
               List(r) \/ ReadCard(r) \/ NoneReadable(r) \/ LoadArtifact(r) \/ Answer(r)
    BY <1>6, ReaderInv
  <1>7. CASE UNCHANGED vars
    <2>1. UNCHANGED <<disk, holder, job, interrupted>> /\ read' = read /\ faults' = faults
      BY <1>7 DEF vars
    <2>2. read' \in [Readers -> Read] /\ faults' \in Nat
      BY <2>1 DEF Inv, TypeOK
    <2>3. ReadersOK'
      BY <2>1 DEF Inv, ReadersOK, disk, Readable
    <2>4. QED BY <2>1, <2>2, <2>3, WritersKeep
  <1>8. QED BY <1>1, <1>2, <1>3, <1>4, <1>5, <1>6, <1>7 DEF Next

THEOREM SpecInv == Spec => []Inv
  <1>1. Inv /\ [Next]_vars => Inv'
    BY NextInv
  <1>2. QED BY <1>1, InitInv, PTL DEF Spec

-----------------------------------------------------------------------------
(* Only the holder of the lock is in the middle of a write.                *)
THEOREM RepositoryTypes == Spec => []TypeOK
  <1>1. Inv => TypeOK
    BY DEF Inv
  <1>2. QED BY SpecInv, <1>1, PTL

(* No interleaving, failed write or crash shows a card beside another      *)
(* artifact than the one it was written for.                               *)
THEOREM CardsDescribe == Spec => []CardDescribesArtifact
  <1>1. Inv => CardDescribesArtifact
    BY DEF Inv
  <1>2. QED BY SpecInv, <1>1, PTL

(* At most one version is live once the writers are done, unless the last  *)
(* archiving was cut short.                                                *)
THEOREM OneLiveHolds == Spec => []OneLiveUnlessInterrupted
  <1>1. Inv => OneLiveUnlessInterrupted
    <2> SUFFICES ASSUME Inv, holder = NoThread, ~interrupted
                 PROVE  \A v \in Live : \A w \in Live : v = w
      BY DEF OneLiveUnlessInterrupted
    <2>1. \A t \in Threads : job[t].pc # "archive"
      BY Constants DEF Inv, TypeOK
    <2>2. QED BY <2>1 DEF Inv, SettledOK
  <1>2. QED BY SpecInv, <1>1, PTL

(* The unlocked readers get fresh versions with their artifacts.           *)
THEOREM LatestHolds == Spec => []LatestIsFresh
  <1>1. Inv => LatestIsFresh
    BY DEF Inv, ReadersOK, LatestIsFresh
  <1>2. QED BY SpecInv, <1>1, PTL

(* What is published stays, with its artifact, and versions only grow.     *)
THEOREM PublishedStays == Spec => NothingPublishedIsLost
  <1>1. Inv /\ [Next]_vars =>
          [/\ \A v \in Readable : v \in Readable' /\ artifact'[v] = artifact[v]
           /\ \A v \in Readable' \ Readable : \A w \in Readable : w < v]_vars
    BY NextInv DEF Kept
  <1>2. QED BY SpecInv, <1>1, PTL DEF Spec, NothingPublishedIsLost

(* A promotion never leaves the model without a live version.              *)
THEOREM StaysServed == Spec => PromotionKeepsOneLive
  <1>1. Inv /\ [Next]_vars =>
          [Live # {} /\ Live' = {} =>
             \E t \in Threads, v \in Versions, s \in Stage \ {"production"} :
               Promote(t, v, s)]_vars
    BY NextInv DEF StillLive
  <1>2. QED BY SpecInv, <1>1, PTL DEF Spec, PromotionKeepsOneLive
=============================================================================
