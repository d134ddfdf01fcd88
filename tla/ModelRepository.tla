--------------------------- MODULE ModelRepository ---------------------------
(***************************************************************************)
(* ModelRepository (models/repository.py) for one model name: version      *)
(* directories holding a pickled artifact and its card, written by request *)
(* threads under the class-wide _LOCK and read without it.  A step is one  *)
(* file-system effect, so that a crash, a failing write or a reader may    *)
(* come between any two of them.                                           *)
(***************************************************************************)
EXTENDS Integers

CONSTANTS
  Threads,      \* request threads that save and promote
  Readers,      \* request threads that load the latest version
  MaxVersion,   \* bound: the versions a run may create
  MaxFaults,    \* bound: the crashes and failing writes of a run
  NoThread, NoObject, NoCard

ASSUME RepositoryAssumption ==
  /\ MaxVersion \in Nat
  /\ MaxFaults \in Nat
  /\ NoThread \notin Threads
  /\ NoObject \notin Threads
  /\ \A t \in Threads, s \in {"draft", "production", "archived"} :
       NoCard # [of |-> t, stage |-> s]

Versions == 1..MaxVersion

(* ModelStage, as far as the repository tells stages apart.                *)
Stage == {"draft", "production", "archived"}

(* A card names the object it was written for; a thread's object is named  *)
(* by the thread.                                                          *)
Card == [of : Threads, stage : Stage]

Job == [pc : {"idle", "mkdir", "artifact", "card", "archive"},
        ver : Versions \cup {0}, stage : Stage, todo : SUBSET Versions]

Idle == [pc |-> "idle", ver |-> 0, stage |-> "draft", todo |-> {}]

Read == [pc : {"idle", "scan", "load", "loaded", "missing", "none"},
         left : SUBSET Versions, got : Versions \cup {0}, newest : Versions \cup {0}]

NoRead == [pc |-> "idle", left |-> {}, got |-> 0, newest |-> 0]

VARIABLES
  dirs,         \* version directories on disk
  artifact,     \* model.pkl of each version
  card,         \* card.json of each version
  holder,       \* the thread holding _LOCK
  job,          \* what each thread is doing under it
  read,         \* what each reader is doing
  interrupted,  \* history: the last archiving of incumbents did not finish
  faults        \* crashes and failing writes so far

disk == <<dirs, artifact, card>>
vars == <<disk, holder, job, read, interrupted, faults>>

Readable == {v \in dirs : card[v] # NoCard}
Live     == {v \in Readable : card[v].stage = "production"}

Highest(v, S) == v \in S /\ \A w \in S : w <= v
Lowest(v, S)  == v \in S /\ \A w \in S : v <= w

Init ==
  /\ dirs = {}
  /\ artifact = [v \in Versions |-> NoObject]
  /\ card = [v \in Versions |-> NoCard]
  /\ holder = NoThread
  /\ job = [t \in Threads |-> Idle]
  /\ read = [r \in Readers |-> NoRead]
  /\ interrupted = FALSE
  /\ faults = 0

(* Leaving the with-block, by return or by exception.                      *)
Release(t) ==
  /\ holder' = NoThread
  /\ job' = [job EXCEPT ![t] = Idle]

Fault == faults < MaxFaults /\ faults' = faults + 1

-----------------------------------------------------------------------------
(* save(): the next version is one past the highest directory, readable or *)
(* not.                                                                    *)
ReusedVersion(v) == Highest(v, dirs) \/ (dirs = {} /\ v = 1)    \* mutant: no + 1

NextVersion(v) == (\A w \in dirs : w < v) /\ (v = 1 \/ v - 1 \in dirs)

SaveUnlocked(t, s) ==                         \* mutant: save() without _LOCK
  /\ job[t].pc = "idle"
  /\ holder' = t
  /\ \E v \in Versions :
       /\ NextVersion(v)
       /\ job' = [job EXCEPT ![t] = [pc |-> "mkdir", ver |-> v, stage |-> s, todo |-> {}]]
  /\ UNCHANGED <<disk, read, interrupted, faults>>

Save(t, s) ==
  /\ holder = NoThread
  /\ holder' = t
  /\ \E v \in Versions :
       /\ NextVersion(v)
       /\ job' = [job EXCEPT ![t] = [pc |-> "mkdir", ver |-> v, stage |-> s, todo |-> {}]]
  /\ UNCHANGED <<disk, read, interrupted, faults>>

MakeDir(t) ==
  /\ job[t].pc = "mkdir"
  /\ dirs' = dirs \cup {job[t].ver}
  /\ job' = [job EXCEPT ![t].pc = "artifact"]
  /\ UNCHANGED <<artifact, card, holder, read, interrupted, faults>>

WriteArtifact(t) ==
  /\ job[t].pc = "artifact"
  /\ artifact' = [artifact EXCEPT ![job[t].ver] = t]
  /\ job' = [job EXCEPT ![t].pc = "card"]
  /\ UNCHANGED <<dirs, card, holder, read, interrupted, faults>>

(* The versions _archive_incumbents() will look at.                        *)
EveryVersion(v) == dirs                       \* mutant: forgets keep_version

Incumbents(v) == dirs \ {v}

(* The card publishes the version; a production save goes on to archive.   *)
WriteCard(t) ==
  /\ job[t].pc = "card"
  /\ card' = [card EXCEPT ![job[t].ver] = [of |-> t, stage |-> job[t].stage]]
  /\ IF job[t].stage = "production"
       THEN /\ job' = [job EXCEPT ![t].pc = "archive", ![t].todo = Incumbents(job[t].ver)]
            /\ UNCHANGED holder
       ELSE Release(t)
  /\ UNCHANGED <<dirs, artifact, read, interrupted, faults>>

(* mkdir or a write raises before its effect; after a write, rmtree with   *)
(* ignore_errors removes the directory, only its file, or nothing.         *)
SaveFails(t) ==
  /\ Fault
  /\ job[t].pc \in {"mkdir", "artifact", "card"}
  /\ LET v == job[t].ver
     IN  \/ UNCHANGED <<dirs, artifact>>
         \/ /\ job[t].pc # "mkdir"
            /\ artifact' = [artifact EXCEPT ![v] = NoObject]
            /\ dirs' \in {dirs, dirs \ {v}}
  /\ Release(t)
  /\ UNCHANGED <<card, read, interrupted>>

(* _archive_incumbents(): in ascending order, skipping unreadable cards.   *)
ArchiveOne(t) ==
  /\ job[t].pc = "archive"
  /\ \E v \in Versions :
       /\ Lowest(v, job[t].todo)
       /\ card' = IF v \in Live THEN [card EXCEPT ![v].stage = "archived"] ELSE card
       /\ job' = [job EXCEPT ![t].todo = job[t].todo \ {v}]
  /\ UNCHANGED <<dirs, artifact, holder, read, interrupted, faults>>

ArchiveDone(t) ==
  /\ job[t].pc = "archive"
  /\ job[t].todo = {}
  /\ Release(t)
  /\ interrupted' = FALSE
  /\ UNCHANGED <<disk, read, faults>>

(* Writing an incumbent's card raises: the caller gets the exception, the  *)
(* new version stays published.                                            *)
ArchiveFails(t) ==
  /\ Fault
  /\ job[t].pc = "archive"
  /\ \E v \in Live : Lowest(v, job[t].todo)
  /\ Release(t)
  /\ interrupted' = TRUE
  /\ UNCHANGED <<disk, read>>

(* promote(): refused without a readable card, or without an artifact when *)
(* the stage is production.                                                *)
PromoteForgets(t, v, s) ==                    \* mutant: leaves the incumbent
  /\ holder = NoThread
  /\ v \in Readable
  /\ s = "production" => artifact[v] # NoObject
  /\ card' = [card EXCEPT ![v].stage = s]
  /\ UNCHANGED <<dirs, artifact, holder, job, read, interrupted, faults>>

Promote(t, v, s) ==
  /\ holder = NoThread
  /\ v \in Readable
  /\ s = "production" => artifact[v] # NoObject
  /\ card' = [card EXCEPT ![v].stage = s]
  /\ IF s = "production"
       THEN /\ holder' = t
            /\ job' = [job EXCEPT ![t] = [pc |-> "archive", ver |-> v, stage |-> s,
                                          todo |-> Incumbents(v)]]
       ELSE UNCHANGED <<holder, job>>
  /\ UNCHANGED <<dirs, artifact, read, interrupted, faults>>

(* The process dies and is started again: only the disk survives.          *)
Crash ==
  /\ Fault
  /\ holder' = NoThread
  /\ job' = [t \in Threads |-> Idle]
  /\ read' = [r \in Readers |-> NoRead]
  /\ interrupted' = (interrupted \/ \E t \in Threads : job[t].pc = "archive")
  /\ UNCHANGED disk

-----------------------------------------------------------------------------
(* load(name) without a version: latest() lists the directories, tries     *)
(* their cards from the highest down, and the artifact of the first        *)
(* readable one is loaded.  newest remembers what was published at the     *)
(* start.                                                                  *)
List(r) ==
  /\ read[r].pc = "idle"
  /\ \E newest \in Versions \cup {0} :
       /\ Highest(newest, Readable) \/ (newest = 0 /\ Readable = {})
       /\ read' = [read EXCEPT ![r] = [pc |-> "scan", left |-> dirs, got |-> 0,
                                       newest |-> newest]]
  /\ UNCHANGED <<disk, holder, job, interrupted, faults>>

ReadHighestOnly(r) ==                         \* mutant: no fallback
  /\ read[r].pc = "scan"
  /\ \E v \in Versions :
       /\ Highest(v, read[r].left)
       /\ read' = IF v \in Readable
                    THEN [read EXCEPT ![r].pc = "load", ![r].got = v]
                    ELSE [read EXCEPT ![r].pc = "none"]
  /\ UNCHANGED <<disk, holder, job, interrupted, faults>>

ReadCard(r) ==
  /\ read[r].pc = "scan"
  /\ \E v \in Versions :
       /\ Highest(v, read[r].left)
       /\ read' = IF v \in Readable
                    THEN [read EXCEPT ![r].pc = "load", ![r].got = v]
                    ELSE [read EXCEPT ![r].left = read[r].left \ {v}]
  /\ UNCHANGED <<disk, holder, job, interrupted, faults>>

NoneReadable(r) ==
  /\ read[r].pc = "scan"
  /\ read[r].left = {}
  /\ read' = [read EXCEPT ![r].pc = "none"]
  /\ UNCHANGED <<disk, holder, job, interrupted, faults>>

LoadArtifact(r) ==
  /\ read[r].pc = "load"
  /\ read' = [read EXCEPT ![r].pc =
                IF artifact[read[r].got] # NoObject THEN "loaded" ELSE "missing"]
  /\ UNCHANGED <<disk, holder, job, interrupted, faults>>

Answer(r) ==
  /\ read[r].pc \in {"loaded", "missing", "none"}
  /\ read' = [read EXCEPT ![r] = NoRead]
  /\ UNCHANGED <<disk, holder, job, interrupted, faults>>

Next ==
  \/ \E t \in Threads :
       \/ \E s \in Stage : Save(t, s)
       \/ MakeDir(t) \/ WriteArtifact(t) \/ WriteCard(t) \/ SaveFails(t)
       \/ ArchiveOne(t) \/ ArchiveDone(t) \/ ArchiveFails(t)
       \/ \E v \in Versions, s \in Stage : Promote(t, v, s)
  \/ Crash
  \/ \E r \in Readers :
       List(r) \/ ReadCard(r) \/ NoneReadable(r) \/ LoadArtifact(r) \/ Answer(r)

Spec == Init /\ [][Next]_vars

-----------------------------------------------------------------------------
(* Types; only the holder of _LOCK is in the middle of a write.            *)
TypeOK ==
  /\ dirs \subseteq Versions
  /\ artifact \in [Versions -> Threads \cup {NoObject}]
  /\ card \in [Versions -> Card \cup {NoCard}]
  /\ holder \in Threads \cup {NoThread}
  /\ job \in [Threads -> Job]
  /\ \A t \in Threads : job[t].pc # "idle" <=> holder = t
  /\ read \in [Readers -> Read]
  /\ interrupted \in BOOLEAN
  /\ faults \in Nat

(* A card is only ever seen beside the artifact it was written for, after  *)
(* crashes, failed saves and reused version numbers too.                   *)
CardDescribesArtifact ==
  \A v \in Readable : artifact[v] = card[v].of

(* A published version is there for good, with the same artifact, and what *)
(* is published next is a later version.                                   *)
NothingPublishedIsLost ==
  [][/\ \A v \in Readable : v \in Readable' /\ artifact'[v] = artifact[v]
     /\ \A v \in Readable' \ Readable : \A w \in Readable : w < v]_vars

(* Whenever no writer is at work, at most one version is live, unless the  *)
(* last promotion was cut short; a later promotion repairs that.           *)
OneLiveUnlessInterrupted ==
  holder = NoThread /\ ~interrupted => \A v \in Live : \A w \in Live : v = w

(* A model that is live never ceases to be served by a promotion, not even *)
(* by one that dies half-way: only a demotion leaves no live version.      *)
PromotionKeepsOneLive ==
  [][Live # {} /\ Live' = {} =>
       \E t \in Threads, v \in Versions, s \in Stage \ {"production"} : Promote(t, v, s)]_vars

(* An unlocked reader gets a version at least as new as the newest one     *)
(* published when it started, always finds its artifact, and fails only if *)
(* nothing was published.                                                  *)
LatestIsFresh ==
  \A r \in Readers :
    /\ read[r].pc \in {"load", "loaded"} => read[r].got >= read[r].newest
    /\ read[r].pc = "none" => read[r].newest = 0
    /\ read[r].pc # "missing"
=============================================================================
