---------------------------- MODULE Stores_proofs ----------------------------
(***************************************************************************)
(* The two families of files that several writers share.  Of the lake,     *)
(* what it keeps for any scripts, items, rows and number of writers on one *)
(* store; of the ownership graph, the two files of every quarter, the      *)
(* dates of the edges and what is read from them, for any managers,        *)
(* quarters, holdings, rosters and number of pulls.                        *)
(***************************************************************************)
EXTENDS Ingest, Ownership, Sums

Storing(p) == pc[p] \in {"write", "commit"}

TypesOK ==
  /\ file \in [Entries -> (SUBSET Rows) \cup {Absent, Torn}]
  /\ held \in [Entries -> SUBSET Rows]
  /\ answer \in [Procs -> SUBSET Rows]
  /\ cached \in [Procs -> SUBSET Rows]
  /\ DOMAIN pc = Procs /\ DOMAIN todo = Procs
  /\ \A p \in Procs : job[p].mode \in {"extend", "replace"} /\ job[p].span \in SUBSET Rows

(* What a writer is about to extend is all that was saved, unless another  *)
(* process came between.                                                   *)
LoadedOK ==
  \A p \in Procs :
    Storing(p) /\ At(p) \in Entries \ excused /\ job[p].mode = "extend" =>
      held[At(p)] \subseteq cached[p]

(* Two writers in one file know that it is not kept.                       *)
AloneOK ==
  \A p, q \in Procs : p # q /\ Storing(p) /\ Storing(q) /\ At(p) = At(q) => At(p) \in excused

Inv == TypesOK /\ LoadedOK /\ AloneOK /\ HistoryKept

-----------------------------------------------------------------------------
(* What can be read and what is answered are rows.                         *)
LEMMA RowsOfType == ASSUME NEW e PROVE RowsOf(e) \in SUBSET Rows
  BY DEF RowsOf

LEMMA AskedType ==
  ASSUME TypesOK, NEW p \in Procs
  PROVE  Asked(p) \in SUBSET Rows
  BY DEF TypesOK, Asked

LEMMA WholeType ==
  ASSUME TypesOK, NEW p \in Procs, NEW edition
  PROVE  Whole(job[p], Asked(p), edition) \in SUBSET Rows
  BY AskedType DEF Whole

LEMMA FewerType ==
  ASSUME TypesOK, NEW p \in Procs, NEW rows \in Fewer(job[p], Asked(p))
  PROVE  rows \in SUBSET Rows
  <1>1. PICK asked : asked = Asked(p)
    OBVIOUS
  <1>2. DailyBars(asked) \subseteq SUBSET asked
    BY DEF DailyBars
  <1>3. Pages(asked) \subseteq SUBSET asked
    BY DEF Pages
  <1>4. Fundamentals(asked) \subseteq SUBSET asked
    BY DEF Fundamentals, Newest
  <1>5. TreasuryCurve(asked) \subseteq SUBSET asked
    BY <1>3 DEF TreasuryCurve, Oldest
  <1>6. Fewer(job[p], asked) \subseteq SUBSET asked
    BY <1>2, <1>3, <1>4, <1>5 DEF Fewer
  <1>7. QED BY <1>1, <1>6, AskedType

(* A saved set of rows is read back.                                       *)
LEMMA ReadBack ==
  ASSUME NEW e, NEW rows \in SUBSET Rows, file[e] = rows
  PROVE  RowsOf(e) = rows
  BY IngestAssumption DEF IngestAssumption, RowsOf

LEMMA AtStays == ASSUME NEW p, job' = job, todo'[p] = todo[p] PROVE At(p)' = At(p)
  BY DEF At, Now, EntryOf

-----------------------------------------------------------------------------
LEMMA InitInv == Init => Inv
  <1> SUFFICES ASSUME Init PROVE Inv
    OBVIOUS
  <1>1. PICK old \in {Absent, Oldest(Rows), Newest(Rows)} : file = [e \in Entries |-> old]
    BY DEF Init
  <1>2. file \in [Entries -> (SUBSET Rows) \cup {Absent, Torn}]
    BY <1>1 DEF Oldest, Newest
  <1>3. held = [e \in Entries |-> RowsOf(e)] /\ held \in [Entries -> SUBSET Rows]
    BY RowsOfType DEF Init
  <1>4. \A p \in Procs : job[p].mode \in {"extend", "replace"} /\ job[p].span \in SUBSET Rows
    BY IngestAssumption DEF IngestAssumption, Init, Procs
  <1>5. TypesOK
    BY <1>2, <1>3, <1>4 DEF Init, TypesOK
  <1>6. \A p \in Procs : ~Storing(p)
    BY DEF Init, Storing
  <1>7. HistoryKept
    BY <1>3 DEF HistoryKept
  <1>8. QED BY <1>5, <1>6, <1>7 DEF Inv, LoadedOK, AloneOK

(* A step that neither touches the store nor puts a process into a write.  *)
LEMMA QuietInv ==
  ASSUME Inv, UNCHANGED <<job, file, held, excused>>,
         answer' \in [Procs -> SUBSET Rows], cached' \in [Procs -> SUBSET Rows],
         DOMAIN pc' = Procs, DOMAIN todo' = Procs,
         \A q \in Procs : Storing(q)' \/ pc[q] = "commit" =>
                            pc'[q] = pc[q] /\ todo'[q] = todo[q] /\ cached'[q] = cached[q]
  PROVE  Inv'
  <1>1. Procs' = Procs
    BY DEF Procs
  <1>2. TypesOK'
    BY <1>1 DEF Inv, TypesOK
  <1>3. \A q \in Procs : Storing(q)' \/ pc[q] = "commit" =>
          At(q)' = At(q) /\ pc'[q] = pc[q] /\ cached'[q] = cached[q]
    BY AtStays
  <1>4. LoadedOK'
    BY <1>1, <1>3 DEF Inv, LoadedOK, Storing
  <1>5. AloneOK'
    BY <1>1, <1>3 DEF Inv, AloneOK, Storing
  <1>6. \A e \in Entries : RowsOf(e)' = RowsOf(e)
    BY DEF RowsOf
  <1>7. HistoryKept'
    BY <1>1, <1>3, <1>6 DEF Inv, HistoryKept
  <1>8. QED BY <1>2, <1>4, <1>5, <1>7 DEF Inv

LEMMA ReceiveInv ==
  ASSUME Inv, NEW p \in Procs, pc[p] = "next", NEW rows \in SUBSET Rows, Receive(p, rows)
  PROVE  Inv'
  <1>1. answer' \in [Procs -> SUBSET Rows] /\ cached' \in [Procs -> SUBSET Rows]
    BY DEF Receive, Inv, TypesOK
  <1>2. DOMAIN pc' = Procs /\ DOMAIN todo' = Procs
    BY DEF Receive, Goto, Inv, TypesOK
  <1>3. \A q \in Procs : Storing(q)' \/ pc[q] = "commit" =>
          pc'[q] = pc[q] /\ todo'[q] = todo[q] /\ cached'[q] = cached[q]
    <2>1. PICK where \in {"load", "next", "aborted"} : pc' = [pc EXCEPT ![p] = where]
      BY DEF Receive, Goto, Onward
    <2>2. ~Storing(p)' /\ \A q \in Procs \ {p} : pc'[q] = pc[q]
      BY <2>1 DEF Storing, Inv, TypesOK
    <2>3. cached' = cached /\ \A q \in Procs \ {p} : todo'[q] = todo[q]
      BY DEF Receive, Inv, TypesOK
    <2>4. QED BY <2>2, <2>3
  <1>4. UNCHANGED <<job, file, held, excused>>
    BY DEF Receive
  <1>5. QED BY <1>1, <1>2, <1>3, <1>4, QuietInv

(* A step of p that ends its write without touching the store.             *)
LEMMA LeaveInv ==
  ASSUME Inv, NEW p \in Procs, UNCHANGED <<job, file, held>>,
         excused \subseteq excused', pc[p] = "commit" => At(p) \in excused',
         answer' \in [Procs -> SUBSET Rows], cached' \in [Procs -> SUBSET Rows],
         DOMAIN pc' = Procs, DOMAIN todo' = Procs, ~Storing(p)',
         \A q \in Procs \ {p} : pc'[q] = pc[q] /\ todo'[q] = todo[q] /\ cached'[q] = cached[q]
  PROVE  Inv'
  <1>1. Procs' = Procs
    BY DEF Procs
  <1>2. TypesOK'
    BY <1>1 DEF Inv, TypesOK
  <1>3. \A q \in Procs \ {p} : At(q)' = At(q) /\ Storing(q)' = Storing(q)
    BY AtStays DEF Storing
  <1>4. LoadedOK'
    BY <1>1, <1>3 DEF Inv, LoadedOK
  <1>5. AloneOK'
    BY <1>1, <1>3 DEF Inv, AloneOK
  <1>6. \A e \in Entries : RowsOf(e)' = RowsOf(e)
    BY DEF RowsOf
  <1>7. HistoryKept'
    BY <1>1, <1>3, <1>6 DEF Inv, HistoryKept
  <1>8. QED BY <1>2, <1>4, <1>5, <1>7 DEF Inv

LEMMA LoadInv == ASSUME Inv, NEW p \in Procs, Load(p) PROVE Inv'
  <1>1. Procs' = Procs /\ UNCHANGED <<job, todo, answer, file, held>> /\ pc[p] = "load"
    BY DEF Load, Procs
  <1>2. /\ pc' = [pc EXCEPT ![p] = "write"]
        /\ cached' = [cached EXCEPT ![p] =
                        IF job[p].mode = "extend" THEN RowsOf(At(p)) ELSE {}]
        /\ excused' = IF Overlap(p) THEN excused \cup {At(p)} ELSE excused
    BY DEF Load, Goto, Excuse
  <1>3. \A q \in Procs : At(q)' = At(q)
    BY <1>1, AtStays
  <1>4. \A e : RowsOf(e)' = RowsOf(e)
    BY <1>1 DEF RowsOf
  <1>5. TypesOK'
    BY <1>1, <1>2, RowsOfType DEF Inv, TypesOK
  <1>6. LoadedOK'
    <2> SUFFICES ASSUME NEW q \in Procs, Storing(q)', At(q) \in Entries \ excused',
                        job[q].mode = "extend"
                 PROVE  held[At(q)] \subseteq cached'[q]
      BY <1>1, <1>3 DEF LoadedOK
    <2>1. CASE q # p
      BY <2>1, <1>2 DEF Inv, LoadedOK, Storing, TypesOK
    <2>2. CASE q = p
      <3>1. ~Overlap(p) /\ At(p) \notin excused
        BY <2>2, <1>2
      <3>2. ~\E r \in Procs : pc[r] = "commit" /\ At(r) = At(p)
        BY <3>1, <1>1 DEF Overlap
      <3>3. held[At(p)] \subseteq RowsOf(At(p))
        BY <2>2, <3>1, <3>2 DEF Inv, HistoryKept
      <3>4. cached'[p] = RowsOf(At(p))
        BY <1>2, <2>2 DEF Inv, TypesOK
      <3>5. QED BY <2>2, <3>3, <3>4
    <2>3. QED BY <2>1, <2>2
  <1>7. AloneOK'
    <2> SUFFICES ASSUME NEW q \in Procs, NEW r \in Procs, q # r, Storing(q)', Storing(r)',
                        At(q) = At(r)
                 PROVE  At(q) \in excused'
      BY <1>1, <1>3 DEF AloneOK
    <2>1. CASE q # p /\ r # p
      BY <2>1, <1>2 DEF Inv, AloneOK, Storing, TypesOK
    <2>2. CASE q = p \/ r = p
      <3>1. Overlap(p)
        BY <2>2, <1>2 DEF Overlap, Storing, Inv, TypesOK
      <3>2. QED BY <2>2, <3>1, <1>2
    <2>3. QED BY <2>1, <2>2
  <1>8. HistoryKept'
    <2>1. \A q \in Procs : pc[q] = "commit" => pc'[q] = "commit"
      BY <1>1, <1>2 DEF Inv, TypesOK
    <2>2. QED BY <2>1, <1>1, <1>2, <1>3, <1>4 DEF Inv, HistoryKept
  <1>9. QED BY <1>5, <1>6, <1>7, <1>8 DEF Inv

LEMMA BeginWriteInv == ASSUME Inv, NEW p \in Procs, BeginWrite(p) PROVE Inv'
  <1>1. Procs' = Procs /\ UNCHANGED <<job, todo, answer, cached, held>> /\ pc[p] = "write"
    BY DEF BeginWrite, Procs, procs
  <1>2. /\ pc' = [pc EXCEPT ![p] = "commit"]
        /\ file' = [file EXCEPT ![At(p)] = Torn]
        /\ excused \subseteq excused'
    BY DEF BeginWrite, Goto, Excuse
  <1>3. \A q \in Procs : At(q)' = At(q)
    BY <1>1, AtStays
  <1>4. \A q \in Procs : Storing(q)' = Storing(q)
    BY <1>1, <1>2 DEF Storing, Inv, TypesOK
  <1>5. TypesOK'
    BY <1>1, <1>2 DEF Inv, TypesOK
  <1>6. LoadedOK' /\ AloneOK'
    BY <1>1, <1>2, <1>3, <1>4 DEF Inv, LoadedOK, AloneOK
  <1>7. HistoryKept'
    <2> SUFFICES ASSUME NEW e \in Entries
                 PROVE  \/ e \in excused'
                        \/ file'[e] = Torn /\ \E q \in Procs : pc'[q] = "commit" /\ At(q) = e
                        \/ held[e] \subseteq RowsOf(e)'
      BY <1>1, <1>3 DEF HistoryKept
    <2>1. CASE e = At(p)
      BY <2>1, <1>1, <1>2 DEF Inv, TypesOK
    <2>2. CASE e # At(p)
      <3>1. file'[e] = file[e] /\ RowsOf(e)' = RowsOf(e)
        BY <2>2, <1>2 DEF RowsOf, Inv, TypesOK
      <3>2. \A q \in Procs : pc[q] = "commit" => pc'[q] = "commit"
        BY <1>1, <1>2 DEF Inv, TypesOK
      <3>3. QED BY <3>1, <3>2, <1>2 DEF Inv, HistoryKept
    <2>3. QED BY <2>1, <2>2
  <1>8. QED BY <1>5, <1>6, <1>7 DEF Inv

(* What Saved leaves of the process, its next place aside.                 *)
LEMMA SavedLeaves ==
  ASSUME TypesOK, NEW p \in Procs, Saved(p), job' = job
  PROVE  /\ Procs' = Procs /\ ~Storing(p)'
         /\ answer' \in [Procs -> SUBSET Rows] /\ cached' \in [Procs -> SUBSET Rows]
         /\ DOMAIN pc' = Procs /\ DOMAIN todo' = Procs
         /\ \A q \in Procs \ {p} :
              pc'[q] = pc[q] /\ todo'[q] = todo[q] /\ cached'[q] = cached[q]
  <1>1. Procs' = Procs
    BY DEF Procs
  <1>2. PICK where \in {"aborted", "next"} : pc' = [pc EXCEPT ![p] = where]
    BY DEF Saved, Goto, Onward
  <1>3. DOMAIN pc' = Procs /\ ~Storing(p)' /\ \A q \in Procs \ {p} : pc'[q] = pc[q]
    BY <1>2 DEF TypesOK, Storing
  <1>4. /\ answer' \in [Procs -> SUBSET Rows] /\ cached' \in [Procs -> SUBSET Rows]
        /\ \A q \in Procs \ {p} : cached'[q] = cached[q]
    BY DEF Saved, TypesOK
  <1>5. DOMAIN todo' = Procs /\ \A q \in Procs \ {p} : todo'[q] = todo[q]
    BY DEF Saved, TypesOK
  <1>6. QED BY <1>1, <1>3, <1>4, <1>5

LEMMA CommitInv == ASSUME Inv, NEW p \in Procs, Commit(p) PROVE Inv'
  <1>1. job' = job /\ pc[p] = "commit" /\ Saved(p)
    BY DEF Commit
  <1>2. /\ file' = [file EXCEPT ![At(p)] = cached[p] \cup answer[p]]
        /\ held' = [held EXCEPT ![At(p)] =
             IF At(p) \in excused \/ job[p].mode = "replace" THEN file'[At(p)]
             ELSE @ \cup answer[p]]
        /\ excused' = IF Overlap(p) THEN excused ELSE excused \ {At(p)}
    BY DEF Commit, Merge
  <1>3. /\ Procs' = Procs /\ ~Storing(p)'
        /\ answer' \in [Procs -> SUBSET Rows] /\ cached' \in [Procs -> SUBSET Rows]
        /\ DOMAIN pc' = Procs /\ DOMAIN todo' = Procs
        /\ \A q \in Procs \ {p} :
             pc'[q] = pc[q] /\ todo'[q] = todo[q] /\ cached'[q] = cached[q]
    BY <1>1, SavedLeaves DEF Inv
  <1>4. \A q \in Procs \ {p} : At(q)' = At(q) /\ Storing(q)' = Storing(q)
    BY <1>1, <1>3, AtStays DEF Storing
  <1>5. cached[p] \cup answer[p] \in SUBSET Rows
    BY DEF Inv, TypesOK
  <1>6. TypesOK'
    <2>1. file' \in [Entries -> (SUBSET Rows) \cup {Absent, Torn}]
      BY <1>2, <1>5 DEF Inv, TypesOK
    <2>2. At(p) \in Entries => file'[At(p)] \in SUBSET Rows
      BY <1>2, <1>5 DEF Inv, TypesOK
    <2>3. held' \in [Entries -> SUBSET Rows]
      <3>1. At(p) \in Entries => held[At(p)] \cup answer[p] \in SUBSET Rows
        BY DEF Inv, TypesOK
      <3>2. QED BY <1>2, <2>2, <3>1 DEF Inv, TypesOK
    <2>4. QED BY <2>1, <2>3, <1>1, <1>3 DEF Inv, TypesOK
  <1>7. \A q \in Procs \ {p} : Storing(q) /\ At(q) = At(p) =>
          At(p) \in excused /\ excused' = excused
    BY <1>1, <1>2 DEF Inv, AloneOK, Overlap, Storing
  <1>8. LoadedOK'
    <2> SUFFICES ASSUME NEW q \in Procs \ {p}, Storing(q), At(q) \in Entries \ excused',
                        job[q].mode = "extend"
                 PROVE  held'[At(q)] \subseteq cached[q]
      BY <1>1, <1>3, <1>4 DEF LoadedOK
    <2>1. At(q) # At(p)
      BY <1>7
    <2>2. At(q) \notin excused /\ held'[At(q)] = held[At(q)]
      BY <2>1, <1>2 DEF Inv, TypesOK
    <2>3. QED BY <2>2 DEF Inv, LoadedOK
  <1>9. AloneOK'
    <2> SUFFICES ASSUME NEW q \in Procs \ {p}, NEW r \in Procs \ {p}, q # r,
                        Storing(q), Storing(r), At(q) = At(r)
                 PROVE  At(q) \in excused'
      BY <1>3, <1>4 DEF AloneOK
    <2>1. At(q) \in excused
      BY DEF Inv, AloneOK
    <2>2. QED BY <2>1, <1>2, <1>7
  <1>10. HistoryKept'
    <2> SUFFICES ASSUME NEW e \in Entries
                 PROVE  \/ e \in excused'
                        \/ file'[e] = Torn /\ \E q \in Procs : pc'[q] = "commit" /\ At(q)' = e
                        \/ held'[e] \subseteq RowsOf(e)'
      BY <1>3 DEF HistoryKept
    <2>1. CASE e = At(p)
      <3>1. file'[e] = cached[p] \cup answer[p]
        BY <2>1, <1>2 DEF Inv, TypesOK
      <3>2. RowsOf(e)' = file'[e]
        BY <3>1, <1>5, IngestAssumption DEF IngestAssumption, RowsOf
      <3>3. CASE At(p) \in excused \/ job[p].mode = "replace"
        BY <2>1, <3>2, <3>3, <1>2 DEF Inv, TypesOK
      <3>4. CASE ~(At(p) \in excused \/ job[p].mode = "replace")
        <4>1. held[e] \subseteq cached[p]
          BY <2>1, <3>4, <1>1 DEF Inv, LoadedOK, TypesOK, Storing
        <4>2. held'[e] = held[e] \cup answer[p]
          BY <2>1, <3>4, <1>2 DEF Inv, TypesOK
        <4>3. QED BY <4>1, <4>2, <3>1, <3>2
      <3>5. QED BY <3>3, <3>4
    <2>2. CASE e # At(p)
      <3>1. file'[e] = file[e] /\ held'[e] = held[e] /\ RowsOf(e)' = RowsOf(e)
        BY <2>2, <1>2 DEF RowsOf, Inv, TypesOK
      <3>2. e \in excused => e \in excused'
        BY <2>2, <1>2
      <3>3. \A q \in Procs : pc[q] = "commit" /\ At(q) = e => pc'[q] = "commit" /\ At(q)' = e
        BY <2>2, <1>3, <1>4
      <3>4. QED BY <3>1, <3>2, <3>3 DEF Inv, HistoryKept
    <2>3. QED BY <2>1, <2>2
  <1>11. QED BY <1>6, <1>8, <1>9, <1>10 DEF Inv

LEMMA WriteFailsInv == ASSUME Inv, NEW p \in Procs, WriteFails(p) PROVE Inv'
  <1>1. /\ UNCHANGED <<job, file, held>> /\ Saved(p)
        /\ excused \subseteq excused' /\ At(p) \in excused'
    BY DEF WriteFails, Excuse
  <1>2. QED BY <1>1, SavedLeaves, LeaveInv DEF Inv

LEMMA CrashInv == ASSUME Inv, NEW p \in Procs, Crash(p) PROVE Inv'
  <1>1. /\ UNCHANGED <<job, file, held>> /\ pc' = [pc EXCEPT ![p] = "dead"]
        /\ excused \subseteq excused' /\ (pc[p] = "commit" => At(p) \in excused')
    BY DEF Crash, Excuse, Goto
  <1>2. /\ todo' = [todo EXCEPT ![p] = <<>>]
        /\ answer' = [answer EXCEPT ![p] = {}] /\ cached' = [cached EXCEPT ![p] = {}]
    BY DEF Crash
  <1>3. DOMAIN pc' = Procs /\ DOMAIN todo' = Procs /\ ~Storing(p)'
    BY <1>1, <1>2 DEF Inv, TypesOK, Storing
  <1>4. answer' \in [Procs -> SUBSET Rows] /\ cached' \in [Procs -> SUBSET Rows]
    BY <1>2 DEF Inv, TypesOK
  <1>5. \A q \in Procs \ {p} : pc'[q] = pc[q] /\ todo'[q] = todo[q] /\ cached'[q] = cached[q]
    BY <1>1, <1>2 DEF Inv, TypesOK
  <1>6. QED BY <1>1, <1>3, <1>4, <1>5, LeaveInv

LEMMA NextInv == Inv /\ [Next]_vars => Inv'
  <1> SUFFICES ASSUME Inv, [Next]_vars PROVE Inv'
    OBVIOUS
  <1> USE DEF history, procs
  <1>1. CASE UNCHANGED vars
    BY <1>1, QuietInv DEF vars, Inv, TypesOK
  <1>2. CASE CoolDownEnds
    BY <1>2, QuietInv DEF CoolDownEnds, Inv, TypesOK
  <1>3. ASSUME NEW p \in Procs, Skip(p) PROVE Inv'
    BY <1>3, QuietInv DEF Skip, Inv, TypesOK, Storing
  <1>4. ASSUME NEW p \in Procs, Fetch(p) PROVE Inv'
    <2>1. PICK rows \in SUBSET Rows : Receive(p, rows)
      <3>1. Whole(job[p], Asked(p), Now(p).edition) \in SUBSET Rows
        BY WholeType DEF Inv
      <3>2. QED BY <1>4, <3>1 DEF Fetch
    <2>2. QED BY <1>4, <2>1, ReceiveInv DEF Fetch, Asking
  <1>5. ASSUME NEW p \in Procs, FetchFewer(p) PROVE Inv'
    <2>1. PICK rows \in SUBSET Rows : Receive(p, rows)
      BY <1>5, FewerType DEF FetchFewer, Inv
    <2>2. QED BY <1>5, <2>1, ReceiveInv DEF FetchFewer, Asking
  <1>6. ASSUME NEW p \in Procs, FetchRaises(p) PROVE Inv'
    <2>1. /\ UNCHANGED <<job, answer, cached, file, held, excused>> /\ pc[p] = "next"
          /\ Raised(p)
      BY <1>6 DEF FetchRaises, Asking
    <2>2. /\ DOMAIN pc' = Procs /\ DOMAIN todo' = Procs /\ ~Storing(p)'
          /\ \A q \in Procs \ {p} : pc'[q] = pc[q] /\ todo'[q] = todo[q]
      BY <2>1 DEF Raised, Goto, Storing, Inv, TypesOK
    <2>3. QED BY <2>1, <2>2, QuietInv DEF Inv, TypesOK, Storing
  <1>7. ASSUME NEW p \in Procs, Finish(p) PROVE Inv'
    BY <1>7, QuietInv DEF Finish, Goto, Inv, TypesOK, Storing
  <1>8. ASSUME NEW p \in Procs, Stopped(p) PROVE Inv'
    BY <1>8, QuietInv DEF Stopped, Inv, TypesOK, Storing
  <1>9. ASSUME NEW p \in Procs, Rerun(p) PROVE Inv'
    BY <1>9, QuietInv DEF Rerun, Goto, Inv, TypesOK, Storing
  <1>10. QED
    BY <1>1, <1>2, <1>3, <1>4, <1>5, <1>6, <1>7, <1>8, <1>9,
       LoadInv, BeginWriteInv, CommitInv, WriteFailsInv, CrashInv
       DEF Next, Work, Trouble

(* Rows that were once saved stay readable through everything later that   *)
(* happens to a unit no fault and no other process interfered with: the    *)
(* load-merge-save of DataManager.update and of the append-only stores     *)
(* loses nothing, whatever the scripts and the number of processes.        *)
THEOREM LakeKeepsHistory == Spec => []HistoryKept
  <1>1. Inv => HistoryKept
    BY DEF Inv
  <1>2. QED BY InitInv, NextInv, <1>1, PTL DEF Spec

-----------------------------------------------------------------------------
(* The ledger of faults of each process covers what it missed.             *)
Covered ==
  /\ DOMAIN missed = Procs /\ DOMAIN charged = Procs /\ DOMAIN tickers = Procs
  /\ \A p \in Procs : charged[p] \in Nat
  /\ \A p \in Procs : IsFiniteSet(missed[p]) /\ Cardinality(missed[p]) <= charged[p]
  /\ \A p \in Procs : tickers[p] # "empty"

(* No lookup leaves the ticker map empty for those that follow.            *)
LEMMA LookedStays ==
  ASSUME Covered, NEW p \in Procs, NEW ok \in BOOLEAN, Looked(p, ok)
  PROVE  DOMAIN tickers' = Procs /\ \A q \in Procs : tickers'[q] # "empty"
  BY DEF Covered, Looked, TickerMap

(* A step that misses nothing.                                             *)
LEMMA NothingMissed ==
  ASSUME Covered, job' = job, missed' = missed,
         charged' = charged \/ \E p \in Procs : Fault(p),
         DOMAIN tickers' = Procs, \A q \in Procs : tickers'[q] # "empty"
  PROVE  Covered'
  <1>1. Procs' = Procs
    BY DEF Procs
  <1>2. /\ DOMAIN charged' = Procs
        /\ \A q \in Procs : charged'[q] \in Nat /\ charged[q] <= charged'[q]
    BY DEF Covered, Fault
  <1>3. \A q \in Procs : Cardinality(missed[q]) \in Nat
    BY FS_CardinalityType DEF Covered
  <1>4. QED BY <1>1, <1>2, <1>3 DEF Covered

LEMMA RaisesCovered == ASSUME Covered, NEW p \in Procs, FetchRaises(p) PROVE Covered'
  <1>1. Fault(p) /\ Looked(p, FALSE) /\ Raised(p) /\ job' = job
    BY DEF FetchRaises, Covered
  <1>2. DOMAIN tickers' = Procs /\ \A q \in Procs : tickers'[q] # "empty"
    BY <1>1, LookedStays
  <1>3. CASE missed' = missed
    BY <1>1, <1>2, <1>3, NothingMissed
  <1>4. CASE Missed(p)
    <2>1. IsFiniteSet(missed[p]) /\ Cardinality(missed[p]) \in Nat
      BY FS_CardinalityType DEF Covered
    <2>2. /\ IsFiniteSet(missed[p] \cup {Now(p).item})
          /\ Cardinality(missed[p] \cup {Now(p).item}) <= Cardinality(missed[p]) + 1
      BY <2>1, FS_AddElement
    <2>3. /\ DOMAIN missed' = Procs /\ missed'[p] = missed[p] \cup {Now(p).item}
          /\ \A q \in Procs \ {p} : missed'[q] = missed[q]
      BY <1>4 DEF Missed, Covered
    <2>4. /\ DOMAIN charged' = Procs /\ charged'[p] = charged[p] + 1
          /\ \A q \in Procs \ {p} : charged'[q] = charged[q]
      BY <1>1 DEF Fault, Covered
    <2>5. Cardinality(missed'[p]) <= charged'[p] /\ IsFiniteSet(missed'[p])
      <3>1. Cardinality(missed[p] \cup {Now(p).item}) \in Nat
        BY <2>2, FS_CardinalityType
      <3>2. charged[p] \in Nat /\ Cardinality(missed[p]) <= charged[p]
        BY DEF Covered
      <3>3. QED BY <2>1, <2>2, <2>3, <2>4, <3>1, <3>2
    <2>6. Procs' = Procs
      BY <1>1 DEF Procs
    <2>7. \A q \in Procs : charged'[q] \in Nat
      BY <2>4 DEF Covered
    <2>8. \A q \in Procs : IsFiniteSet(missed'[q]) /\ Cardinality(missed'[q]) <= charged'[q]
      BY <2>3, <2>4, <2>5 DEF Covered
    <2>9. QED BY <1>2, <2>3, <2>4, <2>6, <2>7, <2>8 DEF Covered
  <1>5. QED BY <1>1, <1>3, <1>4 DEF Raised

LEMMA RerunCovered == ASSUME Covered, NEW p \in Procs, Rerun(p) PROVE Covered'
  <1>1. Procs' = Procs
    BY DEF Rerun, Procs
  <1>2. /\ DOMAIN missed' = Procs /\ missed'[p] = {}
        /\ \A q \in Procs \ {p} : missed'[q] = missed[q]
    BY DEF Rerun, Covered
  <1>3. /\ DOMAIN charged' = Procs /\ charged'[p] = 0
        /\ \A q \in Procs \ {p} : charged'[q] = charged[q]
    BY DEF Rerun, Covered
  <1>4. DOMAIN tickers' = Procs /\ \A q \in Procs : tickers'[q] # "empty"
    BY DEF Rerun, Covered
  <1>5. IsFiniteSet(missed'[p]) /\ Cardinality(missed'[p]) <= charged'[p]
    BY <1>2, <1>3, FS_EmptySet
  <1>6. QED BY <1>1, <1>2, <1>3, <1>4, <1>5 DEF Covered

(* A script that catches the exceptions of its units or items loses to     *)
(* each failure at most the item it happened on, however long its list     *)
(* (the try blocks of the pull scripts, EdgarClient._load_ticker_map).     *)
THEOREM FaultsStayPut == Spec => []OneFaultOneItem
  <1>1. Init => Covered
    <2> SUFFICES ASSUME Init PROVE Covered
      OBVIOUS
    <2>1. \A p \in Procs : missed[p] = {} /\ charged[p] = 0 /\ tickers[p] = "unloaded"
      BY DEF Init
    <2>2. QED BY <2>1, FS_EmptySet DEF Init, Covered
  <1>2. Covered /\ [Next]_vars => Covered'
    <2> SUFFICES ASSUME Covered, [Next]_vars PROVE Covered'
      OBVIOUS
    <2> USE DEF history, procs
    <2>1. CASE UNCHANGED vars \/ CoolDownEnds
      BY <2>1, NothingMissed DEF vars, CoolDownEnds, Covered
    <2>2. ASSUME NEW p \in Procs, Work(p) PROVE Covered'
      <3>1. CASE Fetch(p)
        BY <3>1, LookedStays, NothingMissed DEF Fetch, Receive
      <3>2. CASE Skip(p) \/ Load(p) \/ BeginWrite(p) \/ Commit(p) \/ Finish(p)
        BY <3>2, NothingMissed DEF Skip, Load, BeginWrite, Commit, Finish, Covered
      <3>3. QED BY <2>2, <3>1, <3>2 DEF Work
    <2>3. ASSUME NEW p \in Procs, FetchFewer(p) \/ WriteFails(p) \/ Crash(p) PROVE Covered'
      <3>1. /\ job' = job /\ missed' = missed /\ tickers' = tickers /\ Fault(p)
        BY <2>3 DEF FetchFewer, Receive, WriteFails, Crash
      <3>2. QED BY <3>1, NothingMissed DEF Covered
    <2>4. ASSUME NEW p \in Procs, Stopped(p) PROVE Covered'
      BY <2>4, NothingMissed DEF Stopped, Covered
    <2>5. QED
      BY <2>1, <2>2, <2>3, <2>4, RaisesCovered, RerunCovered DEF Next, Trouble
  <1>3. Covered => OneFaultOneItem
    BY DEF Covered, OneFaultOneItem
  <1>4. QED BY <1>1, <1>2, <1>3, PTL DEF Spec

-----------------------------------------------------------------------------
(* The ownership graph.                                                    *)

Current(b) == Min(build[b].todo)

Agree(links, ns) ==
  /\ DOMAIN links = Pairs(DOMAIN ns)
  /\ \A m \in DOMAIN ns : ns[m].degree = Cardinality(Ties(links, m))

Builder(s) == DOMAIN s = {"at", "rows", "ciks", "todo", "got", "nodes"}

Shape ==
  /\ DOMAIN build = Builders /\ \A b \in Builders : Builder(build[b])
  /\ DOMAIN edges = Periods /\ DOMAIN nodes = Periods /\ DOMAIN basis = Periods

(* The nodes a builder carries belong to the edges on disk, and no other   *)
(* builder is between the two files of that quarter.                       *)
Carried ==
  \A b \in Builders :
    build[b].at = "nodes" /\ Current(b) \in Periods \ torn =>
      /\ Agree(edges[Current(b)], build[b].nodes)
      /\ \A c \in Builders \ {b} : ~(build[c].at = "nodes" /\ Current(c) = Current(b))

FilesInv == Shape /\ Carried /\ FilesAgree

-----------------------------------------------------------------------------
(* Node metrics agree with the edges they are computed from.               *)
LEMMA MetricsAgree ==
  ASSUME NEW s, NEW p
  PROVE  Agree(EdgesOf(s, p), NodeMetrics(EdgesOf(s, p), DOMAIN s.got))
  <1>1. DOMAIN EdgesOf(s, p) = Pairs(DOMAIN s.got)
    BY DEF EdgesOf
  <1> DEFINE links == EdgesOf(s, p)
             ns == NodeMetrics(links, DOMAIN s.got)
  <1>2. DOMAIN ns = DOMAIN s.got
    BY DEF NodeMetrics
  <1>3. \A m \in DOMAIN s.got : ns[m].degree = Cardinality(Ties(links, m))
    BY DEF NodeMetrics
  <1>4. QED BY <1>1, <1>2, <1>3 DEF Agree

LEMMA IdleBuilder == Builder(Idle) /\ Idle.at = "idle"
  BY DEF Builder, Idle

(* A step that leaves the files alone, and no builder enters or leaves     *)
(* the gap between two files by it.                                        *)
LEMMA FilesAlone ==
  ASSUME FilesInv, UNCHANGED <<edges, nodes, basis, torn>>,
         DOMAIN build' = Builders, \A b \in Builders : Builder(build'[b]),
         \A b \in Builders : build[b].at = "nodes" \/ build'[b].at = "nodes" => build'[b] = build[b]
  PROVE  FilesInv'
  <1>1. \A b \in Builders : build[b].at = "nodes" \/ build'[b].at = "nodes" => Current(b)' = Current(b)
    BY DEF Current
  <1>2. Carried'
    BY <1>1 DEF FilesInv, Carried
  <1>3. \A p : Midway(p)' <=> Midway(p)
    BY DEF Midway
  <1>4. FilesAgree'
    BY <1>3 DEF FilesInv, FilesAgree, Stored
  <1>5. QED BY <1>2, <1>4 DEF FilesInv, Shape

LEMMA SaveEdgesInv == ASSUME FilesInv, NEW b \in Builders, SaveEdges(b) PROVE FilesInv'
  <1>0. PICK p : p = Current(b)
    OBVIOUS
  <1> DEFINE links == EdgesOf(build[b], p)
             ns == NodeMetrics(links, DOMAIN build[b].got)
  <1>1. /\ build[b].at = "edges"
        /\ edges' = [edges EXCEPT ![p] = links]
        /\ build' = [build EXCEPT ![b] =
                       [build[b] EXCEPT !.at = "nodes", !.got = Nothing, !.nodes = ns]]
        /\ DOMAIN basis' = DOMAIN basis /\ nodes' = nodes
        /\ torn' = IF Midway(p) THEN torn \cup {p} ELSE torn \ {p}
    BY <1>0 DEF SaveEdges, Moves, Current
  <1>2. Agree(links, ns)
    BY MetricsAgree
  <1> HIDE DEF links, ns
  <1>3. /\ DOMAIN build' = Builders /\ \A c \in Builders \ {b} : build'[c] = build[c]
        /\ Builder(build'[b]) /\ build'[b].at = "nodes" /\ build'[b].nodes = ns
        /\ build'[b].todo = build[b].todo
    <2>1. Builder(build[b]) /\ b \in DOMAIN build
      BY DEF FilesInv, Shape
    <2>2. build'[b] = [build[b] EXCEPT !.at = "nodes", !.got = Nothing, !.nodes = ns]
      BY <2>1, <1>1
    <2>3. /\ Builder(build'[b]) /\ build'[b].at = "nodes" /\ build'[b].nodes = ns
          /\ build'[b].todo = build[b].todo
      BY <2>1, <2>2 DEF Builder
    <2>4. QED BY <2>1, <2>3, <1>1 DEF FilesInv, Shape
  <1>4. Shape'
    BY <1>1, <1>3 DEF FilesInv, Shape, Builder
  <1>5. Current(b)' = p /\ \A c \in Builders \ {b} : Current(c)' = Current(c)
    BY <1>0, <1>3 DEF Current
  <1>6. \A q \in Periods \ {p} :
          edges'[q] = edges[q] /\ (q \in torn' <=> q \in torn) /\ (Midway(q)' <=> Midway(q))
    BY <1>1, <1>3, <1>5 DEF FilesInv, Shape, Midway, Current
  <1>7. p \notin torn' => \A c \in Builders : ~(build[c].at = "nodes" /\ Current(c) = p)
    BY <1>1 DEF Midway, Current
  <1>8. Midway(p)'
    BY <1>3, <1>5 DEF Midway, Current
  <1>9. Carried'
    <2> SUFFICES ASSUME NEW c \in Builders, build'[c].at = "nodes", Current(c)' \in Periods \ torn'
                 PROVE  /\ Agree(edges'[Current(c)'], build'[c].nodes)
                        /\ \A d \in Builders \ {c} : ~(build'[d].at = "nodes" /\ Current(d)' = Current(c)')
      BY DEF Carried, Agree, Ties, Pairs
    <2>1. CASE c = b
      <3>1. edges'[p] = links
        BY <2>1, <1>1, <1>5 DEF FilesInv, Shape
      <3>2. QED BY <2>1, <3>1, <1>2, <1>3, <1>5, <1>7
    <2>2. CASE c # b
      <3>1. build[c].at = "nodes" /\ Current(c)' = Current(c)
        BY <2>2, <1>3, <1>5
      <3>2. Current(c) # p
        BY <3>1, <1>7
      <3>3. Current(c) \in Periods \ torn /\ edges'[Current(c)] = edges[Current(c)]
        BY <3>1, <3>2, <1>6
      <3>4. QED BY <2>2, <3>1, <3>2, <3>3, <1>3, <1>5 DEF FilesInv, Carried
    <2>3. QED BY <2>1, <2>2
  <1>10. FilesAgree'
    <2> SUFFICES ASSUME NEW q \in Periods, edges'[q] # Missing, q \notin torn', ~Midway(q)'
                 PROVE  Agree(edges'[q], nodes'[q])
      BY DEF FilesAgree, Stored, Agree, Ties, Pairs
    <2>1. q # p
      BY <1>8
    <2>2. QED BY <2>1, <1>1, <1>6 DEF FilesInv, FilesAgree, Stored, Agree
  <1>11. QED BY <1>4, <1>9, <1>10 DEF FilesInv

LEMMA SaveNodesInv == ASSUME FilesInv, NEW b \in Builders, SaveNodes(b) PROVE FilesInv'
  <1>0. PICK p : p = Current(b)
    OBVIOUS
  <1> DEFINE left == build[b].todo \ {p}
  <1>1. /\ build[b].at = "nodes"
        /\ nodes' = [nodes EXCEPT ![p] = build[b].nodes]
        /\ build' = [build EXCEPT ![b] =
             IF left = {} THEN Idle
             ELSE [build[b] EXCEPT !.at = "edges", !.todo = left, !.nodes = Missing]]
        /\ UNCHANGED <<edges, basis, torn>>
    BY <1>0 DEF SaveNodes, Moves, Current
  <1> HIDE DEF left
  <1>2. /\ DOMAIN build' = Builders /\ \A c \in Builders \ {b} : build'[c] = build[c]
        /\ Builder(build'[b]) /\ build'[b].at # "nodes"
    <2>1. Builder(build[b]) /\ b \in DOMAIN build
      BY DEF FilesInv, Shape
    <2>2. build'[b] = IF left = {} THEN Idle
                      ELSE [build[b] EXCEPT !.at = "edges", !.todo = left, !.nodes = Missing]
      BY <2>1, <1>1
    <2>3. Builder(build'[b]) /\ build'[b].at # "nodes"
      BY <2>1, <2>2, IdleBuilder DEF Builder
    <2>4. QED BY <2>1, <2>3, <1>1 DEF FilesInv, Shape
  <1>3. Shape'
    BY <1>1, <1>2 DEF FilesInv, Shape
  <1>4. \A c \in Builders \ {b} : Current(c)' = Current(c)
    BY <1>2 DEF Current
  <1>5. Carried'
    BY <1>1, <1>2, <1>4 DEF FilesInv, Carried
  <1>6. FilesAgree'
    <2> SUFFICES ASSUME NEW q \in Periods, edges'[q] # Missing, q \notin torn', ~Midway(q)'
                 PROVE  Agree(edges'[q], nodes'[q])
      BY DEF FilesAgree, Stored, Agree, Ties, Pairs
    <2>1. CASE q = p
      <3>1. Agree(edges[p], build[b].nodes)
        BY <2>1, <1>0, <1>1 DEF FilesInv, Carried
      <3>2. QED BY <2>1, <3>1, <1>1 DEF FilesInv, Shape
    <2>2. CASE q # p
      <3>1. ~Midway(q)
        BY <2>2, <1>0, <1>1, <1>2, <1>4 DEF Midway, Current
      <3>2. nodes'[q] = nodes[q]
        BY <2>2, <1>1 DEF FilesInv, Shape
      <3>3. QED BY <3>1, <3>2, <1>1 DEF FilesInv, FilesAgree, Stored, Agree
    <2>3. QED BY <2>1, <2>2
  <1>7. QED BY <1>3, <1>5, <1>6 DEF FilesInv

LEMMA DiesInv == ASSUME FilesInv, NEW b \in Builders, Dies(b) PROVE FilesInv'
  <1>0. PICK p : p = Current(b)
    OBVIOUS
  <1>1. /\ build' = [build EXCEPT ![b] = Idle]
        /\ torn' = IF build[b].at = "nodes" THEN torn \cup {p} ELSE torn
        /\ UNCHANGED <<edges, nodes, basis>>
    BY <1>0 DEF Dies, Moves, Current
  <1>2. /\ DOMAIN build' = Builders /\ \A c \in Builders \ {b} : build'[c] = build[c]
        /\ Builder(build'[b]) /\ build'[b].at = "idle"
    BY <1>1, IdleBuilder DEF FilesInv, Shape
  <1>3. \A c \in Builders \ {b} : Current(c)' = Current(c)
    BY <1>2 DEF Current
  <1>4. Shape' /\ Carried'
    BY <1>1, <1>2, <1>3 DEF FilesInv, Shape, Carried
  <1>5. FilesAgree'
    <2> SUFFICES ASSUME NEW q \in Periods, edges'[q] # Missing, q \notin torn', ~Midway(q)'
                 PROVE  Agree(edges'[q], nodes'[q])
      BY DEF FilesAgree, Stored, Agree, Ties, Pairs
    <2>1. q \notin torn /\ ~Midway(q)
      BY <1>0, <1>1, <1>2, <1>3 DEF Midway, Current
    <2>2. QED BY <2>1, <1>1 DEF FilesInv, FilesAgree, Stored, Agree
  <1>6. QED BY <1>4, <1>5 DEF FilesInv

LEMMA StartInv == ASSUME FilesInv, NEW b \in Builders, Start(b) PROVE FilesInv'
  <1>1. PICK rows, ciks, quarters :
          /\ build' = [build EXCEPT ![b] = [Idle EXCEPT !.at = "edges", !.rows = rows,
                                                        !.ciks = ciks, !.todo = quarters]]
          /\ UNCHANGED <<edges, nodes, basis, torn>> /\ build[b].at = "idle"
    BY DEF Start, Moves, files
  <1>2. /\ DOMAIN build' = Builders /\ \A c \in Builders \ {b} : build'[c] = build[c]
        /\ build'[b] = [Idle EXCEPT !.at = "edges", !.rows = rows, !.ciks = ciks, !.todo = quarters]
    BY <1>1 DEF FilesInv, Shape
  <1>3. Builder(build'[b]) /\ build'[b].at = "edges"
    BY <1>2, IdleBuilder DEF Builder
  <1>4. QED BY <1>1, <1>2, <1>3, FilesAlone DEF FilesInv, Shape

LEMMA LoadHoldingsInv == ASSUME FilesInv, NEW b \in Builders, LoadHoldings(b) PROVE FilesInv'
  <1>1. PICK got :
          /\ build' = [build EXCEPT ![b] = [build[b] EXCEPT !.got = got]]
          /\ UNCHANGED <<edges, nodes, basis, torn>> /\ build[b].at = "edges"
    BY DEF LoadHoldings, Moves, files
  <1>2. /\ DOMAIN build' = Builders /\ \A c \in Builders \ {b} : build'[c] = build[c]
        /\ build'[b] = [build[b] EXCEPT !.got = got] /\ Builder(build[b])
    BY <1>1 DEF FilesInv, Shape
  <1>3. Builder(build'[b]) /\ build'[b].at = "edges"
    BY <1>1, <1>2 DEF Builder
  <1>4. QED BY <1>1, <1>2, <1>3, FilesAlone DEF FilesInv, Shape

LEMMA FilesInitInv == GraphInit => FilesInv
  <1> SUFFICES ASSUME GraphInit PROVE FilesInv
    OBVIOUS
  <1>1. Shape /\ \A b \in Builders : build[b].at = "idle"
    BY IdleBuilder DEF GraphInit, Shape
  <1>2. Stored = {}
    BY DEF GraphInit, Stored
  <1>3. QED BY <1>1, <1>2 DEF FilesInv, Carried, FilesAgree

LEMMA FilesNextInv == FilesInv /\ [GraphNext]_graphVars => FilesInv'
  <1> SUFFICES ASSUME FilesInv, [GraphNext]_graphVars PROVE FilesInv'
    OBVIOUS
  <1>1. CASE UNCHANGED graphVars \/ Pull \/ Rank
    BY <1>1, FilesAlone DEF graphVars, Pull, Rank, files, FilesInv, Shape
  <1>2. QED BY <1>1, StartInv, LoadHoldingsInv, SaveEdgesInv, SaveNodesInv, DiesInv DEF GraphNext

(* The two files of a quarter tell of the same graph, except between the   *)
(* two saves, after a builder died there and where builders met            *)
(* (build_all, save_edges and save_nodes), for any lake and both builders. *)
THEOREM FilesStayTogether == GraphSpec => []FilesAgree
  BY FilesInitInv, FilesNextInv, PTL DEF GraphSpec, FilesInv

-----------------------------------------------------------------------------
(* What the snapshots were computed from, and what readers make of them.   *)
One(e)   == CHOOSE m \in e : TRUE
Other(e) == CHOOSE m \in e : m # One(e)

Computed(links, b) ==
  /\ b.filed \subseteq Managers /\ DOMAIN b.holdings = b.filed \cap b.ciks
  /\ \A m \in DOMAIN b.holdings : b.holdings[m].book \in [Cusips -> Nat]
  /\ DOMAIN links = Pairs(DOMAIN b.holdings)
  /\ \A e \in DOMAIN links :
       links[e].metrics = EdgeMetrics(b.holdings[One(e)].book, b.holdings[Other(e)].book)

(* A filing a builder has read of stays in the lake, amended perhaps, and  *)
(* what it has loaded is of the quarter at hand.                           *)
Known(s) == \A x \in DOMAIN s.rows : x \in DOMAIN lake /\ lake[x].book \in [Cusips -> Nat]

Gathered(s) ==
  /\ \A m \in DOMAIN s.got : s.got[m].book \in [Cusips -> Nat]
  /\ DOMAIN s.got \subseteq (IF s.at = "edges" THEN Filers(s, Min(s.todo)) ELSE {})

Filed ==
  /\ DOMAIN lake = Managers \X Periods
  /\ \A x \in DOMAIN lake : lake[x] # Missing => lake[x].book \in [Cusips -> Nat]
  /\ \A b \in Builders : Known(build[b]) /\ Gathered(build[b])

Based == \A p \in Stored : Computed(edges[p], basis[p])

BasedInv == Shape /\ Filed /\ Based

LEMMA PairEnds ==
  ASSUME NEW S \in SUBSET Managers, NEW e \in Pairs(S)
  PROVE  One(e) \in e /\ Other(e) \in e /\ Other(e) # One(e)
  <1>1. e \subseteq Managers /\ Cardinality(e) = 2
    BY DEF Pairs
  <1>2. IsFiniteSet(e)
    BY <1>1, OwnershipAssumption, FS_Subset DEF OwnershipAssumption
  <1>3. e # {}
    BY <1>1, FS_EmptySet
  <1>4. One(e) \in e
    BY <1>3 DEF One
  <1>5. IsFiniteSet(e \ {One(e)}) /\ Cardinality(e \ {One(e)}) = 1
    BY <1>1, <1>2, <1>4, FS_RemoveElement
  <1>6. e \ {One(e)} # {}
    BY <1>5, FS_EmptySet
  <1>7. \E m \in e : m # One(e)
    BY <1>6
  <1>8. QED BY <1>4, <1>7 DEF Other

LEMMA SharedIsInt ==
  ASSUME NEW a \in [Cusips -> Nat], NEW b \in [Cusips -> Nat]
  PROVE  EdgeMetrics(a, b).shared_usd \in Int
  <1> DEFINE common == Positions(a) \cap Positions(b)
             least == [c \in common |-> IF a[c] < b[c] THEN a[c] ELSE b[c]]
  <1>1. common \in SUBSET Cusips /\ IsFiniteSet(Cusips)
    BY OwnershipAssumption DEF OwnershipAssumption, Positions
  <1>2. IsFiniteSet(common)
    BY <1>1, FS_Subset
  <1>3. \A c \in common : least[c] \in Int
    BY <1>1
  <1>4. DOMAIN least = common
    OBVIOUS
  <1>5. EdgeMetrics(a, b).shared_usd = SumFunction(least)
    BY DEF EdgeMetrics
  <1> HIDE DEF least, common
  <1>6. QED BY <1>2, <1>3, <1>4, <1>5, SumInt DEF SumFunction

(* Both ends of a nonempty set of managers are in it.                      *)
LEMMA LeastManager ==
  ASSUME NEW S \in SUBSET Managers, S # {}
  PROVE  Min(S) \in S /\ Max(S) \in S
  <1>1. IsFiniteSet(S) /\ \A x \in S : x \in Int
    BY OwnershipAssumption, FS_Subset DEF OwnershipAssumption
  <1> DEFINE id == [x \in S |-> x]
             minus == [x \in S |-> 0 - x]
  <1>2. \A x \in S : id[x] = x /\ id[x] \in Int /\ minus[x] = 0 - x /\ minus[x] \in Int
    BY <1>1
  <1> HIDE DEF id, minus
  <1>3. \E x \in S : \A y \in S : id[y] <= id[x]
    BY <1>1, <1>2, Greatest
  <1>4. \E x \in S : \A y \in S : minus[y] <= minus[x]
    BY <1>1, <1>2, Greatest
  <1>5. \E x \in S : \A y \in S : x >= y
    BY <1>1, <1>2, <1>3
  <1>6. \E x \in S : \A y \in S : x <= y
    BY <1>1, <1>2, <1>4
  <1>7. QED BY <1>5, <1>6 DEF Max, Min

LEMMA SaveEdgesBased ==
  ASSUME BasedInv, NEW b \in Builders, SaveEdges(b)
  PROVE  Based'
  <1>0. PICK p, s : p = Current(b) /\ s = build[b]
    OBVIOUS
  <1> DEFINE links == EdgesOf(s, p)
             origin == [ciks |-> s.ciks, filed |-> Catalogued(s, p), holdings |-> s.got]
  <1>1. /\ edges' = [edges EXCEPT ![p] = links] /\ basis' = [basis EXCEPT ![p] = origin]
        /\ s.at = "edges" /\ Filers(s, p) \ DOMAIN s.got = {}
    BY <1>0 DEF SaveEdges, Current, Unread
  <1>2. Gathered(s)
    BY <1>0 DEF BasedInv, Filed
  <1>3. DOMAIN s.got = Filers(s, p)
    BY <1>0, <1>1, <1>2 DEF Gathered, Current
  <1>4. /\ origin.filed \subseteq Managers /\ DOMAIN origin.holdings = origin.filed \cap origin.ciks
        /\ \A m \in DOMAIN origin.holdings : origin.holdings[m].book \in [Cusips -> Nat]
    BY <1>2, <1>3 DEF Gathered, Filers, Catalogued
  <1>5. /\ DOMAIN links = Pairs(DOMAIN s.got)
        /\ \A e \in DOMAIN links :
             links[e].metrics = EdgeMetrics(s.got[One(e)].book, s.got[Other(e)].book)
    BY DEF EdgesOf, One, Other
  <1>6. Computed(links, origin)
    BY <1>4, <1>5 DEF Computed
  <1> HIDE DEF links, origin
  <1>7. ASSUME NEW q \in Periods, edges'[q] # Missing PROVE Computed(edges'[q], basis'[q])
    <2>1. CASE q = p
      BY <1>1, <1>6, <2>1 DEF BasedInv, Shape
    <2>2. CASE q # p
      <3>1. edges'[q] = edges[q] /\ basis'[q] = basis[q]
        BY <1>1, <2>2 DEF BasedInv, Shape
      <3>2. QED BY <1>7, <3>1 DEF BasedInv, Based, Stored
    <2>3. QED BY <2>1, <2>2
  <1>8. QED BY <1>7 DEF Based, Stored, Computed, Pairs

(* A step of b alone that leaves the lake as it is.                        *)
LEMMA BuilderFiled ==
  ASSUME Shape, Filed, NEW b \in Builders, NEW s, lake' = lake,
         build' = [build EXCEPT ![b] = s], Known(s), Gathered(s)
  PROVE  Filed'
  <1>1. build'[b] = s /\ \A c \in Builders \ {b} : build'[c] = build[c]
    BY DEF Shape
  <1>2. \A c \in Builders : Known(build'[c]) /\ Gathered(build'[c])
    BY <1>1 DEF Filed
  <1>3. QED BY <1>2 DEF Filed, Known, Gathered, Filers, Catalogued

LEMMA IdleFiled == Known(Idle) /\ Gathered(Idle)
  BY DEF Idle, Nothing, Known, Gathered

LEMMA PullFiled == ASSUME Filed, Pull PROVE Filed'
  <1>1. build' = build
    BY DEF Pull
  <1>2. PICK x \in Managers \X Periods, book \in Books, day \in {pulls + 1} :
          lake' = [lake EXCEPT ![x] = [book |-> book, filed |-> day]]
    BY DEF Pull
  <1>3. book \in [Cusips -> Nat]
    BY OwnershipAssumption DEF OwnershipAssumption
  <1>4. /\ DOMAIN lake' = DOMAIN lake
        /\ \A y \in DOMAIN lake : lake'[y] = lake[y] \/ lake'[y].book \in [Cusips -> Nat]
    BY <1>2, <1>3
  <1>5. \A b \in Builders : Known(build[b])'
    BY <1>1, <1>4 DEF Filed, Known
  <1>6. \A b \in Builders : Gathered(build[b])'
    BY <1>1 DEF Filed, Gathered, Filers, Catalogued
  <1>7. QED BY <1>4, <1>5, <1>6 DEF Filed

LEMMA StartFiled == ASSUME Shape, Filed, NEW b \in Builders, Start(b) PROVE Filed'
  <1> DEFINE cat == {x \in DOMAIN lake : lake[x] # Missing}
             rows == [x \in cat |-> lake[x].filed]
             quarters == {x[2] : x \in {y \in cat : y[1] \in Roster(b)}}
             s == [Idle EXCEPT !.at = "edges", !.rows = rows, !.ciks = Roster(b),
                               !.todo = quarters]
  <1>1. lake' = lake /\ build' = [build EXCEPT ![b] = s]
    BY DEF Start, Moves
  <1>2. \A x \in DOMAIN rows : x \in DOMAIN lake /\ lake[x].book \in [Cusips -> Nat]
    BY DEF Filed
  <1> HIDE DEF rows, quarters
  <1>3. s.rows = rows /\ s.got = Nothing
    BY DEF Idle
  <1>4. Known(s) /\ Gathered(s)
    BY <1>2, <1>3 DEF Known, Gathered, Nothing
  <1>5. QED BY <1>1, <1>4, BuilderFiled

LEMMA LoadHoldingsFiled ==
  ASSUME Shape, Filed, NEW b \in Builders, LoadHoldings(b)
  PROVE  Filed'
  <1>0. PICK t, p, m : t = build[b] /\ p = Min(t.todo) /\ m = Min(Unread(t))
    OBVIOUS
  <1> DEFINE got == [k \in DOMAIN t.got \cup {m} |-> IF k = m THEN lake[<<m, p>>] ELSE t.got[k]]
             s == [t EXCEPT !.got = got]
  <1>1. /\ lake' = lake /\ build' = [build EXCEPT ![b] = s]
        /\ t.at = "edges" /\ Unread(t) # {}
    BY <1>0 DEF LoadHoldings, Moves
  <1>2. Builder(t) /\ Known(t) /\ Gathered(t)
    BY <1>0 DEF Shape, Filed
  <1>3. m \in Filers(t, p) /\ Filers(t, p) \subseteq Managers
    <2>1. Unread(t) \subseteq Managers /\ Unread(t) \subseteq Filers(t, p)
      BY <1>0 DEF Unread, Filers, Catalogued
    <2>2. m \in Unread(t)
      BY <1>0, <1>1, <2>1, LeastManager
    <2>3. QED BY <2>1, <2>2 DEF Filers, Catalogued
  <1>4. lake[<<m, p>>].book \in [Cusips -> Nat]
    BY <1>2, <1>3 DEF Known, Filers, Catalogued
  <1>5. \A k \in DOMAIN got : got[k].book \in [Cusips -> Nat]
    BY <1>2, <1>4 DEF Gathered
  <1>6. DOMAIN got \subseteq Filers(t, p)
    BY <1>0, <1>1, <1>2, <1>3 DEF Gathered
  <1> HIDE DEF got
  <1>7. /\ s.got = got /\ s.rows = t.rows /\ s.todo = t.todo /\ s.ciks = t.ciks
        /\ s.at = "edges"
    BY <1>1, <1>2 DEF Builder
  <1> HIDE DEF s
  <1>8. Known(s) /\ Gathered(s)
    BY <1>0, <1>2, <1>5, <1>6, <1>7 DEF Known, Gathered, Filers, Catalogued
  <1>9. QED BY <1>1, <1>8, BuilderFiled

LEMMA SaveEdgesFiled == ASSUME Shape, Filed, NEW b \in Builders, SaveEdges(b) PROVE Filed'
  <1>1. PICK ns, s : /\ s = [build[b] EXCEPT !.at = "nodes", !.got = Nothing, !.nodes = ns]
                     /\ build' = [build EXCEPT ![b] = s] /\ lake' = lake
    BY DEF SaveEdges, Moves
  <1>2. s.rows = build[b].rows /\ s.got = Nothing
    BY <1>1 DEF Shape, Builder
  <1>3. Known(s) /\ Gathered(s)
    BY <1>2 DEF Filed, Known, Gathered, Nothing
  <1>4. QED BY <1>1, <1>3, BuilderFiled

LEMMA SaveNodesFiled == ASSUME Shape, Filed, NEW b \in Builders, SaveNodes(b) PROVE Filed'
  <1>1. PICK left, s :
          /\ s = IF left = {} THEN Idle
                 ELSE [build[b] EXCEPT !.at = "edges", !.todo = left, !.nodes = Missing]
          /\ build' = [build EXCEPT ![b] = s] /\ lake' = lake /\ build[b].at = "nodes"
    BY DEF SaveNodes, Moves
  <1>2. CASE left = {}
    BY <1>1, <1>2, IdleFiled, BuilderFiled
  <1>3. CASE left # {}
    <2>1. s.rows = build[b].rows /\ s.got = build[b].got
      BY <1>1, <1>3 DEF Shape, Builder
    <2>2. DOMAIN build[b].got = {}
      BY <1>1 DEF Filed, Gathered
    <2>3. Known(s) /\ Gathered(s)
      BY <2>1, <2>2 DEF Filed, Known, Gathered
    <2>4. QED BY <1>1, <2>3, BuilderFiled
  <1>4. QED BY <1>2, <1>3

LEMMA FiledStays == ASSUME Shape, Filed, [GraphNext]_graphVars PROVE Filed'
  <1>1. CASE Rank \/ UNCHANGED graphVars
    BY <1>1 DEF Rank, graphVars, Filed, Known, Gathered, Filers, Catalogued
  <1>2. ASSUME NEW b \in Builders, Dies(b) PROVE Filed'
    BY <1>2, IdleFiled, BuilderFiled DEF Dies, Moves
  <1>3. QED
    BY <1>1, <1>2, PullFiled, StartFiled, LoadHoldingsFiled, SaveEdgesFiled, SaveNodesFiled
       DEF GraphNext

LEMMA BasedInvariance == GraphSpec => []BasedInv
  <1>1. GraphInit => BasedInv
    <2> SUFFICES ASSUME GraphInit PROVE BasedInv
      OBVIOUS
    <2>1. Stored = {}
      BY DEF GraphInit, Stored
    <2>2. DOMAIN lake = Managers \X Periods
      BY DEF GraphInit
    <2>3. \A x \in DOMAIN lake : lake[x] # Missing => lake[x].book \in [Cusips -> Nat]
      <3>1. PICK old \in Lakes :
              lake = [x \in Managers \X Periods |->
                        IF x \in DOMAIN old THEN [book |-> old[x], filed |-> 0] ELSE Missing]
        BY DEF GraphInit
      <3>2. \A x \in DOMAIN old : old[x] \in [Cusips -> Nat]
        BY OwnershipAssumption DEF OwnershipAssumption, Range
      <3>3. QED BY <3>1, <3>2
    <2>4. \A b \in Builders : build[b] = Idle
      BY DEF GraphInit
    <2>5. Filed
      BY <2>2, <2>3, <2>4, IdleFiled DEF Filed
    <2>6. Shape
      BY FilesInitInv DEF FilesInv
    <2>7. QED BY <2>1, <2>5, <2>6 DEF BasedInv, Based
  <1>2. FilesInv /\ BasedInv /\ [GraphNext]_graphVars => BasedInv'
    <2> SUFFICES ASSUME FilesInv, BasedInv, [GraphNext]_graphVars PROVE BasedInv'
      OBVIOUS
    <2>1. Shape' /\ Filed'
      BY FilesNextInv, FiledStays DEF BasedInv, FilesInv
    <2>2. ASSUME UNCHANGED <<edges, basis>> PROVE Based'
      BY <2>2 DEF BasedInv, Based, Stored, Computed, Pairs
    <2>3. UNCHANGED <<edges, basis>> \/ \E b \in Builders : SaveEdges(b)
      BY DEF GraphNext, graphVars, files, Pull, Rank, Start, LoadHoldings, SaveNodes, Dies
    <2>4. QED BY <2>1, <2>2, <2>3, SaveEdgesBased DEF BasedInv
  <1>3. GraphSpec => []FilesInv
    BY FilesInitInv, FilesNextInv, PTL DEF GraphSpec
  <1>4. QED BY <1>1, <1>2, <1>3, PTL DEF GraphSpec

(* The last two quarters that have edge files.                             *)
LEMMA LastTwo ==
  ASSUME ~(Cardinality(Stored) < 2)
  PROVE  Latest \in Stored /\ Previous \in Stored
  <1>1. Stored \in SUBSET Periods /\ Periods \subseteq Nat /\ IsFiniteSet(Stored)
    BY OwnershipAssumption, FS_Subset DEF OwnershipAssumption, Stored
  <1>2. ASSUME NEW S \in SUBSET Stored, S # {} PROVE Max(S) \in S
    <2> DEFINE id == [x \in S |-> x]
    <2>1. \A x \in S : id[x] = x /\ x \in Int
      BY <1>1
    <2>2. IsFiniteSet(S)
      BY <1>1, FS_Subset
    <2> HIDE DEF id
    <2>3. \E x \in S : \A y \in S : id[y] <= id[x]
      BY <1>2, <2>1, <2>2, Greatest
    <2>4. \E x \in S : \A y \in S : x >= y
      BY <2>1, <2>3
    <2>5. QED BY <2>4 DEF Max
  <1>3. Stored # {}
    BY <1>1, FS_EmptySet
  <1>4. Max(Stored) \in Stored
    BY <1>2, <1>3
  <1>5. Cardinality(Stored \ {Max(Stored)}) = Cardinality(Stored) - 1 /\ IsFiniteSet(Stored \ {Max(Stored)})
    BY <1>1, <1>4, FS_RemoveElement
  <1>6. Cardinality(Stored) \in Nat /\ Cardinality(Stored \ {Max(Stored)}) # 0
    BY <1>1, <1>5, FS_CardinalityType
  <1>7. Stored \ {Max(Stored)} # {}
    BY <1>6, FS_EmptySet
  <1>8. Max(Stored \ {Max(Stored)}) \in Stored \ {Max(Stored)}
    BY <1>2, <1>7
  <1>9. QED BY <1>4, <1>8 DEF Latest, Previous

(* The weight of a stored edge is what its two filings share.              *)
LEMMA WeightIs ==
  ASSUME BasedInv, NEW p \in Stored, NEW e \in DOMAIN edges[p]
  PROVE  Weight(p, e) = Common(p, e) /\ Weight(p, e) \in Int
  <1>1. Computed(edges[p], basis[p])
    BY DEF BasedInv, Based
  <1>2. e \in Pairs(DOMAIN basis[p].holdings) /\ DOMAIN basis[p].holdings \in SUBSET Managers
    BY <1>1 DEF Computed
  <1>3. One(e) \in DOMAIN basis[p].holdings /\ Other(e) \in DOMAIN basis[p].holdings
    BY <1>2, PairEnds DEF Pairs
  <1>4. edges[p][e].metrics
          = EdgeMetrics(basis[p].holdings[One(e)].book, basis[p].holdings[Other(e)].book)
    BY <1>1 DEF Computed
  <1>5. EdgeMetrics(basis[p].holdings[One(e)].book, basis[p].holdings[Other(e)].book).shared_usd \in Int
    BY <1>1, <1>3, SharedIsInt DEF Computed
  <1>6. QED BY <1>4, <1>5 DEF Weight, Common, One, Other

LEMMA DeltasHold == BasedInv => DeltasTellWhoFiled
  <1> SUFFICES ASSUME BasedInv, NEW e \in DOMAIN RelationshipDeltas,
                      basis[Previous].ciks = basis[Latest].ciks
               PROVE  LET both   == CoFiled(e, Previous) /\ CoFiled(e, Latest)
                          Grew   == Common(Latest, e) > Common(Previous, e) + Band
                          Shrank == Common(Previous, e) > Common(Latest, e) + Band
                      IN  /\ RelationshipDeltas[e] = "new" <=> ~CoFiled(e, Previous)
                          /\ RelationshipDeltas[e] = "dropped" <=> ~CoFiled(e, Latest)
                          /\ RelationshipDeltas[e] = "emerging" <=> both /\ Grew
                          /\ RelationshipDeltas[e] = "fading" <=> both /\ Shrank
    BY DEF DeltasTellWhoFiled
  <1>1. ~(Cardinality(Stored) < 2)
    BY DEF RelationshipDeltas
  <1>2. PICK curr, prev : curr = Latest /\ prev = Previous
    OBVIOUS
  <1>3. curr \in Stored /\ prev \in Stored
    BY <1>1, <1>2, LastTwo
  <1>4. /\ e \in DOMAIN edges[prev] \cup DOMAIN edges[curr]
        /\ RelationshipDeltas[e] = Status(prev, curr, e)
    BY <1>1, <1>2 DEF RelationshipDeltas, Latest, Previous
  <1>5. \A p \in {prev, curr} :
          /\ DOMAIN edges[p] = Pairs(DOMAIN basis[p].holdings)
          /\ DOMAIN basis[p].holdings = basis[p].filed \cap basis[p].ciks
    BY <1>3 DEF BasedInv, Based, Computed
  <1>6. Cardinality(e) = 2 /\ e \subseteq basis[curr].ciks /\ e \subseteq basis[prev].ciks
    BY <1>2, <1>4, <1>5 DEF Pairs
  <1>7. \A p \in {prev, curr} : e \in DOMAIN edges[p] <=> CoFiled(e, p)
    BY <1>5, <1>6 DEF Pairs, CoFiled
  <1>8. \A p \in {prev, curr} : CoFiled(e, p) => Weight(p, e) = Common(p, e) /\ Weight(p, e) \in Int
    BY <1>3, <1>7, WeightIs
  <1>9. Band \in Nat
    BY OwnershipAssumption DEF OwnershipAssumption
  <1> DEFINE was == CoFiled(e, prev)
             is  == CoFiled(e, curr)
  <1>10. CASE ~was \/ ~is
    BY <1>2, <1>4, <1>7, <1>10 DEF Status
  <1>11. CASE was /\ is
    <2>1. PICK w, v : w = Weight(prev, e) /\ v = Weight(curr, e)
      OBVIOUS
    <2>2. w \in Int /\ v \in Int /\ Common(prev, e) = w /\ Common(curr, e) = v
      BY <1>8, <1>11, <2>1
    <2>3. v < w - Band <=> w > v + Band
      BY <2>2, <1>9
    <2>4. ~(v > w + Band /\ w > v + Band)
      BY <2>2, <1>9
    <2>5. RelationshipDeltas[e] = IF v > w + Band THEN "emerging"
                                  ELSE IF w > v + Band THEN "fading" ELSE "stable"
      BY <1>4, <1>7, <1>11, <2>1, <2>3 DEF Status
    <2>6. QED BY <1>2, <1>11, <2>2, <2>4, <2>5
  <1>12. QED BY <1>10, <1>11

(* Between two quarters built for the same managers a pair is new or       *)
(* dropped exactly if it had filed together in one of them only, and it    *)
(* emerges or fades exactly if what it held in common grew or shrank by    *)
(* more than the band (relationship_deltas), for any lake, quarters,       *)
(* rosters and holdings.                                                   *)
THEOREM DeltasAreFilings == GraphSpec => []DeltasTellWhoFiled
  BY BasedInvariance, DeltasHold, PTL

-----------------------------------------------------------------------------
(* The links of a quarter are finitely many, and strength orders them.     *)
LEMMA LinksAre ==
  ASSUME BasedInv, NEW p \in Stored
  PROVE  /\ IsFiniteSet(Links(p)) /\ Links(p) \subseteq DOMAIN edges[p]
         /\ \A e \in Links(p) : Weight(p, e) \in Int /\ Min(e) \in Int /\ Max(e) \in Int
  <1>1. DOMAIN edges[p] \in SUBSET (SUBSET Managers)
    BY DEF BasedInv, Based, Computed, Pairs
  <1>2. IsFiniteSet(SUBSET Managers)
    BY OwnershipAssumption, FS_SUBSET DEF OwnershipAssumption
  <1>3. IsFiniteSet(Links(p)) /\ Links(p) \subseteq DOMAIN edges[p]
    BY <1>1, <1>2, FS_Subset DEF Links
  <1>4. ASSUME NEW e \in Links(p) PROVE Min(e) \in Int /\ Max(e) \in Int
    <2>1. e \in SUBSET Managers /\ Cardinality(e) = 2
      BY <1>3 DEF BasedInv, Based, Computed, Pairs
    <2>2. e # {}
      BY <2>1, FS_EmptySet
    <2>3. Min(e) \in Managers /\ Max(e) \in Managers
      BY <2>1, <2>2, LeastManager
    <2>4. \A x \in Managers : x \in Int
      BY OwnershipAssumption DEF OwnershipAssumption
    <2>5. QED BY <2>3, <2>4, Zenon
  <1>5. QED BY <1>3, <1>4, WeightIs

(* What is stronger than one of a manager's stronger ties is stronger.     *)
LEMMA StrongerOrders ==
  ASSUME BasedInv, NEW p \in Stored, NEW m, NEW e \in Links(p), NEW f \in Stronger(p, m, e)
  PROVE  Stronger(p, m, f) \subseteq Stronger(p, m, e) \ {f}
  <1>1. f \in Links(p)
    BY DEF Stronger
  <1>2. \A g \in Links(p) : Weight(p, g) \in Int /\ Min(g) \in Int /\ Max(g) \in Int
    BY LinksAre
  <1> SUFFICES ASSUME NEW g \in Stronger(p, m, f) PROVE g \in Stronger(p, m, e) /\ g # f
    OBVIOUS
  <1>3. g \in Links(p) /\ m \in g
    BY DEF Stronger
  <1>4. Weight(p, f) > Weight(p, e) \/ (Weight(p, f) = Weight(p, e) /\ Later(f, e))
    BY DEF Stronger
  <1>5. Weight(p, g) > Weight(p, f) \/ (Weight(p, g) = Weight(p, f) /\ Later(g, f))
    BY DEF Stronger
  <1>6. Later(g, f) /\ Later(f, e) => Later(g, e)
    BY <1>1, <1>2, <1>3 DEF Later
  <1>7. Weight(p, g) > Weight(p, e) \/ (Weight(p, g) = Weight(p, e) /\ Later(g, e))
    BY <1>1, <1>2, <1>3, <1>4, <1>5, <1>6
  <1>8. g # f
    BY <1>1, <1>2, <1>5 DEF Later
  <1>9. QED BY <1>3, <1>7, <1>8 DEF Stronger

(* Of a manager's ties that are as strong as one left out, TopK are kept:  *)
(* those stronger than the strongest of them that is left out.             *)
LEMMA EnoughKept ==
  ASSUME BasedInv, NEW p \in Stored, NEW e \in Links(p) \ KnnPrune(p), NEW m \in e
  PROVE  Cardinality({f \in KnnPrune(p) : m \in f /\ Weight(p, f) >= Weight(p, e)}) >= TopK
  <1> DEFINE kept == {f \in KnnPrune(p) : m \in f /\ Weight(p, f) >= Weight(p, e)}
             out  == {f \in Stronger(p, m, e) \cup {e} : f \notin KnnPrune(p)}
             w    == [f \in out |-> 0 - Cardinality(Stronger(p, m, f))]
  <1>1. IsFiniteSet(Links(p)) /\ \A f \in Links(p) : Weight(p, f) \in Int
    BY LinksAre
  <1>2. \A f : IsFiniteSet(Stronger(p, m, f)) /\ Cardinality(Stronger(p, m, f)) \in Nat
    BY <1>1, FS_Subset, FS_CardinalityType DEF Stronger
  <1>3. out \subseteq Links(p) /\ IsFiniteSet(out) /\ out # {} /\ \A f \in out : m \in f
    BY <1>1, FS_Subset DEF Stronger
  <1>4. \A f \in out : w[f] = 0 - Cardinality(Stronger(p, m, f)) /\ w[f] \in Int
    BY <1>2
  <1> HIDE DEF w
  <1>5. PICK x \in out : \A f \in out : w[f] <= w[x]
    BY <1>3, <1>4, Greatest
  <1>6. Stronger(p, m, x) \subseteq Stronger(p, m, e)
    BY <1>3, <1>5, StrongerOrders
  <1>7. Stronger(p, m, x) \subseteq KnnPrune(p)
    <2> SUFFICES ASSUME NEW f \in Stronger(p, m, x), f \notin KnnPrune(p) PROVE FALSE
      OBVIOUS
    <2>1. f \in out
      BY <1>6
    <2>2. Stronger(p, m, f) \subseteq Stronger(p, m, x) \ {f}
      BY <1>3, <1>5, StrongerOrders
    <2>3. /\ IsFiniteSet(Stronger(p, m, x) \ {f})
          /\ Cardinality(Stronger(p, m, x) \ {f}) = Cardinality(Stronger(p, m, x)) - 1
      BY <1>2, FS_RemoveElement
    <2>4. Cardinality(Stronger(p, m, f)) <= Cardinality(Stronger(p, m, x)) - 1
      BY <2>2, <2>3, FS_Subset
    <2>5. w[f] <= w[x]
      BY <1>5, <2>1
    <2>6. QED BY <1>2, <1>4, <1>5, <2>1, <2>4, <2>5
  <1>8. Stronger(p, m, x) \subseteq kept
    BY <1>1, <1>6, <1>7 DEF Stronger
  <1>9. ~(Cardinality(Stronger(p, m, x)) < TopK)
    BY <1>3, <1>5 DEF KnnPrune
  <1>10. IsFiniteSet(kept)
    BY <1>1, FS_Subset DEF KnnPrune
  <1> HIDE DEF kept, out
  <1>11. Cardinality(Stronger(p, m, x)) <= Cardinality(kept) /\ Cardinality(kept) \in Nat
    BY <1>8, <1>10, FS_Subset, FS_CardinalityType
  <1>12. TopK \in Nat
    BY OwnershipAssumption DEF OwnershipAssumption
  <1>13. Cardinality(kept) >= TopK
    BY <1>2, <1>9, <1>11, <1>12
  <1>14. QED BY <1>13 DEF kept

LEMMA PageHolds == BasedInv /\ FilesAgree => PageIsConnected
  <1> SUFFICES ASSUME BasedInv, FilesAgree, Page # Missing, NEW p \in Stored \ torn, ~Midway(p)
               PROVE  /\ UNION Page[p].links \subseteq Page[p].nodes
                      /\ \A e \in Links(p) \ Page[p].links : \A m \in e :
                           Cardinality({f \in Page[p].links :
                                          m \in f /\ Weight(p, f) >= Weight(p, e)}) >= TopK
    BY DEF PageIsConnected
  <1>1. Page[p].nodes = DOMAIN nodes[p] /\ Page[p].links = KnnPrune(p)
    BY DEF Page
  <1>2. DOMAIN edges[p] = Pairs(DOMAIN nodes[p])
    BY DEF FilesAgree
  <1>3. UNION Page[p].links \subseteq Page[p].nodes
    BY <1>1, <1>2 DEF KnnPrune, Links, Pairs
  <1>4. QED BY <1>1, <1>3, EnoughKept

(* The page never links to a manager it does not show, and a tie is left   *)
(* out only if each of its two managers keeps TopK others that are at      *)
(* least as strong (_knn_prune), whatever the weights and however many     *)
(* are equal.                                                              *)
THEOREM PageHangsTogether == GraphSpec => []PageIsConnected
  <1>1. GraphSpec => []FilesAgree
    BY FilesStayTogether
  <1>2. QED BY <1>1, BasedInvariance, PageHolds, PTL
=============================================================================
