-------------------------------- MODULE Ingest --------------------------------
(***************************************************************************)
(* Filling the data lake: a pull script, and beside it the terminal, which *)
(* brings the same store up to date through DataManager.update.  Neither   *)
(* takes a lock.  A unit is a parquet file that to_parquet rewrites in     *)
(* place: while that goes on, and for ever if the process dies in it, the  *)
(* file cannot be read, which load() reports as no rows at all.            *)
(***************************************************************************)
EXTENDS PullScripts, Sequences, SequencesExt, Functions, FiniteSets

CONSTANTS
  Jobs,        \* what may run at the same time: functions from processes to
               \* scripts, each with its list of items and the span of rows
               \* it asks for
  Items,       \* instruments, managers, series
  Rows,        \* the rows a unit can have, numbers by age
  MaxFaults,   \* bound: vendor failures, crashes and failing writes
  Absent, Torn

Users == UNION {DOMAIN j : j \in Jobs}

ASSUME IngestAssumption ==
  /\ \A j \in Jobs : \A p \in DOMAIN j :
       /\ j[p].items \in Seq(Items) /\ j[p].span \in SUBSET Rows
       /\ j[p].mode \in {"extend", "replace"}
  /\ MaxFaults \in Nat
  /\ IsFiniteSet(Rows) /\ Rows # {} /\ Rows \subseteq Nat
  /\ Torn # Absent /\ \A rows \in SUBSET Rows : rows # Absent /\ rows # Torn

Entries == Items \X (1..2)

VARIABLES
  job,        \* the script of each process
  pc,         \* where each process stands
  todo,       \* the units it has still to visit: [item, unit, edition]
  tickers,    \* EdgarClient._ticker_map of the process
  answer,     \* rows fetched
  cached,     \* rows loaded to be extended
  file,       \* the store: Absent, Torn or rows
  fredAlive,  \* no cool-down after a failure
  faults,     \* faults so far
  missed,     \* history: items a running script failed on
  charged,    \* history: faults met while it ran
  held,       \* history: rows a save completed with
  excused     \* history: units a fault or the other process interfered with

vars == <<job, pc, todo, tickers, answer, cached, file, fredAlive, faults,
          missed, charged, held, excused>>

procs == <<job, todo, tickers, answer, cached>>
history == <<missed, charged, held, excused>>

Procs == DOMAIN job

WorkList(s) ==
  FlattenSeq([n \in 1..s.editions |->
    FlattenSeq([i \in DOMAIN s.items |->
      [u \in 1..s.units |-> [item |-> s.items[i], unit |-> u, edition |-> n]]])])

Has(e)  == file[e] # Absent
RowsOf(e) == {r \in Rows : file[e] \notin {Absent, Torn} /\ r \in file[e]}

(* Both passes of the minute pull fill one file.                           *)
EntryOf(s, w) == <<w.item, IF s.store = "minutes" THEN 1 ELSE w.unit>>

Now(p) == Head(todo[p])
At(p)  == EntryOf(job[p], Now(p))

Init ==
  /\ job \in Jobs
  /\ pc = [p \in Procs |-> "next"]
  /\ todo = [p \in Procs |-> WorkList(job[p])]
  /\ tickers = [p \in Procs |-> "unloaded"]
  /\ answer = [p \in Procs |-> {}]
  /\ cached = [p \in Procs |-> {}]
  /\ \E old \in {Absent, Oldest(Rows), Newest(Rows)} : file = [e \in Entries |-> old]
  /\ fredAlive = TRUE
  /\ faults = 0
  /\ missed = [p \in Procs |-> {}]
  /\ charged = [p \in Procs |-> 0]
  /\ held = [e \in Entries |-> RowsOf(e)]
  /\ excused = {}

Goto(p, where) == pc' = [pc EXCEPT ![p] = where]

Fault(p) ==
  /\ faults < MaxFaults
  /\ faults' = faults + 1
  /\ charged' = [charged EXCEPT ![p] = @ + 1]

-----------------------------------------------------------------------------
(* The loop of a script.                                                   *)
AfterUnit(p)  == Tail(todo[p])
AfterItem(p)  == SelectSeq(todo[p], LAMBDA w : w.item # Now(p).item)

(* Where a script stands after a unit that raised nothing: at the next,    *)
(* unless it then reads update's count as a list of reports, which raises  *)
(* TypeError.                                                              *)
Onward(p) ==
  IF job[p].reports = "each" \/ (job[p].reports = "end" /\ Len(todo[p]) = 1)
    THEN "aborted" ELSE "next"

SkipsItems(p) == job[p].skips /\ \E u \in 1..2 : Has(<<Now(p).item, u>>)
                                               \* mutant: one unit stands for all
Skips(p) == job[p].skips /\ Has(At(p))

Skip(p) ==
  /\ pc[p] = "next" /\ todo[p] # <<>> /\ Skips(p)
  /\ todo' = [todo EXCEPT ![p] = AfterUnit(p)]
  /\ UNCHANGED <<job, pc, tickers, answer, cached, file, fredAlive, faults, history>>

(* fred_series() answers nothing during the cool-down.                     *)
Unreachable(p) == job[p].source = "fred" /\ ~fredAlive

(* ticker_to_cik(): the map is kept only once it was fetched, so that a    *)
(* failure is forgotten with the lookup that met it.                       *)
LatchedMap(t, ok) == IF t # "unloaded" THEN t ELSE IF ok THEN "loaded" ELSE "empty"
                                               \* mutant: caches the failure
TickerMap(t, ok) == IF t = "unloaded" /\ ok THEN "loaded" ELSE t

Looked(p, ok) ==
  tickers' = [tickers EXCEPT ![p] = IF job[p].source = "edgar" THEN TickerMap(@, ok) ELSE @]

(* The span of the caller; of the minutes, what lies before or after the   *)
(* rows stored, and everything when there are none.                        *)
Asked(p) ==
  LET stored == RowsOf(At(p))
      pass == IF Now(p).unit = 1 THEN {r \in Rows : stored # {} /\ \A s \in stored : r < s}
              ELSE {r \in Rows : \A s \in stored : s < r}
  IN  IF job[p].store = "minutes" THEN job[p].span \cap pass ELSE job[p].span

Asking(p) == pc[p] = "next" /\ todo[p] # <<>> /\ ~Skips(p)

(* An empty answer is not saved.                                           *)
Receive(p, rows) ==
  /\ answer' = [answer EXCEPT ![p] = rows]
  /\ IF rows = {} THEN /\ todo' = [todo EXCEPT ![p] = AfterUnit(p)]
                       /\ Goto(p, Onward(p))
     ELSE Goto(p, "load") /\ UNCHANGED todo
  /\ UNCHANGED <<job, cached, file, held, excused>>

Fetch(p) ==
  /\ Asking(p)
  /\ tickers[p] # "empty"
  /\ Looked(p, TRUE)
  /\ Receive(p, IF Unreachable(p) THEN {} ELSE Whole(job[p], Asked(p), Now(p).edition))
  /\ UNCHANGED <<fredAlive, faults, charged, missed>>

(* Trouble the provider turns into a shorter answer.                       *)
FetchFewer(p) ==
  /\ Asking(p) /\ "call" \in job[p].ends /\ ~Unreachable(p)
  /\ Fault(p)
  /\ fredAlive' = (job[p].source # "fred" /\ fredAlive)
  /\ \E rows \in Fewer(job[p], Asked(p)) : Receive(p, rows)
  /\ UNCHANGED <<tickers, missed>>

Missed(p) == missed' = [missed EXCEPT ![p] = @ \cup {Now(p).item}]

(* An exception that reaches the script.                                   *)
Raised(p) ==
  \/ /\ "unit" \in job[p].ends
     /\ Goto(p, "next") /\ todo' = [todo EXCEPT ![p] = AfterUnit(p)] /\ Missed(p)
  \/ /\ "item" \in job[p].ends
     /\ Goto(p, "next") /\ todo' = [todo EXCEPT ![p] = AfterItem(p)] /\ Missed(p)
  \/ /\ "script" \in job[p].ends
     /\ Goto(p, "aborted") /\ UNCHANGED <<todo, missed>>

FetchRaises(p) ==
  /\ Asking(p) /\ job[p].ends # {"call"}
  /\ IF tickers[p] = "empty" THEN UNCHANGED <<faults, charged>> ELSE Fault(p)
  /\ Looked(p, FALSE)
  /\ Raised(p)
  /\ UNCHANGED <<job, answer, cached, file, fredAlive, held, excused>>

-----------------------------------------------------------------------------
(* Saving: load, then rewrite the file with the fresh rows last.           *)
Overlap(p) ==
  \E q \in Procs \ {p} : pc[q] \in {"load", "write", "commit"} /\ At(q) = At(p)

Excuse(p, when) == excused' = IF when THEN excused \cup {At(p)} ELSE excused

Load(p) ==
  /\ pc[p] = "load"
  /\ cached' = [cached EXCEPT ![p] = IF job[p].mode = "extend" THEN RowsOf(At(p)) ELSE {}]
  /\ Goto(p, "write")
  /\ Excuse(p, Overlap(p))
  /\ UNCHANGED <<job, todo, tickers, answer, file, fredAlive, faults, missed,
                 charged, held>>

FreshOnly(old, fresh) == fresh                 \* mutant: forgets the cached history

Merge(old, fresh) == old \cup fresh

BeginWrite(p) ==
  /\ pc[p] = "write"
  /\ file' = [file EXCEPT ![At(p)] = Torn]
  /\ Goto(p, "commit")
  /\ Excuse(p, Overlap(p))
  /\ UNCHANGED <<procs, fredAlive, faults, missed, charged, held>>

Saved(p) ==
  /\ todo' = [todo EXCEPT ![p] = AfterUnit(p)]
  /\ answer' = [answer EXCEPT ![p] = {}]
  /\ cached' = [cached EXCEPT ![p] = {}]
  /\ Goto(p, Onward(p))

Commit(p) ==
  /\ pc[p] = "commit"
  /\ file' = [file EXCEPT ![At(p)] = Merge(cached[p], answer[p])]
  /\ held' = [held EXCEPT ![At(p)] =
       IF At(p) \in excused \/ job[p].mode = "replace" THEN file'[At(p)] ELSE @ \cup answer[p]]
  /\ excused' = IF Overlap(p) THEN excused ELSE excused \ {At(p)}
  /\ Saved(p)
  /\ UNCHANGED <<job, tickers, fredAlive, faults, missed, charged>>

(* to_parquet raises: the store swallows it, with the file as it is then.  *)
WriteFails(p) ==
  /\ pc[p] = "commit"
  /\ Fault(p)
  /\ Excuse(p, TRUE)
  /\ Saved(p)
  /\ UNCHANGED <<job, tickers, file, fredAlive, missed, held>>

Finish(p) ==
  /\ pc[p] = "next" /\ todo[p] = <<>>
  /\ Goto(p, IF job[p].editions = 0 THEN "aborted" ELSE "done")
  /\ UNCHANGED <<procs, file, fredAlive, faults, history>>

(* A stream ends on a signal: once the symbol at hand is saved, no other   *)
(* is polled.                                                              *)
Stopped(p) ==
  /\ job[p].source = "tape" /\ pc[p] = "next" /\ todo[p] # <<>>
  /\ todo' = [todo EXCEPT ![p] = <<>>]
  /\ UNCHANGED <<job, tickers, answer, cached, pc, file, fredAlive, faults, history>>

(* The process dies; in a write, it leaves the file torn.                  *)
Crash(p) ==
  /\ pc[p] \notin {"done", "aborted", "dead"}
  /\ Fault(p)
  /\ Excuse(p, pc[p] = "commit")
  /\ Goto(p, "dead")
  /\ todo' = [todo EXCEPT ![p] = <<>>]
  /\ answer' = [answer EXCEPT ![p] = {}]
  /\ cached' = [cached EXCEPT ![p] = {}]
  /\ UNCHANGED <<job, tickers, file, fredAlive, missed, held>>

(* Started again, by hand, by a schedule or by the terminal.               *)
Rerun(p) ==
  /\ pc[p] \in {"done", "aborted", "dead"}
  /\ Goto(p, "next")
  /\ todo' = [todo EXCEPT ![p] = WorkList(job[p])]
  /\ tickers' = [tickers EXCEPT ![p] = "unloaded"]
  /\ missed' = [missed EXCEPT ![p] = {}]
  /\ charged' = [charged EXCEPT ![p] = 0]
  /\ UNCHANGED <<job, answer, cached, file, fredAlive, faults, held, excused>>


CoolDownEnds ==
  /\ ~fredAlive
  /\ fredAlive' = TRUE
  /\ UNCHANGED <<procs, pc, file, faults, history>>

Work(p) == Skip(p) \/ Fetch(p) \/ Load(p) \/ BeginWrite(p) \/ Commit(p) \/ Finish(p)

Trouble(p) == FetchFewer(p) \/ FetchRaises(p) \/ WriteFails(p) \/ Crash(p)

Next == CoolDownEnds \/ \E p \in Procs : Work(p) \/ Trouble(p) \/ Stopped(p) \/ Rerun(p)

Spec == Init /\ [][Next]_vars

(* A process that is started goes on, and it is started again and again;   *)
(* the cool-down is a matter of time.                                      *)
FairSpec ==
  /\ Spec
  /\ WF_vars(CoolDownEnds)
  /\ \A p \in Users : /\ WF_vars(p \in Procs /\ Work(p))
                      /\ WF_vars(p \in Procs /\ Rerun(p))

-----------------------------------------------------------------------------
(* Rows that were once saved stay readable, through every later update,    *)
(* crash-free or not, of any unit on which no write failed, no process     *)
(* died while writing and no two processes worked at once; the scripts     *)
(* that replace a file set anew what is to be kept, and only they drop     *)
(* rows (DataManager.update, DataStore.save, the append-only stores).      *)
HistoryKept ==
  \A e \in Entries :
    \/ e \in excused
    \/ file[e] = Torn /\ \E p \in Procs : pc[p] = "commit" /\ At(p) = e
    \/ held[e] \subseteq RowsOf(e)

(* A script that catches the exceptions of its units or items loses to     *)
(* each failure at most the item it happened on: neither the rest of the   *)
(* list nor, through a provider that remembers it, a later item.  It is    *)
(* about exceptions: a script that ends with one, and the empty answers of *)
(* FRED's cool-down, miss items that are not counted here                  *)
(* (the try blocks of the pull scripts, EdgarClient._load_ticker_map).     *)
OneFaultOneItem == \A p \in Procs : Cardinality(missed[p]) <= charged[p]

Wanted(p) == {EntryOf(job[p], w) : w \in Range(WorkList(job[p]))}

(* A stored span of minutes grows at its two ends only.                    *)
Promised(s) ==
  IF s.store = "minutes" THEN Oldest(s.span) \cup Newest(s.span)
  ELSE Whole(s, s.span, s.editions)

Complete(e) == \A p \in Procs : e \in Wanted(p) => Promised(job[p]) \subseteq RowsOf(e)


(* A script that skips what is there fetches, when it is run again and     *)
(* again, every unit that is not: after failures, aborted lists and        *)
(* crashes, each unit that had no file can in the end be read, unless a    *)
(* write of it was disturbed, for such a script never looks at it again    *)
(* (DataManager.get, FundamentalsStore.has, HoldingsStore.has).            *)
SkippersFetchMissing ==
  \A e \in Entries :
    (file[e] = Absent /\ \E p \in Procs : job[p].skips /\ e \in Wanted(p))
      => []<>(e \in excused \/ RowsOf(e) # {})
=============================================================================
