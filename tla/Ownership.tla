------------------------------ MODULE Ownership ------------------------------
(***************************************************************************)
(* The 13F manager graph (ownership/): builders that turn the holdings     *)
(* lake into one edge file and one node file per quarter, the pulls that   *)
(* go on beside them, and the readers.  There are two builders, the script *)
(* with its roster and the command line without one; neither knows of the  *)
(* other, and either can stop between its two files.                       *)
(*                                                                         *)
(* Overlap metrics are kept where they are whole numbers: the cosine is    *)
(* positive exactly when a CUSIP is shared, and shared_usd stands for the  *)
(* weight of a tie.                                                        *)
(***************************************************************************)
EXTENDS Integers, FiniteSets, FiniteSetsExt, Functions

CONSTANTS
  Managers, Periods, Cusips,
  Books,        \* holdings that may be filed: value by CUSIP
  Lakes,        \* what is filed already: <<manager, period>> -> book
  Rosters,      \* contents of managers_13f_top100.yaml
  MaxPulls,     \* bound: holdings pulled and rosters written beside the builders
  Band,         \* change of a weight that is not noise
  Floor,        \* weight below which the dashboard drops a tie
  TopK,         \* ties the dashboard keeps per manager
  Missing

ASSUME OwnershipAssumption ==
  /\ Periods \subseteq Nat /\ Managers \subseteq Nat /\ Books \subseteq [Cusips -> Nat]
  /\ \A l \in Lakes : DOMAIN l \subseteq Managers \X Periods /\ Range(l) \subseteq [Cusips -> Nat]
  /\ IsFiniteSet(Managers) /\ IsFiniteSet(Periods) /\ IsFiniteSet(Cusips)
  /\ Rosters \subseteq SUBSET Managers /\ MaxPulls \in Nat /\ Band \in Nat /\ Floor \in Nat /\ TopK \in Nat \ {0}

Builders == {"script", "cli"}

VARIABLES
  lake,         \* <<manager, period>> -> [book, filed] or Absent
  pulls,        \* so many pulls ago the story began: the calendar
  roster,
  build,        \* builder -> [at, rows, ciks, todo, got, nodes]
  edges, nodes, \* the two directories: period -> contents or Absent
  basis,        \* history: what the edges of a period were computed from
  torn          \* history: periods whose two files are of different builds

graphVars == <<lake, pulls, roster, build, edges, nodes, basis, torn>>
files == <<edges, nodes, basis, torn>>

Nothing == [x \in {} |-> Missing]

Idle == [at |-> "idle", rows |-> Nothing, ciks |-> {}, todo |-> {}, got |-> Nothing,
         nodes |-> Missing]

GraphInit ==
  /\ \E old \in Lakes :
       lake = [x \in Managers \X Periods |->
                 IF x \in DOMAIN old THEN [book |-> old[x], filed |-> 0] ELSE Missing]
  /\ pulls = 0
  /\ roster \in Rosters
  /\ build = [b \in Builders |-> Idle]
  /\ edges = [p \in Periods |-> Missing] /\ nodes = edges
  /\ basis = edges /\ torn = {}

-----------------------------------------------------------------------------
(* ownership/graph.py                                                      *)
Positions(book) == {c \in Cusips : book[c] > 0}

EdgeMetrics(a, b) ==
  LET common == Positions(a) \cap Positions(b)
  IN  [shared_n   |-> Cardinality(common),
       shared_usd |-> SumFunction([c \in common |-> IF a[c] < b[c] THEN a[c] ELSE b[c]])]

Pairs(ciks) == {e \in SUBSET ciks : Cardinality(e) = 2}

(* Who filed, by the catalogue a builder read, and whom of them it takes.  *)
Catalogued(s, p) == {m \in Managers : <<m, p>> \in DOMAIN s.rows}
Filers(s, p)     == Catalogued(s, p) \cap s.ciks

FiledLater(rows, e, p) == Max({rows[<<m, p>>] : m \in e})

(* The catalogue tells when a manager filed; what, the lake told later.    *)
EdgesOf(s, p) ==
  [e \in Pairs(DOMAIN s.got) |->
    LET a == CHOOSE m \in e : TRUE
        b == CHOOSE m \in e : m # a
    IN  [metrics |-> EdgeMetrics(s.got[a].book, s.got[b].book),
         filed   |-> FiledLater(s.rows, e, p)]]

(* ownership/metrics.py: ties of positive weight, and their sum.           *)
Ties(links, m) == {e \in DOMAIN links : m \in e /\ links[e].metrics.shared_n > 0}

NodesOfEveryEdge(links, ciks) ==                \* mutant: counts ties of weight zero
  [m \in ciks |->
    [degree |-> Cardinality({e \in DOMAIN links : m \in e}),
     weight |-> SumFunction([e \in Ties(links, m) |-> links[e].metrics.shared_usd])]]

NodeMetrics(links, ciks) ==
  [m \in ciks |->
    [degree |-> Cardinality(Ties(links, m)),
     weight |-> SumFunction([e \in Ties(links, m) |-> links[e].metrics.shared_usd])]]

-----------------------------------------------------------------------------
(* A pull writes a manager's quarter, for the first time or amended.       *)
Pull ==
  /\ pulls < MaxPulls
  /\ pulls' = pulls + 1
  /\ \E m \in Managers, p \in Periods, book \in Books :
       lake' = [lake EXCEPT ![<<m, p>>] = [book |-> book, filed |-> pulls + 1]]
  /\ UNCHANGED <<roster, build, files>>

(* pull_13f_bulk.py ranks the managers anew.                               *)
Rank ==
  /\ pulls < MaxPulls
  /\ pulls' = pulls + 1
  /\ roster' \in Rosters \ {roster}
  /\ UNCHANGED <<lake, build, files>>

Moves(b, state) == build' = [build EXCEPT ![b] = state]

(* build_all() reads the catalogue once; only the script restricts it.     *)
Roster(b) == IF b = "script" /\ roster # {} THEN roster ELSE Managers

Start(b) ==
  /\ build[b].at = "idle"
  /\ LET cat  == {x \in DOMAIN lake : lake[x] # Missing}
         seen == {x \in cat : x[1] \in Roster(b)}
     IN  /\ seen # {}
         /\ Moves(b, [Idle EXCEPT !.at = "edges", !.rows = [x \in cat |-> lake[x].filed],
                                  !.ciks = Roster(b), !.todo = {x[2] : x \in seen}])
  /\ UNCHANGED <<lake, pulls, roster, files>>

Midway(p) == \E b \in Builders : build[b].at = "nodes" /\ Min(build[b].todo) = p

Unread(s) == Filers(s, Min(s.todo)) \ DOMAIN s.got

(* build_snapshot() loads the holdings manager by manager.                 *)
LoadHoldings(b) ==
  /\ build[b].at = "edges" /\ Unread(build[b]) # {}
  /\ LET s == build[b]
         m == Min(Unread(s))
     IN  Moves(b, [s EXCEPT !.got = [k \in DOMAIN s.got \cup {m} |->
           IF k = m THEN lake[<<m, Min(s.todo)>>] ELSE s.got[k]]])
  /\ UNCHANGED <<lake, pulls, roster, files>>

SaveEdges(b) ==
  /\ build[b].at = "edges" /\ Unread(build[b]) = {}
  /\ LET s     == build[b]
         p     == Min(s.todo)
         links == EdgesOf(s, p)
     IN  /\ edges' = [edges EXCEPT ![p] = links]
         /\ Moves(b, [s EXCEPT !.at = "nodes", !.got = Nothing,
                               !.nodes = NodeMetrics(links, DOMAIN s.got)])
         /\ basis' = [basis EXCEPT ![p] = [ciks |-> s.ciks, filed |-> Catalogued(s, p),
                                           holdings |-> s.got]]
         /\ torn' = IF Midway(p) THEN torn \cup {p} ELSE torn \ {p}
  /\ UNCHANGED <<lake, pulls, roster, nodes>>

SaveNodes(b) ==
  /\ build[b].at = "nodes"
  /\ LET p    == Min(build[b].todo)
         left == build[b].todo \ {p}
     IN  /\ nodes' = [nodes EXCEPT ![p] = build[b].nodes]
         /\ Moves(b, IF left = {} THEN Idle
                     ELSE [build[b] EXCEPT !.at = "edges", !.todo = left, !.nodes = Missing])
  /\ UNCHANGED <<lake, pulls, roster, edges, basis, torn>>

Dies(b) ==
  /\ build[b].at # "idle"
  /\ torn' = IF build[b].at = "nodes" THEN torn \cup {Min(build[b].todo)} ELSE torn
  /\ Moves(b, Idle)
  /\ UNCHANGED <<lake, pulls, roster, edges, nodes, basis>>

-----------------------------------------------------------------------------
GraphNext ==
  \/ Pull \/ Rank
  \/ \E b \in Builders : Start(b) \/ LoadHoldings(b) \/ SaveEdges(b) \/ SaveNodes(b) \/ Dies(b)

GraphSpec == GraphInit /\ [][GraphNext]_graphVars

-----------------------------------------------------------------------------
(* The readers go by the edge files.                                       *)
Stored == {p \in Periods : edges[p] # Missing}

Weight(p, e) == edges[p][e].metrics.shared_usd

(* to_node_link() drops the light ties; _knn_prune() then keeps of each    *)
(* manager's the strongest, and of equals those later in the edge file,    *)
(* which lists the pairs in ascending order.                               *)
Links(p) == {e \in DOMAIN edges[p] : Weight(p, e) >= Floor}

Later(e, f) == Min(e) > Min(f) \/ (Min(e) = Min(f) /\ Max(e) > Max(f))

Stronger(p, m, e) ==
  {f \in Links(p) : m \in f /\ (Weight(p, f) > Weight(p, e)
                                \/ (Weight(p, f) = Weight(p, e) /\ Later(f, e)))}

StrongestForBoth(p) ==                        \* mutant: intersection over the endpoints
  {e \in Links(p) : \A m \in e : Cardinality(Stronger(p, m, e)) < TopK}

KnnPrune(p) ==
  {e \in Links(p) : \E m \in e : Cardinality(Stronger(p, m, e)) < TopK}

(* dashboard_data(); write_dashboard() raises on a quarter that has no     *)
(* node file.                                                              *)
Page ==
  IF \E p \in Stored : nodes[p] = Missing THEN Missing
  ELSE [p \in Stored |-> [nodes |-> DOMAIN nodes[p], links |-> KnnPrune(p)]]

(* relationship_deltas() of the last two quarters.                         *)
NoTieIsNoEdge(prev, curr, e) ==               \* mutant: an edge of weight zero counts as missing
  LET was == e \in DOMAIN edges[prev] /\ Weight(prev, e) > 0
      is  == e \in DOMAIN edges[curr] /\ Weight(curr, e) > 0
  IN  IF ~was THEN "new" ELSE IF ~is THEN "dropped"
      ELSE IF Weight(curr, e) > Weight(prev, e) + Band THEN "emerging"
      ELSE IF Weight(curr, e) < Weight(prev, e) - Band THEN "fading" ELSE "stable"

Status(prev, curr, e) ==
  IF e \notin DOMAIN edges[prev] THEN "new"
  ELSE IF e \notin DOMAIN edges[curr] THEN "dropped"
  ELSE IF Weight(curr, e) > Weight(prev, e) + Band THEN "emerging"
  ELSE IF Weight(curr, e) < Weight(prev, e) - Band THEN "fading"
  ELSE "stable"

RelationshipDeltas ==
  IF Cardinality(Stored) < 2 THEN [e \in {} |-> "stable"]
  ELSE LET curr == Max(Stored)
           prev == Max(Stored \ {curr})
       IN  [e \in DOMAIN edges[prev] \cup DOMAIN edges[curr] |-> Status(prev, curr, e)]

-----------------------------------------------------------------------------
(* The two files of a quarter tell of the same graph, except between the   *)
(* two saves, after a builder died there and where builders met; the next  *)
(* build that is left alone repairs it (build_all).                        *)
FilesAgree ==
  \A p \in Stored \ torn :
    \/ Midway(p)
    \/ /\ DOMAIN edges[p] = Pairs(DOMAIN nodes[p])
       /\ \A m \in DOMAIN nodes[p] : nodes[p][m].degree = Cardinality(Ties(edges[p], m))

Latest   == Max(Stored)
Previous == Max(Stored \ {Latest})

(* What the two managers of a pair held in common when a quarter was built. *)
Common(p, e) ==
  LET a == CHOOSE m \in e : TRUE
      b == CHOOSE m \in e : m # a
  IN  EdgeMetrics(basis[p].holdings[a].book, basis[p].holdings[b].book).shared_usd

CoFiled(e, p) == e \subseteq basis[p].filed

(* Between two quarters built for the same managers a pair is new exactly  *)
(* if it had not filed together, as far as the lake told when the earlier  *)
(* one was built, dropped if it no longer did, and it emerges or fades     *)
(* exactly if what it held in common grew or shrank by more than the band: *)
(* whoever happens to share nothing is neither new nor dropped             *)
(* (relationship_deltas).                                                  *)
DeltasTellWhoFiled ==
  \A e \in DOMAIN RelationshipDeltas :
    basis[Previous].ciks = basis[Latest].ciks =>
      LET both   == CoFiled(e, Previous) /\ CoFiled(e, Latest)
          Grew   == Common(Latest, e) > Common(Previous, e) + Band
          Shrank == Common(Previous, e) > Common(Latest, e) + Band
      IN  /\ RelationshipDeltas[e] = "new" <=> ~CoFiled(e, Previous)
          /\ RelationshipDeltas[e] = "dropped" <=> ~CoFiled(e, Latest)
          /\ RelationshipDeltas[e] = "emerging" <=> both /\ Grew
          /\ RelationshipDeltas[e] = "fading" <=> both /\ Shrank

(* The page never links to a manager it does not show, and a tie is left   *)
(* out only if each of its two managers keeps TopK others that are at      *)
(* least as strong: nobody loses its tightest ties (_knn_prune: union over *)
(* both endpoints).                                                        *)
PageIsConnected ==
  Page # Missing =>
    \A p \in Stored \ torn : ~Midway(p) =>
      /\ UNION Page[p].links \subseteq Page[p].nodes
      /\ \A e \in Links(p) \ Page[p].links : \A m \in e :
           Cardinality({f \in Page[p].links : m \in f /\ Weight(p, f) >= Weight(p, e)}) >= TopK
=============================================================================
