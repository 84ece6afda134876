---------------------------- MODULE MemoryGraph -----------------------------
(***************************************************************************)
(* The memory service's pages: listings of the graph, read a page at a     *)
(* time by a count and a list that are two transactions, and exports, read *)
(* in three and written to a file named for the second they began in.  The *)
(* graph is Graphiti's, which adds to it and forgets while they read.      *)
(***************************************************************************)
EXTENDS Naturals, Sequences, FiniteSets

CONSTANTS
  Readers,        \* clients of the manager, one request at a time each
  Groups,         \* group_id
  SafeName,       \* safe_export_filename: group -> its part of a file name
  PageSize, Limit,\* rows of a page, rows of each kind in an export
  MaxAdded, MaxForgotten, MaxSeconds, MaxExports,  \* bounds
  NoReading       \* no page, no export

ASSUME GraphAssumption == PageSize \in Nat \ {0} /\ Limit \in Nat \ {0} /\ MaxSeconds \in Nat

VARIABLES
  graph,          \* what Neo4j holds, oldest first
  added, forgotten, second, exported, \* bounds and the clock
  page,           \* reader -> the listing it is paging through
  job,            \* reader -> the export it asked for
  exports,        \* exports/graphiti: the files
  answers         \* the exports that were answered: file name and what it says

graphVars == <<graph, added, forgotten, second, exported, page, job, exports, answers>>

Kinds == {"episode", "entity", "relationship"}
Episode(g, n) == [kind |-> "episode", id |-> n, group |-> g, ends |-> {}, at |-> second]
Entity(g, n) == [kind |-> "entity", id |-> n, group |-> g, ends |-> {}, at |-> second]
Relates(g, n, a, b) == [kind |-> "relationship", id |-> n, group |-> g, ends |-> {a, b}, at |-> second]
Newest(g) == {i \in DOMAIN graph : /\ graph[i].kind = "entity" /\ graph[i].group = g
                                   /\ \A j \in DOMAIN graph : graph[j].kind = "entity" /\ graph[j].group = g => j <= i}

GraphInit ==
  /\ graph = <<>> /\ added = 0 /\ forgotten = 0 /\ second = 0 /\ exported = 0
  /\ page = [r \in Readers |-> NoReading] /\ job = [r \in Readers |-> NoReading]
  /\ exports = {} /\ answers = {}

\* Graphiti ingests an episode: an entity, related to the group's last one.
Ingest(g) ==
  /\ added < MaxAdded /\ added' = added + 1
  /\ graph' = graph \o <<Episode(g, added), Entity(g, added)>>
              \o (IF Newest(g) = {} THEN <<>>
                  ELSE <<Relates(g, added, added, graph[CHOOSE i \in Newest(g) : TRUE].id)>>)
  /\ UNCHANGED <<forgotten, second, exported, page, job, exports, answers>>
\* ... and forgets a group.
Forget(g) ==
  /\ forgotten < MaxForgotten /\ forgotten' = forgotten + 1
  /\ graph' = SelectSeq(graph, LAMBDA x : x.group # g)
  /\ UNCHANGED <<added, second, exported, page, job, exports, answers>>
SecondPasses == /\ second < MaxSeconds /\ second' = second + 1
                /\ UNCHANGED <<graph, added, forgotten, exported, page, job, exports, answers>>

\* graphiti_recent_*: filtered by group and time, newest first: a row's place on the
\* pages is how many newer ones are found with it.
Matches(x, kind, f) ==
  x.kind = kind /\ (f.group # "any" => x.group = f.group) /\ x.at >= f.from /\ x.at <= f.till
Found(kind, f) == {i \in DOMAIN graph : Matches(graph[i], kind, f)}
NewerThan(i, found) == Cardinality({j \in found : j > i})
\* Mutant: the page number counts from zero.
RowsFromNext(found, n, size) ==
  {i \in found : n * size <= NewerThan(i, found) /\ NewerThan(i, found) < n * size + size}
Rows(found, n, size) ==
  {i \in found : (n - 1) * size <= NewerThan(i, found) /\ NewerThan(i, found) < n * size}
RowsAt(places) == {graph[i] : i \in places}
SetOf(l) == {l[i] : i \in DOMAIN l}
Anything == [group |-> "any", from |-> 0, till |-> MaxSeconds]

Paging(r) == page[r] # NoReading
Counted(kind, f, n, seen, stopped, still) ==
  [kind |-> kind, filter |-> f, n |-> n, at |-> "rows", short |-> FALSE,
   total |-> Cardinality(Found(kind, f)), seen |-> seen, stopped |-> stopped, still |-> still]
\* /api/graphiti/recent/<kind>: the count ...
AskPage(r) ==
  /\ job[r] = NoReading
  /\ \/ /\ ~Paging(r)
        /\ \E kind \in Kinds : \E f \in {Anything} \cup {[Anything EXCEPT !.group = g] : g \in Groups} :
             page' = [page EXCEPT ![r] = Counted(kind, f, 1, {}, FALSE, RowsAt(Found(kind, f)))]
     \/ /\ Paging(r) /\ page[r].at = "told" /\ ~page[r].short
        /\ page' = [page EXCEPT ![r] = LET p == page[r] IN
                                       Counted(p.kind, p.filter, p.n + 1, p.seen, p.stopped, p.still)]
  /\ UNCHANGED <<graph, added, forgotten, second, exported, job, exports, answers>>
\* ... and the rows.
AnswerPage(r) ==
  /\ Paging(r) /\ page[r].at = "rows"
  /\ LET p == page[r]
         rows == Rows(Found(p.kind, p.filter), p.n, PageSize)
     IN  page' = [page EXCEPT ![r] =
           [kind |-> p.kind, filter |-> p.filter, n |-> p.n, at |-> "told", short |-> Cardinality(rows) < PageSize,
            total |-> p.total, seen |-> p.seen \cup RowsAt(rows), still |-> p.still,
            stopped |-> p.stopped \/ p.n * PageSize >= p.total]]
  /\ UNCHANGED <<graph, added, forgotten, second, exported, job, exports, answers>>
LeavePage(r) == /\ Paging(r) /\ page[r].at = "told" /\ page[r].short
                /\ page' = [page EXCEPT ![r] = NoReading]
                /\ UNCHANGED <<graph, added, forgotten, second, exported, job, exports, answers>>

\* graphiti_entity_neighborhood: an optional match that finds nothing is a
\* row of nulls, and is collected.
NoRelation == [kind |-> "relationship", id |-> MaxAdded, group |-> "none", ends |-> {}, at |-> 0]
OrNone(set) == IF set = {} THEN {NoRelation} ELSE set
\* The newer entity is the source of every relation there is.
Neighborhood(e) ==
  LET related == {x \in SetOf(graph) : x.kind = "relationship" /\ e.id \in x.ends}
  IN  OrNone({x \in related : x.id = e.id}) \cup OrNone({x \in related : x.id # e.id})

Export(what, file, at, got) == [what |-> what, file |-> file, at |-> at, got |-> got]
After == [episode |-> "entity", entity |-> "relationship", relationship |-> "write"]
\* api_graphiti_export: what it asks for, and the file it will be.
AskExport(r) ==
  /\ page[r] = NoReading /\ job[r] = NoReading /\ exported < MaxExports /\ exported' = exported + 1
  /\ \E what \in {[type |-> "recent", filter |-> Anything, name |-> "all"]}
                 \cup {[type |-> "group", filter |-> [Anything EXCEPT !.group = g], name |-> SafeName[g]] : g \in Groups}
                 \cup {[type |-> "date_range", filter |-> [Anything EXCEPT !.from = t], name |-> "all"] : t \in 0..second} :
       job' = [job EXCEPT ![r] = Export(what, <<what.type, what.name, second>>, "episode", {})]
  /\ UNCHANGED <<graph, added, forgotten, second, page, exports, answers>>
\* One transaction for each kind.
ExportRead(r) ==
  /\ job[r] # NoReading /\ job[r].at \in Kinds
  /\ job' = [job EXCEPT ![r] = LET j == job[r] IN
               Export(j.what, j.file, After[j.at], j.got \cup RowsAt(Rows(Found(j.at, j.what.filter), 1, Limit)))]
  /\ UNCHANGED <<graph, added, forgotten, second, exported, page, exports, answers>>
\* export_type entity: the entity, and later its neighbourhood.
AskEntityExport(r) ==
  /\ page[r] = NoReading /\ job[r] = NoReading /\ exported < MaxExports /\ exported' = exported + 1
  /\ \E e \in {x \in SetOf(graph) : x.kind = "entity"} :
       job' = [job EXCEPT ![r] = Export([type |-> "entity", filter |-> Anything, name |-> e],
                                        <<"entity", e, second>>, "neighborhood", {e})]
  /\ UNCHANGED <<graph, added, forgotten, second, page, exports, answers>>
ExportNeighborhood(r) ==
  /\ job[r] # NoReading /\ job[r].at = "neighborhood"
  /\ LET e == job[r].what.name
     IN  IF e \in SetOf(graph)
         THEN job' = [job EXCEPT ![r] = Export(job[r].what, job[r].file, "write", job[r].got \cup Neighborhood(e))]
         ELSE job' = [job EXCEPT ![r] = NoReading]     \* Entity not found: a 500
  /\ UNCHANGED <<graph, added, forgotten, second, exported, page, exports, answers>>
\* The file is written over one of its name, and the answer links to it.
ExportWritten(r) ==
  /\ job[r] # NoReading /\ job[r].at = "write"
  /\ LET f == [name |-> job[r].file, holds |-> job[r].got]
     IN  /\ exports' = {x \in exports : x.name # f.name} \cup {f}
         /\ answers' = answers \cup {f}
  /\ job' = [job EXCEPT ![r] = NoReading]
  /\ UNCHANGED <<graph, added, forgotten, second, exported, page>>

GraphNext ==
  \/ \E g \in Groups : Ingest(g) \/ Forget(g)
  \/ SecondPasses
  \/ \E r \in Readers : AskPage(r) \/ AnswerPage(r) \/ LeavePage(r) \/ AskExport(r) \/ ExportRead(r)
                        \/ AskEntityExport(r) \/ ExportNeighborhood(r) \/ ExportWritten(r)
GraphSpec == GraphInit /\ [][GraphNext]_graphVars
-----------------------------------------------------------------------------
GraphTypeOK ==
  /\ \A i \in DOMAIN graph : graph[i].kind \in Kinds /\ graph[i].group \in Groups
  /\ \A r \in Readers : Paging(r) => page[r].kind \in Kinds /\ job[r] = NoReading
  /\ Cardinality({x.name : x \in exports}) = Cardinality(exports)

\* A reader that pages until a short page has seen all that was there when it
\* began, whatever was ingested meanwhile, until rows are forgotten: rows come
\* newest first, so what is added repeats rows and skips none.
PagesMissNothing ==
  \A r \in Readers : Paging(r) /\ page[r].short /\ forgotten = 0 => page[r].still \subseteq page[r].seen

\* (Does not hold.)  One that stops where the total says has: the count is older than the rows.
TotalMissesNothing ==
  \A r \in Readers : Paging(r) /\ page[r].stopped /\ forgotten = 0 => page[r].still \subseteq page[r].seen
\* (Does not hold.)  What an answer says a file holds is in it.
AnsweredFileStays == answers \subseteq exports
\* (Does not hold.)  No export has a relationship that is none.
NoEmptyRelation == \A f \in exports : NoRelation \notin f.holds
\* (Does not hold.)  An export of everything has both ends of each relationship it has.
EndsExported ==
  \A f \in exports : f.name[1] = "recent" =>
    \A x \in f.holds : x.kind = "relationship" =>
      x.ends \subseteq {y.id : y \in {y \in f.holds : y.kind = "entity"}}
=============================================================================
