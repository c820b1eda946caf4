------------------------------ MODULE FrontEnd ------------------------------
(***************************************************************************)
(* The way of a statement from its syntax tree to what is executed         *)
(* (database.rs, query/engine.rs): it is parsed, bound to the catalog and  *)
(* planned, the plan is optimized, and DDL changes the catalog.            *)
(*                                                                         *)
(* A statement holds the mutex of the catalog from parsing through         *)
(* execution, so that one call at a time is at work; a panic poisons the   *)
(* mutex and every later call panics on it.  The rows are left out (the    *)
(* module Statements has them): what a plan comes to when it runs is open. *)
(***************************************************************************)
EXTENDS Binder, PlanMeaning, Catalog

CONSTANTS
  Texts,            \* the syntax trees a session may send, each a sequence of statements
  InitialCatalogs,  \* the catalogs to begin with
  MaxTables,        \* bounds of the model: tables, and indexes of a table
  MaxIndexes

VARIABLES
  catalog,
  poisoned,   \* a panic has poisoned the mutex
  call        \* where the call is, its text, bound statement, plan and outcome

vars == <<catalog, poisoned, call>>

Idle == [at |-> "idle", text |-> <<>>, bound |-> <<>>, plan |-> <<>>, outcome |-> "none"]

Init ==
  /\ catalog \in InitialCatalogs
  /\ poisoned = FALSE
  /\ call = Idle

\* The call is over: "refused" with an error, "panic", or else what it was for.
Finish(outcome, now) ==
  /\ call' = [now EXCEPT !.at = "done", !.outcome = outcome]
  /\ poisoned' = (poisoned \/ outcome = "panic")

FinishAtFault(faults, now) ==
  Finish(IF Head(faults) = "panic" THEN "panic" ELSE "refused", now)

IsDefinition(text) == \E i \in DOMAIN text : text[i].kind \in {"create table", "create index"}

HasRoom ==
  /\ Cardinality(DOMAIN catalog) < MaxTables
  /\ \A table \in DOMAIN catalog : Cardinality(DOMAIN catalog[table].indexes) < MaxIndexes

(***************************************************************************)
(* Parsing and binding                                                     *)
(***************************************************************************)
Bind(statement, now) ==
  \E bound \in {bind_statement(statement, catalog)} :
    IF bound.faults # <<>> THEN FinishAtFault(bound.faults, now)
    ELSE /\ call' = [now EXCEPT !.at = "bound", !.bound = bound]
         /\ UNCHANGED poisoned

ExecuteSql(text) ==
  /\ call.at = "idle"
  /\ HasRoom \/ ~IsDefinition(text)
  /\ LET now == [call EXCEPT !.text = text]
         statement == parse_sql(text)
     IN CASE poisoned            -> Finish("panic", now)
          [] statement = Refused -> Finish("refused", now)
          [] OTHER               -> Bind(statement, now)
  /\ UNCHANGED catalog

(***************************************************************************)
(* Queries and updates                                                     *)
(***************************************************************************)
IsPlannable(bound) == bound.kind \in {"select", "insert", "update", "delete"}

\* create_executor panics at an aggregate.
RECURSIVE HasAggregateNode(_)
HasAggregateNode(plan) ==
  plan.kind = "aggregate" \/ \E i \in DOMAIN children(plan) : HasAggregateNode(children(plan)[i])

ExecutePlanned ==
  /\ call.at = "bound" /\ IsPlannable(call.bound)
  /\ \E plan \in {plan_statement(call.bound)} :
       LET optimized == optimize(plan, get_table_indexes(catalog)) IN
       CASE FaultsInPlan(plan) # <<>> -> FinishAtFault(FaultsInPlan(plan), call)
         [] HasAggregateNode(plan)    -> Finish("panic", [call EXCEPT !.plan = optimized])
         [] OTHER -> /\ call' = [call EXCEPT !.at = "planned", !.plan = optimized]
                     /\ UNCHANGED poisoned
  /\ UNCHANGED catalog

\* EXPLAIN shows a plan and runs nothing; RAW is the plan before the optimizer.
ExecuteExplain ==
  /\ call.at = "bound" /\ call.bound.kind = "explain"
  /\ LET statement == call.bound.statement
         plan == plan_statement(statement)
         shown == IF call.bound.raw THEN plan ELSE optimize(plan, get_table_indexes(catalog))
     IN CASE ~IsPlannable(statement)     -> Finish("refused", call)
          [] FaultsInPlan(plan) # <<>> -> FinishAtFault(FaultsInPlan(plan), call)
          [] OTHER                     -> Finish("explained", [call EXCEPT !.plan = shown])
  /\ UNCHANGED catalog

\* What the executors make of a plan: rows, an error, or a panic at a key that
\* cannot be encoded.
Run ==
  /\ call.at = "planned"
  /\ \/ Finish("ran", call)
     \/ Finish("failed", call)
     \/ call.plan.kind \in {"insert", "update"} /\ Finish("panic", call)
  /\ UNCHANGED catalog

(***************************************************************************)
(* Definitions                                                             *)
(***************************************************************************)
\* The table stays when its primary key cannot be indexed.
ExecuteCreateTable ==
  /\ call.at = "bound" /\ call.bound.kind = "create table"
  /\ LET b == call.bound
         created == create_tbl(catalog, b.table, b.columns)
         key_schema == [i \in DOMAIN b.key_attrs |-> b.columns[b.key_attrs[i]]]
         keyed == create_index(created.catalog, b.table \o "_pk", b.table, key_schema,
                               b.key_attrs, encoded_key_size(key_schema), TRUE)
         last == IF created.ok /\ b.key_attrs # <<>> THEN keyed ELSE created
     IN /\ catalog' = last.catalog
        /\ Finish(IF last.ok THEN "defined" ELSE "refused", call)

\* Filling the index from the rows of the table may fail, or panic at a key
\* that cannot be encoded, before the index is registered.
ExecuteCreateIndex ==
  /\ call.at = "bound" /\ call.bound.kind = "create index"
  /\ LET b == call.bound
         key_schema == [i \in DOMAIN b.key_attrs |-> catalog[b.table].schema[b.key_attrs[i]]]
         indexed == create_index(catalog, b.index, b.table, key_schema, b.key_attrs,
                                 encoded_key_size(key_schema), FALSE)
     IN IF b.unique THEN Finish("refused", call) /\ UNCHANGED catalog
        ELSE \/ /\ catalog' = indexed.catalog
                /\ Finish(IF indexed.ok THEN "defined" ELSE "refused", call)
             \/ /\ indexed.ok
                /\ \E outcome \in {"failed", "panic"} : Finish(outcome, call)
                /\ UNCHANGED catalog

Return ==
  /\ call.at = "done"
  /\ call' = Idle
  /\ UNCHANGED <<catalog, poisoned>>

Next ==
  \/ \E text \in Texts : ExecuteSql(text)
  \/ ExecutePlanned
  \/ ExecuteExplain
  \/ Run
  \/ ExecuteCreateTable
  \/ ExecuteCreateIndex
  \/ Return

Spec == Init /\ [][Next]_vars

(***************************************************************************)
(* Properties                                                              *)
(***************************************************************************)
\* The tables of a FROM go by names that differ, if at all, not in case only:
\* such a name means the first of the tables.
FromsOf(ast) ==
  LET query == CASE ast.kind = "query" -> <<ast>>
                 [] ast.kind = "insert" -> ast.source
                 [] ast.kind = "explain" /\ ast.statement.kind = "query" -> <<ast.statement>>
                 [] OTHER -> <<>>
  IN IF query = <<>> \/ query[1].body.kind # "select" THEN <<>> ELSE query[1].body.from

HasPlainNames(ast) ==
  \A table \in ToSet(FromsOf(ast)) : \A f, g \in ToSet(Factors(table)) :
    f.kind = "table" /\ g.kind = "table" /\ Lower(AliasOf(f)) = Lower(AliasOf(g))
      => AliasOf(f) = AliasOf(g)

\* The plan that runs, or that EXPLAIN shows, does what the statement says:
\* the columns it reads are the ones that are named, whatever the joins, the
\* grouping, the projections that were merged, the filters that were pushed
\* down and the joins that an index was found for.
PlansMeanWhatWasWritten ==
  call.plan # <<>> /\ HasPlainNames(call.text[1])
    => WhatPlanDoes(call.plan) = WhatToDo(call.text[1], catalog)

IsUnambiguous(text) == Len(text) = 1 => HasPlainNames(text[1])

Means(text, db) == Len(text) = 1 /\ StatementIsMeaningful(text[1], db)

\* A statement gets as far as the executors, or EXPLAIN as its plan, if it has
\* a meaning and needs nothing that is still missing; it is refused only if
\* it has no meaning, and the front end panics only at what is missing.
OnlyMeaningfulStatementsRun ==
  [][LET text == call'.text
         before == call.at \in {"idle", "bound"}
     IN ~poisoned /\ call # call' /\ IsUnambiguous(text) =>
          /\ before /\ (call'.at = "planned" \/ call'.outcome \in {"explained", "defined"})
               => /\ Means(text, catalog) /\ ~IsUnfinished(text[1], catalog)
                  /\ call'.at = "planned" => ~HasNoExecutor(text[1], catalog)
          /\ before /\ call'.outcome = "refused" => ~Means(text, catalog)
          /\ before /\ call'.outcome = "panic" =>
               \/ IsUnfinished(text[1], catalog)
               \/ HasNoExecutor(text[1], catalog)
               \/ text[1].kind = "create index"]_vars

\* Every column of a table can be told apart, every index has a key of its
\* table that can be encoded, and the primary key is the index of that name.
CatalogSound ==
  \A table \in DOMAIN catalog :
    LET columns == catalog[table].schema
        indexes == catalog[table].indexes
    IN /\ \A c \in DOMAIN columns : IsPlaceIn(columns[c].name, columns)
       /\ \A index \in DOMAIN indexes :
            LET key == indexes[index].key_attrs IN
            /\ \A i \in DOMAIN key : key[i] \in DOMAIN columns
            /\ IsKeyOf([i \in DOMAIN key |-> columns[key[i]].name], columns)
            /\ indexes[index].is_pk => index = table \o "_pk"

\* A definition does what it says, or it fails and leaves the catalog as it
\* was; only a table whose primary key cannot be indexed is left without it.
DefinitionsTakeEffectOrFail ==
  [][catalog' # catalog \/ (call'.outcome = "defined" /\ call.at = "bound") =>
       LET ast == call.text[1] IN
       IF call'.outcome = "defined"
       THEN catalog' = IF ast.kind = "create table" THEN TableMeant(ast, catalog)
                       ELSE IndexMeant(ast, catalog)
       ELSE /\ call'.outcome = "refused" /\ ast.kind = "create table"
            /\ TableCanBeMade(ast, catalog)
            /\ catalog' = WithTable(ast, <<>>, catalog)]_vars

=============================================================================
