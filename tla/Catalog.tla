------------------------------ MODULE Catalog ------------------------------
(***************************************************************************)
(* The catalog (catalog/manager.rs) and which keys an index can have       *)
(* (storage/index/factory.rs, key_encoder.rs).                             *)
(*                                                                         *)
(* The catalog is a function from the names of the tables to their schema  *)
(* and their indexes, by name: a name belongs to one index of a table, not *)
(* of the catalog.  What the tables and the indexes hold is the subject of *)
(* the module Statements.                                                  *)
(***************************************************************************)
EXTENDS Naturals, Sequences, SequencesExt, TLC

Changed(catalog) == [ok |-> TRUE, catalog |-> catalog]
Unchanged(catalog) == [ok |-> FALSE, catalog |-> catalog]

(***************************************************************************)
(* Keys                                                                    *)
(***************************************************************************)
FixedSize == "boolean" :> 1 @@ "smallint" :> 2 @@ "integer" :> 4 @@ "bigint" :> 8
             @@ "decimal" :> 8

declared_size(column) ==
  IF column.type = "varchar" THEN column.varchar_size[1] ELSE FixedSize[column.type]

\* The bytes of an encoded key; a varchar cannot be encoded.
SumOf(sizes) == FoldLeft(LAMBDA sum, size : sum + size, 0, sizes)

IsEncodable(columns) == \A i \in DOMAIN columns : columns[i].type # "varchar"

encoded_key_size(columns) == SumOf([i \in DOMAIN columns |-> declared_size(columns[i])])

\* The sizes the B+tree is compiled for.
build_one_col_index(key_size, columns) ==
  IsEncodable(columns) /\ encoded_key_size(columns) = key_size /\ key_size \in {1, 2, 4, 8}

build_two_col_index(key_size, columns) ==
  /\ IsEncodable(columns) /\ encoded_key_size(columns) = key_size
  /\ key_size \in {2, 3, 4, 5, 6, 8, 9, 10, 12, 16}

\* The columns of the key are columns of the table.
validate_key_schema(schema, key_schema, key_attrs) ==
  /\ Len(key_schema) = Len(key_attrs)
  /\ \A i \in DOMAIN key_attrs :
       key_attrs[i] \in DOMAIN schema /\ schema[key_attrs[i]].type = key_schema[i].type

build_index(schema, key_schema, key_attrs, key_size) ==
  /\ validate_key_schema(schema, key_schema, key_attrs)
  /\ \/ Len(key_schema) = 1 /\ build_one_col_index(key_size, key_schema)
     \/ Len(key_schema) = 2 /\ build_two_col_index(key_size, key_schema)

(***************************************************************************)
(* Tables and indexes                                                      *)
(***************************************************************************)
create_tbl(catalog, name, schema) ==
  IF name \in DOMAIN catalog THEN Unchanged(catalog)
  ELSE Changed(name :> [schema |-> schema, indexes |-> <<>>] @@ catalog)

\* Variant that registers the index before it is known that it can be built.
RegisteredBeforeBuilt(catalog, index, table, key_schema, key_attrs, key_size, is_pk) ==
  IF table \notin DOMAIN catalog \/ index \in DOMAIN catalog[table].indexes
  THEN Unchanged(catalog)
  ELSE [ok |-> build_index(catalog[table].schema, key_schema, key_attrs, key_size),
        catalog |-> [catalog EXCEPT ![table].indexes =
                       index :> [key_attrs |-> key_attrs, is_pk |-> is_pk] @@ @]]

create_index(catalog, index, table, key_schema, key_attrs, key_size, is_pk) ==
  IF \/ table \notin DOMAIN catalog
     \/ index \in DOMAIN catalog[table].indexes
     \/ ~build_index(catalog[table].schema, key_schema, key_attrs, key_size)
  THEN Unchanged(catalog)
  ELSE Changed([catalog EXCEPT ![table].indexes =
                  index :> [key_attrs |-> key_attrs, is_pk |-> is_pk] @@ @])

\* The keys of the indexes of every table, for the optimizer.
get_table_indexes(catalog) ==
  [table \in DOMAIN catalog |->
     {catalog[table].indexes[index].key_attrs : index \in DOMAIN catalog[table].indexes}]

=============================================================================
