------------------------------ MODULE Migrations -------------------------------
(***************************************************************************)
(* runSystemDbMigrations: every process of the system (the API, each       *)
(* worker, the command line) brings the schema up to date before anything  *)
(* else, and they start together.  MariaDB executes one statement at a     *)
(* time on a table, so a statement is a step; between the SELECT on        *)
(* information_schema and the ALTER decided on it others may alter the     *)
(* same table.  An ALTER is applied completely or refused.                 *)
(***************************************************************************)
EXTENDS Integers, FiniteSets

CONSTANTS
    Processes,
    LeaseColumns,  \* WORKFLOW_STEP_IDEMPOTENCY_PENDING_LEASE_COLUMNS
    MaxBreaks      \* bound of the lost connections

ASSUME MigrationsAssumption ==
    /\ LeaseColumns # {}
    /\ LeaseColumns \cap {"idem", "longKey", "customer", "sale", "ukCustomer",
                          "runtimeScope", "ukScope", "idxScope", "first"} = {}
    /\ MaxBreaks \in Nat

VARIABLES
    schema,  \* tables, columns, indexes and key length the database has
    at,      \* the statement each process executes next
    seen,    \* what the process's last SELECTs on information_schema returned
    breaks

migrationVars == <<schema, at, seen, breaks>>

--------------------------------------------------------------------------------
(* Schemas.  A table is created with its primary columns, which are left out. *)

ScopeParts == {"runtimeScope", "ukScope", "idxScope"}

\* 001 and 003 as they create the tables today.
IdemTable == {"idem", "longKey"} \cup LeaseColumns
SaleTable == {"sale", "ukCustomer"}

Features == IdemTable \cup {"customer"} \cup SaleTable \cup ScopeParts \cup {"first"}

UpToDate == Features \ {"ukCustomer"}

\* What earlier releases left: each migration that was ever the last one.  A table
\* made by the first release had a shorter key and no lease.
Deployed ==
    LET old == {{"idem"}, {"idem"} \cup LeaseColumns, IdemTable}
        nfe == {t \cup {"customer"} \cup SaleTable : t \in old \ {{"idem"}}}
    IN  {{}} \cup old \cup nfe
            \cup {(t \ {"ukCustomer"}) \cup ScopeParts : t \in nfe}
            \cup {UpToDate}

Statements == {"key", "widen", "idem", "lease", "addLease", "customer", "sale",
               "scopeColumn", "scopeIndexes", "alterScope", "first", "addFirst"}

MigrationsTypeOK ==
    /\ schema \subseteq Features
    /\ at \in [Processes -> Statements \cup {"down", "done"}]
    /\ seen \in [Processes -> SUBSET Features]
    /\ breaks \in 0..MaxBreaks

MigrationsInit ==
    /\ schema \in Deployed
    /\ at = [p \in Processes |-> "down"]
    /\ seen = [p \in Processes |-> {}]
    /\ breaks = 0

--------------------------------------------------------------------------------
(* Steps *)

Goto(p, statement) == at' = [at EXCEPT ![p] = statement]

Begin(p) ==
    /\ at[p] = "down"
    /\ Goto(p, "key")
    /\ UNCHANGED <<schema, seen, breaks>>

\* A SELECT that leaves a decision and nothing else.
Branch(p, here, there) ==
    /\ at[p] = here
    /\ Goto(p, there)
    /\ UNCHANGED <<schema, seen, breaks>>

SelectKey(p) ==
    Branch(p, "key", IF "idem" \in schema /\ "longKey" \notin schema THEN "widen" ELSE "idem")

WidenKey(p) ==
    /\ at[p] = "widen"
    /\ schema' = schema \cup {"longKey"}
    /\ Goto(p, "idem")
    /\ UNCHANGED <<seen, breaks>>

\* CREATE TABLE IF NOT EXISTS
Create(p, here, table, parts, there) ==
    /\ at[p] = here
    /\ schema' = IF table \in schema THEN schema ELSE schema \cup parts
    /\ Goto(p, there)
    /\ UNCHANGED <<seen, breaks>>

CreateIdem(p) == Create(p, "idem", "idem", IdemTable, "lease")
CreateCustomer(p) == Create(p, "customer", "customer", {"customer"}, "sale")
CreateSale(p) == Create(p, "sale", "sale", SaleTable, "scopeColumn")

\* An ALTER TABLE with these clauses; it is refused when a column or index it adds
\* exists or an index it drops does not, and then the process ends (SYSTEM_DB_INVALID_QUERY).
Refused(adds, drops) == adds \cap schema # {} \/ ~(drops \subseteq schema)

Alter(p, here, adds, drops, there) ==
    /\ at[p] = here
    /\ IF Refused(adds, drops)
       THEN UNCHANGED schema /\ Goto(p, "down")
       ELSE schema' = (schema \ drops) \cup adds /\ Goto(p, there)
    /\ seen' = [seen EXCEPT ![p] = {}]
    /\ UNCHANGED breaks

\* Mutant: a table with no lease column at all is left to the migration that makes it.
MissingLeaseSome(p) == IF seen[p] = {} THEN {} ELSE LeaseColumns \ seen[p]

\* Mutant: the columns are added without a look at what is there.
MissingLeaseAll(p) == LeaseColumns

MissingLease(p) == LeaseColumns \ seen[p]

SelectLease(p) ==
    /\ at[p] = "lease"
    /\ seen' = [seen EXCEPT ![p] = schema \cap LeaseColumns]
    /\ Goto(p, "addLease")
    /\ UNCHANGED <<schema, breaks>>

AddLease(p) == Alter(p, "addLease", MissingLease(p), {}, "customer")

SelectScopeColumn(p) ==
    /\ at[p] = "scopeColumn"
    /\ seen' = [seen EXCEPT ![p] = schema \cap {"runtimeScope"}]
    /\ Goto(p, "scopeIndexes")
    /\ UNCHANGED <<schema, breaks>>

SelectScopeIndexes(p) ==
    /\ at[p] = "scopeIndexes"
    /\ seen' = [seen EXCEPT ![p] = @ \cup (schema \cap {"ukCustomer", "ukScope", "idxScope"})]
    /\ Goto(p, "alterScope")
    /\ UNCHANGED <<schema, breaks>>

\* Mutant: the new unique key comes with a migration of its own.
ScopeClausesLater(p) == {"runtimeScope", "idxScope"} \ seen[p]

ScopeClauses(p) == ScopeParts \ seen[p]

AlterScope(p) ==
    Alter(p, "alterScope", ScopeClauses(p), seen[p] \cap {"ukCustomer"}, "first")

SelectFirst(p) == Branch(p, "first", IF "first" \in schema THEN "done" ELSE "addFirst")

AddFirst(p) == Alter(p, "addFirst", {"first"}, {}, "done")

\* A statement fails, applied or not; the process ends and is started again.
Break(p) ==
    /\ at[p] \in Statements
    /\ breaks < MaxBreaks
    /\ breaks' = breaks + 1
    /\ Goto(p, "down")
    /\ seen' = [seen EXCEPT ![p] = {}]
    /\ UNCHANGED schema

Migrate(p) ==
    \/ Begin(p)
    \/ SelectKey(p)
    \/ WidenKey(p)
    \/ CreateIdem(p)
    \/ SelectLease(p)
    \/ AddLease(p)
    \/ CreateCustomer(p)
    \/ CreateSale(p)
    \/ SelectScopeColumn(p)
    \/ SelectScopeIndexes(p)
    \/ AlterScope(p)
    \/ SelectFirst(p)
    \/ AddFirst(p)

MigrationsNext == \E p \in Processes : Migrate(p) \/ Break(p)

MigrationsSpec == MigrationsInit /\ [][MigrationsNext]_migrationVars

--------------------------------------------------------------------------------
(* Properties *)

\* A process that got past its migrations works on the complete schema, though others
\* may still be altering it on what they saw before, or have failed half-way.
SchemaReady == \A p \in Processes : at[p] = "done" => schema = UpToDate

\* At no moment can the same sale of a customer be inserted twice: the unique key is
\* replaced, never dropped first, whoever alters the table and with what clauses.
DuplicatesRefused == "sale" \in schema => schema \cap {"ukCustomer", "ukScope"} # {}

\* The strengthening that makes SchemaReady and DuplicatesRefused inductive: what a
\* process has passed is in the schema, and what it saw of it is still there.
Beyond(p, statements) == at[p] \in statements \cup {"done"}

AfterSale == {"scopeColumn", "scopeIndexes", "alterScope", "first", "addFirst"}

AfterIdem == {"lease", "addLease", "customer", "sale"} \cup AfterSale

Passed(p) ==
    /\ Beyond(p, AfterIdem) => "idem" \in schema
    /\ Beyond(p, {"idem"} \cup AfterIdem) /\ "idem" \in schema => "longKey" \in schema
    /\ Beyond(p, AfterIdem \ {"lease", "addLease"}) => LeaseColumns \subseteq schema
    /\ Beyond(p, {"sale"} \cup AfterSale) => "customer" \in schema
    /\ Beyond(p, AfterSale) => "sale" \in schema
    /\ Beyond(p, {"first", "addFirst"}) => ScopeParts \subseteq schema
    /\ at[p] = "done" => "first" \in schema

\* Only the old unique key is ever dropped, so a process that did not see it knows that
\* migration 004 was applied.
SeenStands(p) ==
    /\ at[p] = "addLease" => seen[p] \subseteq schema \cap LeaseColumns
    /\ at[p] \in {"scopeIndexes", "alterScope"} => seen[p] \ {"ukCustomer"} \subseteq schema
    /\ at[p] = "alterScope" => "ukCustomer" \in seen[p] \/ ScopeParts \subseteq schema

\* The changes of migration 004 are one ALTER: they are there together or not at all,
\* and the old unique key is there exactly when they are not.
ScopeWhole ==
    /\ ScopeParts \subseteq schema \/ ScopeParts \cap schema = {}
    /\ "sale" \in schema => (ScopeParts \cap schema = {} <=> "ukCustomer" \in schema)
    /\ "sale" \notin schema => schema \cap (ScopeParts \cup {"ukCustomer"}) = {}

MigrationsInv ==
    /\ MigrationsTypeOK
    /\ \A p \in Processes : Passed(p) /\ SeenStands(p)
    /\ ScopeWhole

================================================================================
