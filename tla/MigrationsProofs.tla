---------------------------- MODULE MigrationsProofs ----------------------------
(***************************************************************************)
(* Theorems about the migrations, for every set of processes that run them *)
(* at the same time, every set of lease columns and number of failures.    *)
(***************************************************************************)
EXTENDS Migrations, TLAPS

LEMMA SchemaInitInv == MigrationsInit => MigrationsInv
<1> SUFFICES ASSUME MigrationsInit PROVE MigrationsInv
  OBVIOUS
<1> USE MigrationsAssumption DEF MigrationsInit
<1>1. schema \subseteq Features /\ ScopeWhole
  BY DEF Deployed, UpToDate, Features, IdemTable, SaleTable, ScopeParts, ScopeWhole
<1>2. MigrationsTypeOK
  BY <1>1 DEF MigrationsTypeOK
<1>3. \A p \in Processes : Passed(p) /\ SeenStands(p)
  BY DEF Passed, SeenStands, Beyond, AfterIdem, AfterSale
<1>4. QED
  BY <1>1, <1>2, <1>3 DEF MigrationsInv

\* What a process knows of the schema survives the steps of the others: nothing but the
\* old unique key is ever dropped, and the table of 001 is made with its long key.
LEMMA KnowledgeStands ==
    ASSUME MigrationsInv, NEW q \in Processes,
           at'[q] = at[q], seen'[q] = seen[q],
           schema \ {"ukCustomer"} \subseteq schema',
           "idem" \in schema' => "idem" \in schema \/ "longKey" \in schema'
    PROVE  Passed(q)' /\ SeenStands(q)'
<1>1. Passed(q) /\ SeenStands(q)
  BY DEF MigrationsInv
<1>2. "ukCustomer" \notin LeaseColumns
  BY MigrationsAssumption
<1>3. Passed(q)'
  BY <1>1, <1>2 DEF Passed, Beyond, ScopeParts
<1>4. SeenStands(q)'
  BY <1>1, <1>2 DEF SeenStands, ScopeParts
<1>5. QED
  BY <1>3, <1>4

\* A step that leaves the unique keys and the scope alone keeps ScopeWhole.
LEMMA ScopeUntouched ==
    ASSUME MigrationsInv,
           schema' \cap (ScopeParts \cup {"ukCustomer"}) = schema \cap (ScopeParts \cup {"ukCustomer"}),
           "sale" \in schema' <=> "sale" \in schema
    PROVE  ScopeWhole'
  BY DEF MigrationsInv, ScopeWhole, ScopeParts

\* The invariant is kept when it is kept for the process that moves.
LEMMA OneProcessMoves ==
    ASSUME MigrationsInv, NEW p \in Processes, NEW there \in Statements \cup {"down", "done"},
           Goto(p, there), MigrationsTypeOK',
           \A q \in Processes \ {p} : seen'[q] = seen[q],
           schema \ {"ukCustomer"} \subseteq schema',
           "idem" \in schema' => "idem" \in schema \/ "longKey" \in schema',
           Passed(p)', SeenStands(p)', ScopeWhole'
    PROVE  MigrationsInv'
<1>1. ASSUME NEW q \in Processes PROVE Passed(q)' /\ SeenStands(q)'
  <2>1. CASE q = p
    BY <2>1
  <2>2. CASE q # p
    <3>1. at'[q] = at[q] /\ seen'[q] = seen[q]
      BY <2>2 DEF Goto, MigrationsInv, MigrationsTypeOK
    <3>2. QED
      BY <3>1, KnowledgeStands
  <2>3. QED
    BY <2>1, <2>2
<1>2. QED
  BY <1>1 DEF MigrationsInv

--------------------------------------------------------------------------------
(* The actions, by what they do to the schema *)

LEMMA BranchInv ==
    ASSUME MigrationsInv, NEW p \in Processes, NEW here \in Statements \cup {"down"},
           NEW there \in Statements \cup {"down", "done"}, Branch(p, here, there),
           Passed(p)', SeenStands(p)'
    PROVE  MigrationsInv'
<1>1. MigrationsTypeOK'
  BY DEF MigrationsInv, MigrationsTypeOK, Branch, Goto
<1>2. ScopeWhole'
  BY ScopeUntouched DEF Branch
<1>3. Goto(p, there) /\ schema' = schema /\ seen' = seen
  BY DEF Branch
<1>4. QED
  BY <1>1, <1>2, <1>3, OneProcessMoves

LEMMA SelectKeyInv ==
    ASSUME MigrationsInv, NEW p \in Processes, SelectKey(p)
    PROVE  MigrationsInv'
<1> DEFINE there == IF "idem" \in schema /\ "longKey" \notin schema THEN "widen" ELSE "idem"
<1>1. Branch(p, "key", there) /\ there \in Statements
  BY DEF SelectKey, Statements
<1>2. at'[p] = there /\ schema' = schema
  BY <1>1 DEF Branch, Goto, MigrationsInv, MigrationsTypeOK
<1>3. Passed(p)' /\ SeenStands(p)'
  BY <1>2 DEF Passed, SeenStands, Beyond, AfterIdem, AfterSale
<1>4. "key" \in Statements
  BY DEF Statements
<1>5. QED
  BY <1>1, <1>3, <1>4, BranchInv

LEMMA SelectFirstInv ==
    ASSUME MigrationsInv, NEW p \in Processes, SelectFirst(p)
    PROVE  MigrationsInv'
<1> DEFINE there == IF "first" \in schema THEN "done" ELSE "addFirst"
<1>1. Branch(p, "first", there) /\ there \in Statements \cup {"done"}
  BY DEF SelectFirst, Statements
<1>2. at[p] = "first" /\ at'[p] = there /\ schema' = schema
  BY <1>1 DEF Branch, Goto, MigrationsInv, MigrationsTypeOK
<1>3. Passed(p)
  BY DEF MigrationsInv
<1>4. Passed(p)' /\ SeenStands(p)'
  BY <1>2, <1>3 DEF Passed, SeenStands, Beyond, AfterIdem, AfterSale
<1>5. "first" \in Statements
  BY DEF Statements
<1>6. QED
  BY <1>1, <1>4, <1>5, BranchInv

LEMMA BeginInv ==
    ASSUME MigrationsInv, NEW p \in Processes, Begin(p)
    PROVE  MigrationsInv'
<1>1. Branch(p, "down", "key") /\ "key" \in Statements
  BY DEF Begin, Branch, Statements
<1>2. at'[p] = "key"
  BY <1>1 DEF Branch, Goto, MigrationsInv, MigrationsTypeOK
<1>3. Passed(p)' /\ SeenStands(p)'
  BY <1>2 DEF Passed, SeenStands, Beyond, AfterIdem, AfterSale
<1>4. QED
  BY <1>1, <1>3, BranchInv

LEMMA BreakInv ==
    ASSUME MigrationsInv, NEW p \in Processes, Break(p)
    PROVE  MigrationsInv'
<1>1. MigrationsTypeOK'
  BY MigrationsAssumption DEF MigrationsInv, MigrationsTypeOK, Break, Goto
<1>2. ScopeWhole'
  BY ScopeUntouched DEF Break
<1>3. Goto(p, "down") /\ at'[p] = "down" /\ schema' = schema
  BY DEF Break, Goto, MigrationsInv, MigrationsTypeOK
<1>4. Passed(p)' /\ SeenStands(p)'
  BY <1>3 DEF Passed, SeenStands, Beyond, AfterIdem, AfterSale
<1>5. \A q \in Processes \ {p} : seen'[q] = seen[q]
  BY DEF Break, MigrationsInv, MigrationsTypeOK
<1>6. QED
  BY <1>1, <1>2, <1>3, <1>4, <1>5, OneProcessMoves

LEMMA WidenKeyInv ==
    ASSUME MigrationsInv, NEW p \in Processes, WidenKey(p)
    PROVE  MigrationsInv'
<1>1. MigrationsTypeOK'
  BY DEF MigrationsInv, MigrationsTypeOK, WidenKey, Goto, Statements, Features, IdemTable
<1>2. ScopeWhole'
  BY ScopeUntouched DEF WidenKey, ScopeParts
<1>3. at'[p] = "idem" /\ Goto(p, "idem") /\ schema' = schema \cup {"longKey"} /\ seen' = seen
  BY DEF WidenKey, Goto, MigrationsInv, MigrationsTypeOK
<1>4. Passed(p)' /\ SeenStands(p)'
  BY <1>3 DEF Passed, SeenStands, Beyond, AfterIdem, AfterSale
<1>5. "idem" \in Statements
  BY DEF Statements
<1>6. QED
  BY <1>1, <1>2, <1>3, <1>4, <1>5, OneProcessMoves

LEMMA CreateIdemInv ==
    ASSUME MigrationsInv, NEW p \in Processes, CreateIdem(p)
    PROVE  MigrationsInv'
<1>1. at[p] = "idem" /\ at'[p] = "lease" /\ Goto(p, "lease") /\ seen' = seen
  BY DEF CreateIdem, Create, Goto, MigrationsInv, MigrationsTypeOK
<1>2. schema' = schema \/ schema' = schema \cup {"idem", "longKey"} \cup LeaseColumns
  BY DEF CreateIdem, Create, IdemTable
<1>3. schema' = schema => "idem" \in schema
  BY DEF CreateIdem, Create, IdemTable
<1>4. MigrationsTypeOK'
  BY <1>2 DEF MigrationsInv, MigrationsTypeOK, CreateIdem, Create, Goto, Statements, Features,
              IdemTable
<1>5. ScopeWhole'
  BY <1>2, ScopeUntouched, MigrationsAssumption DEF ScopeParts
<1>6. Passed(p)' /\ SeenStands(p)'
  <2>1. Passed(p)
    BY DEF MigrationsInv
  <2>2. QED
    BY <1>1, <1>2, <1>3, <2>1 DEF Passed, SeenStands, Beyond, AfterIdem, AfterSale
<1>7. "lease" \in Statements
  BY DEF Statements
<1>8. QED
  BY <1>1, <1>2, <1>4, <1>5, <1>6, <1>7, OneProcessMoves

LEMMA SelectLeaseInv ==
    ASSUME MigrationsInv, NEW p \in Processes, SelectLease(p)
    PROVE  MigrationsInv'
<1>1. /\ at[p] = "lease" /\ at'[p] = "addLease" /\ Goto(p, "addLease") /\ schema' = schema
      /\ seen'[p] = schema \cap LeaseColumns
      /\ \A q \in Processes \ {p} : seen'[q] = seen[q]
  BY DEF SelectLease, Goto, MigrationsInv, MigrationsTypeOK
<1>2. MigrationsTypeOK'
  BY DEF MigrationsInv, MigrationsTypeOK, SelectLease, Goto, Statements
<1>3. ScopeWhole'
  BY <1>1, ScopeUntouched
<1>4. Passed(p)
  BY DEF MigrationsInv
<1>5. Passed(p)' /\ SeenStands(p)'
  BY <1>1, <1>4 DEF Passed, SeenStands, Beyond, AfterIdem, AfterSale
<1>6. "addLease" \in Statements
  BY DEF Statements
<1>7. QED
  BY <1>1, <1>2, <1>3, <1>5, <1>6, OneProcessMoves

LEMMA CreateCustomerInv ==
    ASSUME MigrationsInv, NEW p \in Processes, CreateCustomer(p)
    PROVE  MigrationsInv'
<1>1. /\ at[p] = "customer" /\ at'[p] = "sale" /\ Goto(p, "sale") /\ seen' = seen
      /\ schema' = schema \cup {"customer"}
  BY DEF CreateCustomer, Create, Goto, MigrationsInv, MigrationsTypeOK
<1>2. MigrationsTypeOK'
  BY <1>1 DEF MigrationsInv, MigrationsTypeOK, CreateCustomer, Create, Goto, Statements, Features
<1>3. ScopeWhole'
  BY <1>1, ScopeUntouched DEF ScopeParts
<1>4. Passed(p)
  BY DEF MigrationsInv
<1>5. Passed(p)' /\ SeenStands(p)'
  BY <1>1, <1>4 DEF Passed, SeenStands, Beyond, AfterIdem, AfterSale
<1>6. "sale" \in Statements
  BY DEF Statements
<1>7. QED
  BY <1>1, <1>2, <1>3, <1>5, <1>6, OneProcessMoves

LEMMA CreateSaleInv ==
    ASSUME MigrationsInv, NEW p \in Processes, CreateSale(p)
    PROVE  MigrationsInv'
<1>1. /\ at[p] = "sale" /\ at'[p] = "scopeColumn" /\ Goto(p, "scopeColumn") /\ seen' = seen
      /\ schema' = IF "sale" \in schema THEN schema ELSE schema \cup {"sale", "ukCustomer"}
  BY DEF CreateSale, Create, Goto, MigrationsInv, MigrationsTypeOK, SaleTable
<1>2. MigrationsTypeOK'
  BY <1>1 DEF MigrationsInv, MigrationsTypeOK, CreateSale, Create, Goto, Statements, Features,
              SaleTable
<1>3. ScopeWhole'
  BY <1>1 DEF MigrationsInv, ScopeWhole, ScopeParts
<1>4. Passed(p)
  BY DEF MigrationsInv
<1>5. Passed(p)' /\ SeenStands(p)'
  BY <1>1, <1>4 DEF Passed, SeenStands, Beyond, AfterIdem, AfterSale
<1>6. "scopeColumn" \in Statements
  BY DEF Statements
<1>7. QED
  BY <1>1, <1>2, <1>3, <1>5, <1>6, OneProcessMoves

LEMMA SelectScopeColumnInv ==
    ASSUME MigrationsInv, NEW p \in Processes, SelectScopeColumn(p)
    PROVE  MigrationsInv'
<1>1. /\ at[p] = "scopeColumn" /\ at'[p] = "scopeIndexes" /\ Goto(p, "scopeIndexes")
      /\ schema' = schema /\ seen'[p] \subseteq schema
      /\ \A q \in Processes \ {p} : seen'[q] = seen[q]
  BY DEF SelectScopeColumn, Goto, MigrationsInv, MigrationsTypeOK
<1>2. MigrationsTypeOK'
  BY DEF MigrationsInv, MigrationsTypeOK, SelectScopeColumn, Goto, Statements
<1>3. ScopeWhole'
  BY <1>1, ScopeUntouched
<1>4. Passed(p)
  BY DEF MigrationsInv
<1>5. Passed(p)' /\ SeenStands(p)'
  BY <1>1, <1>4 DEF Passed, SeenStands, Beyond, AfterIdem, AfterSale
<1>6. "scopeIndexes" \in Statements
  BY DEF Statements
<1>7. QED
  BY <1>1, <1>2, <1>3, <1>5, <1>6, OneProcessMoves

LEMMA SelectScopeIndexesInv ==
    ASSUME MigrationsInv, NEW p \in Processes, SelectScopeIndexes(p)
    PROVE  MigrationsInv'
<1>1. /\ at[p] = "scopeIndexes" /\ at'[p] = "alterScope" /\ Goto(p, "alterScope")
      /\ schema' = schema
      /\ seen'[p] = seen[p] \cup (schema \cap {"ukCustomer", "ukScope", "idxScope"})
      /\ \A q \in Processes \ {p} : seen'[q] = seen[q]
  BY DEF SelectScopeIndexes, Goto, MigrationsInv, MigrationsTypeOK
<1>2. MigrationsTypeOK'
  BY <1>1 DEF MigrationsInv, MigrationsTypeOK, SelectScopeIndexes, Goto, Statements
<1>3. ScopeWhole'
  BY <1>1, ScopeUntouched
<1>4. Passed(p) /\ SeenStands(p) /\ ScopeWhole
  BY DEF MigrationsInv
<1>5. Passed(p)'
  BY <1>1, <1>4 DEF Passed, Beyond, AfterIdem, AfterSale
<1>6. SeenStands(p)'
  <2>1. "sale" \in schema
    BY <1>1, <1>4 DEF Passed, Beyond, AfterSale
  <2>2. "ukCustomer" \in schema \/ ScopeParts \subseteq schema
    BY <1>4, <2>1 DEF ScopeWhole
  <2>3. QED
    BY <1>1, <1>4, <2>2 DEF SeenStands
<1>7. "alterScope" \in Statements
  BY DEF Statements
<1>8. QED
  BY <1>1, <1>2, <1>3, <1>5, <1>6, <1>7, OneProcessMoves

--------------------------------------------------------------------------------
(* An ALTER: refused, it ends the process; applied, it changes the schema at once *)

LEMMA AlterRefused ==
    ASSUME MigrationsInv, NEW p \in Processes, NEW here, NEW there, NEW adds, NEW drops,
           Alter(p, here, adds, drops, there), Refused(adds, drops)
    PROVE  MigrationsInv'
<1>1. /\ Goto(p, "down") /\ at'[p] = "down" /\ schema' = schema
      /\ \A q \in Processes \ {p} : seen'[q] = seen[q]
  BY DEF Alter, Goto, MigrationsInv, MigrationsTypeOK
<1>2. MigrationsTypeOK'
  BY <1>1 DEF MigrationsInv, MigrationsTypeOK, Alter, Goto
<1>3. ScopeWhole'
  BY <1>1, ScopeUntouched
<1>4. Passed(p)' /\ SeenStands(p)'
  BY <1>1 DEF Passed, SeenStands, Beyond, AfterIdem, AfterSale
<1>5. QED
  BY <1>1, <1>2, <1>3, <1>4, OneProcessMoves

LEMMA AlterApplied ==
    ASSUME MigrationsInv, NEW p \in Processes, NEW here,
           NEW there \in Statements \cup {"done"}, NEW adds \in SUBSET Features, NEW drops,
           Alter(p, here, adds, drops, there), ~Refused(adds, drops)
    PROVE  /\ MigrationsTypeOK'
           /\ at[p] = here /\ at'[p] = there /\ Goto(p, there)
           /\ schema' = (schema \ drops) \cup adds
           /\ \A q \in Processes \ {p} : seen'[q] = seen[q]
  BY DEF Alter, Goto, MigrationsInv, MigrationsTypeOK

LEMMA AddLeaseInv ==
    ASSUME MigrationsInv, NEW p \in Processes, AddLease(p)
    PROVE  MigrationsInv'
<1> DEFINE adds == LeaseColumns \ seen[p]
<1>1. Alter(p, "addLease", adds, {}, "customer")
  BY DEF AddLease, MissingLease
<1>2. CASE Refused(adds, {})
  BY <1>1, <1>2, AlterRefused
<1>3. CASE ~Refused(adds, {})
  <2>1. adds \in SUBSET Features /\ "customer" \in Statements
    BY DEF Features, IdemTable, Statements
  <2>2. /\ MigrationsTypeOK'
        /\ at[p] = "addLease" /\ at'[p] = "customer" /\ Goto(p, "customer")
        /\ schema' = (schema \ {}) \cup adds
        /\ \A q \in Processes \ {p} : seen'[q] = seen[q]
    BY <1>1, <1>3, <2>1, AlterApplied
  <2>3. ScopeWhole'
    BY <2>2, ScopeUntouched, MigrationsAssumption DEF ScopeParts
  <2>4. Passed(p) /\ SeenStands(p)
    BY DEF MigrationsInv
  <2>5. LeaseColumns \subseteq schema'
    BY <2>2, <2>4 DEF SeenStands
  <2>6. Passed(p)' /\ SeenStands(p)'
    BY <2>2, <2>4, <2>5, MigrationsAssumption
       DEF Passed, SeenStands, Beyond, AfterIdem, AfterSale
  <2>7. "idem" \in schema' => "idem" \in schema
    BY <2>2, MigrationsAssumption
  <2>8. QED
    BY <2>1, <2>2, <2>3, <2>6, <2>7, OneProcessMoves
<1>4. QED
  BY <1>2, <1>3

LEMMA AddFirstInv ==
    ASSUME MigrationsInv, NEW p \in Processes, AddFirst(p)
    PROVE  MigrationsInv'
<1>1. Alter(p, "addFirst", {"first"}, {}, "done")
  BY DEF AddFirst
<1>2. CASE Refused({"first"}, {})
  BY <1>1, <1>2, AlterRefused
<1>3. CASE ~Refused({"first"}, {})
  <2>1. {"first"} \in SUBSET Features
    BY DEF Features
  <2>2. /\ MigrationsTypeOK'
        /\ at[p] = "addFirst" /\ at'[p] = "done" /\ Goto(p, "done")
        /\ schema' = (schema \ {}) \cup {"first"}
        /\ \A q \in Processes \ {p} : seen'[q] = seen[q]
    BY <1>1, <1>3, <2>1, AlterApplied
  <2>3. ScopeWhole'
    BY <2>2, ScopeUntouched DEF ScopeParts
  <2>4. Passed(p)
    BY DEF MigrationsInv
  <2>5. Passed(p)' /\ SeenStands(p)'
    BY <2>2, <2>4 DEF Passed, SeenStands, Beyond, AfterIdem, AfterSale
  <2>6. QED
    BY <2>2, <2>3, <2>5, OneProcessMoves
<1>4. QED
  BY <1>2, <1>3

\* The statement of migration 004 is refused, or it replaces the old unique key by the
\* whole of the new scope, or it has nothing left to do.
LEMMA AlterScopeCases ==
    ASSUME MigrationsInv, NEW p \in Processes, at[p] = "alterScope",
           ~Refused(ScopeClauses(p), seen[p] \cap {"ukCustomer"})
    PROVE  \/ /\ ScopeClauses(p) = ScopeParts /\ seen[p] \cap {"ukCustomer"} = {"ukCustomer"}
              /\ ScopeParts \cap schema = {} /\ "sale" \in schema
           \/ /\ ScopeClauses(p) = {} /\ seen[p] \cap {"ukCustomer"} = {}
              /\ ScopeParts \subseteq schema /\ "sale" \in schema
<1>1. Passed(p) /\ SeenStands(p) /\ ScopeWhole
  BY DEF MigrationsInv
<1>2. "sale" \in schema
  BY <1>1 DEF Passed, Beyond, AfterSale
<1>3. CASE ScopeParts \subseteq schema
  <2>1. "ukCustomer" \notin schema
    BY <1>1, <1>2, <1>3 DEF ScopeWhole, ScopeParts
  <2>2. QED
    BY <1>2, <1>3, <2>1 DEF Refused, ScopeClauses, ScopeParts
<1>4. CASE ScopeParts \cap schema = {}
  <2>1. seen[p] \cap ScopeParts = {} /\ "ukCustomer" \in seen[p]
    BY <1>1, <1>4 DEF SeenStands, ScopeParts
  <2>2. QED
    BY <1>2, <1>4, <2>1 DEF ScopeClauses
<1>5. QED
  BY <1>1, <1>3, <1>4 DEF ScopeWhole

LEMMA AlterScopeInv ==
    ASSUME MigrationsInv, NEW p \in Processes, AlterScope(p)
    PROVE  MigrationsInv'
<1> DEFINE adds == ScopeClauses(p)
           drops == seen[p] \cap {"ukCustomer"}
<1>1. Alter(p, "alterScope", adds, drops, "first") /\ at[p] = "alterScope"
  BY DEF AlterScope, Alter
<1>2. CASE Refused(adds, drops)
  BY <1>1, <1>2, AlterRefused
<1>3. CASE ~Refused(adds, drops)
  <2>1. adds \in SUBSET Features /\ "first" \in Statements
    BY DEF ScopeClauses, Features, Statements
  <2>2. /\ MigrationsTypeOK'
        /\ at'[p] = "first" /\ Goto(p, "first")
        /\ schema' = (schema \ drops) \cup adds
        /\ \A q \in Processes \ {p} : seen'[q] = seen[q]
    <3> HIDE DEF adds, drops
    <3>1. schema' = (schema \ drops) \cup adds /\ Goto(p, "first")
      BY <1>1, <1>3 DEF Alter
    <3>2. MigrationsTypeOK' /\ at'[p] = "first"
      BY <1>1, <2>1, <3>1 DEF Alter, Goto, MigrationsInv, MigrationsTypeOK
    <3>3. \A q \in Processes \ {p} : seen'[q] = seen[q]
      BY <1>1 DEF Alter, MigrationsInv, MigrationsTypeOK
    <3>4. QED
      BY <3>1, <3>2, <3>3
  <2>3. /\ ScopeParts \subseteq schema' /\ "sale" \in schema' /\ "ukCustomer" \notin schema'
        /\ schema \ {"ukCustomer"} \subseteq schema'
        /\ schema' \subseteq schema \cup ScopeParts
    <3>1. CASE adds = ScopeParts /\ drops = {"ukCustomer"} /\ "sale" \in schema
      BY <2>2, <3>1 DEF ScopeParts
    <3>2. CASE adds = {} /\ drops = {} /\ ScopeParts \subseteq schema /\ "sale" \in schema
      <4>1. "ukCustomer" \notin schema
        BY <3>2 DEF MigrationsInv, ScopeWhole, ScopeParts
      <4>2. QED
        BY <2>2, <3>2, <4>1
    <3>3. QED
      BY <1>1, <1>3, <3>1, <3>2, AlterScopeCases
  <2>4. ScopeWhole'
    BY <2>3 DEF ScopeWhole, ScopeParts
  <2>5. Passed(p)
    BY DEF MigrationsInv
  <2>6. "idem" \in schema' => "idem" \in schema
    BY <2>3 DEF ScopeParts
  <2>7. Passed(p)' /\ SeenStands(p)'
    <3>1. LeaseColumns \subseteq schema => LeaseColumns \subseteq schema'
      BY <2>3, MigrationsAssumption
    <3>2. QED
      BY <1>1, <2>2, <2>3, <2>5, <3>1 DEF Passed, SeenStands, Beyond, AfterIdem, AfterSale
  <2>8. QED
    BY <2>1, <2>2, <2>3, <2>4, <2>6, <2>7, OneProcessMoves
<1>4. QED
  BY <1>2, <1>3

--------------------------------------------------------------------------------

LEMMA SchemaStepInv == MigrationsInv /\ [MigrationsNext]_migrationVars => MigrationsInv'
<1> SUFFICES ASSUME MigrationsInv, [MigrationsNext]_migrationVars PROVE MigrationsInv'
  OBVIOUS
<1>1. ASSUME NEW p \in Processes, Migrate(p) PROVE MigrationsInv'
  BY <1>1, BeginInv, SelectKeyInv, WidenKeyInv, CreateIdemInv, SelectLeaseInv, AddLeaseInv,
     CreateCustomerInv, CreateSaleInv, SelectScopeColumnInv, SelectScopeIndexesInv,
     AlterScopeInv, SelectFirstInv, AddFirstInv DEF Migrate
<1>2. CASE UNCHANGED migrationVars
  BY <1>2 DEF migrationVars, MigrationsInv, MigrationsTypeOK, Passed, SeenStands, Beyond,
              ScopeWhole
<1>3. QED
  BY <1>1, <1>2, BreakInv DEF MigrationsNext

THEOREM MigrationsInvariance == MigrationsSpec => []MigrationsInv
<1>1. MigrationsInit => MigrationsInv
  BY SchemaInitInv
<1>2. MigrationsInv /\ [MigrationsNext]_migrationVars => MigrationsInv'
  BY SchemaStepInv
<1>3. QED
  BY <1>1, <1>2, PTL DEF MigrationsSpec

\* However many processes run the migrations at once, with whatever statements refused or
\* connections lost, the same sale can never be inserted twice while the key is replaced.
THEOREM DuplicatesAlwaysRefused == MigrationsSpec => []DuplicatesRefused
<1>1. MigrationsInv => DuplicatesRefused
  BY DEF MigrationsInv, ScopeWhole, ScopeParts, DuplicatesRefused
<1>2. QED
  BY <1>1, MigrationsInvariance, PTL

\* A process that runSystemDbMigrations returned to has the complete schema, and keeps it.
THEOREM SchemaReadyTheorem == MigrationsSpec => []SchemaReady
<1>1. MigrationsInv => SchemaReady
  <2> SUFFICES ASSUME MigrationsInv, NEW p \in Processes, at[p] = "done"
               PROVE  schema = UpToDate
    BY DEF SchemaReady
  <2>1. Passed(p) /\ ScopeWhole /\ schema \subseteq Features
    BY DEF MigrationsInv, MigrationsTypeOK
  <2>2. /\ {"idem", "longKey", "customer", "sale", "first"} \subseteq schema
        /\ LeaseColumns \subseteq schema
        /\ ScopeParts \subseteq schema
    BY <2>1 DEF Passed, Beyond, AfterIdem, AfterSale
  <2>3. "ukCustomer" \notin schema
    BY <2>1, <2>2 DEF ScopeWhole, ScopeParts
  <2>4. QED
    BY <2>1, <2>2, <2>3, MigrationsAssumption
       DEF UpToDate, Features, IdemTable, SaleTable, ScopeParts
<1>2. QED
  BY <1>1, MigrationsInvariance, PTL

================================================================================
