---------------------------- MODULE CustomsStore ----------------------------
(***************************************************************************)
(* Customs data: what POST /api/customs/ingest collects and how it reaches *)
(* the SQLite file.  A worker process has one connection, and every call   *)
(* of the store runs in a thread of its own on it, statement by statement. *)
(* The transaction belongs to the connection, not to the thread: python    *)
(* begins one before a change and whoever commits commits all of it.       *)
(***************************************************************************)
EXTENDS Naturals, Sequences, FiniteSets

CONSTANTS
    Processes,  \* worker processes, one connection each
    Ingests,    \* ingest requests
    Buyers,     \* normalised consignee names
    Nameless,   \* what a shipment without a usable name has instead
    Manifests,  \* the lists of consignees a provider may answer with
    MaxPages    \* pages asked of UN Comtrade at most (20)

ASSUME CustomsAssumption ==
    /\ Processes # {} /\ Nameless \notin Buyers
    /\ Manifests \subseteq Seq(Buyers \union {Nameless})
    /\ MaxPages \in Nat \ {0}

VARIABLES
    tables,     \* TRUE once the file has its tables
    trades,     \* committed: the ingests whose trade records it has
    total,      \* committed: import_count of a buyer, 0 without a row
    opened,     \* processes whose singleton has its connection
    lock,       \* what the transaction of a connection holds
    draft,      \* the uncommitted content of a connection that writes
    ingest,     \* the requests
    shipments   \* history: the shipments of a buyer written so far

store == <<tables, trades, total>>
customsVars == <<tables, trades, total, opened, lock, draft, ingest, shipments>>

Locks == {"none", "begun", "shared", "reserved", "pending"}
NoDraft == [trades |-> {}, total |-> [b \in Buyers |-> 0]]
NewIngest == [pc |-> "new", proc |-> CHOOSE p \in Processes : TRUE, tier |-> 1, page |-> 1,
         batch |-> [b \in Buyers |-> 0], todo |-> {}, buyer |-> Nameless, seen |-> 0]

CustomsInit ==
    /\ tables = FALSE /\ trades = {} /\ total = [b \in Buyers |-> 0]
    /\ opened = {}
    /\ lock = [p \in Processes |-> "none"]
    /\ draft = [p \in Processes |-> NoDraft]
    /\ ingest = [i \in Ingests |-> NewIngest]
    /\ shipments = [b \in Buyers |-> 0]

-----------------------------------------------------------------------------
(* The file and its locks. *)

Writes(p) == lock[p] \in {"reserved", "pending"}
View(p) == IF Writes(p) THEN draft[p] ELSE [trades |-> trades, total |-> total]
\* A writer that failed to commit lets nobody new read, and nobody else write.
MayRead(p) == lock[p] \in {"none", "begun"} => \A q \in Processes \ {p} : lock[q] # "pending"
MayWrite(p) == \A q \in Processes \ {p} : ~Writes(q)
\* A reader of an open transaction holds the file until the transaction ends.
MayCommit(p) == Writes(p) => \A q \in Processes \ {p} : lock[q] # "shared"

Reading(p) == lock' = [lock EXCEPT ![p] = IF @ = "begun" THEN "shared" ELSE @]
Writing(p, content) ==
    /\ lock' = [lock EXCEPT ![p] = IF @ = "pending" THEN @ ELSE "reserved"]
    /\ draft' = [draft EXCEPT ![p] = content]

\* Mutant of Committing: the transaction is rolled back.
CommittingRollsBack(p) ==
    /\ UNCHANGED <<trades, total>>
    /\ lock' = [lock EXCEPT ![p] = "none"]
    /\ draft' = [draft EXCEPT ![p] = NoDraft]

Committing(p) ==
    /\ trades' = View(p).trades
    /\ total' = View(p).total
    /\ lock' = [lock EXCEPT ![p] = "none"]
    /\ draft' = [draft EXCEPT ![p] = NoDraft]

-----------------------------------------------------------------------------
(* Collecting. *)

IngestTo(i, pc) == ingest' = [ingest EXCEPT ![i].pc = pc]
IngestAt(i, pc) == ingest[i].pc = pc
ProcOf(i) == ingest[i].proc

ReceiveIngest(i) ==
    /\ IngestAt(i, "new")
    /\ \E p \in Processes, tier \in {1, 2} :
          ingest' = [ingest EXCEPT ![i].pc = "fetch", ![i].proc = p, ![i].tier = tier]
    /\ UNCHANGED <<store, opened, lock, draft, shipments>>

\* A page of Comtrade: full; the last, an empty one, or an error after pages
\* that brought something; or an error before any, an answer that is no JSON or
\* a row that is no record, which lose what earlier pages brought.
FetchPage(i) ==
    /\ IngestAt(i, "fetch") /\ ingest[i].tier = 1
    /\ \/ /\ ingest[i].page < MaxPages
          /\ ingest' = [ingest EXCEPT ![i].page = @ + 1]
       \/ IngestTo(i, "store")
       \/ IngestTo(i, "failed")
    /\ UNCHANGED <<store, opened, lock, draft, shipments>>

\* Shipments of one consignee become one buyer; those without a name are left.
Aggregate(m) == [b \in Buyers |-> Cardinality({n \in DOMAIN m : m[n] = b})]
Named(batch) == {b \in Buyers : batch[b] > 0}

FetchBol(i) ==
    /\ IngestAt(i, "fetch") /\ ingest[i].tier = 2
    /\ \/ \E m \in Manifests :
             ingest' = [ingest EXCEPT ![i].pc = "store", ![i].batch = Aggregate(m),
                                      ![i].todo = Named(Aggregate(m))]
       \/ IngestTo(i, "failed")
    /\ UNCHANGED <<store, opened, lock, draft, shipments>>

-----------------------------------------------------------------------------
(* Storing. *)

StoreStep(i) == IF ingest[i].tier = 1 THEN "write"
            ELSE IF ingest[i].todo = {} THEN "commit" ELSE "read"

\* The singleton is published before its tables exist: only the request that
\* made it waits for them.
OpenStore(i) ==
    /\ IngestAt(i, "store")
    /\ opened' = opened \union {ProcOf(i)}
    /\ IngestTo(i, IF ProcOf(i) \in opened THEN StoreStep(i) ELSE "init")
    /\ UNCHANGED <<store, lock, draft, shipments>>

\* The script commits what is open on the connection before it begins.
InitTables(i) ==
    /\ IngestAt(i, "init")
    /\ IF MayRead(ProcOf(i)) /\ MayCommit(ProcOf(i))
       THEN Committing(ProcOf(i)) /\ tables' = TRUE /\ IngestTo(i, StoreStep(i))
       ELSE IngestTo(i, "failed") /\ UNCHANGED <<store, lock, draft>>
    /\ UNCHANGED <<opened, shipments>>

ReadBuyer(i) ==
    /\ IngestAt(i, "read")
    /\ IF tables /\ MayRead(ProcOf(i))
       THEN /\ \E b \in ingest[i].todo :
                  ingest' = [ingest EXCEPT ![i].pc = "write", ![i].buyer = b,
                                           ![i].seen = View(ProcOf(i)).total[b]]
            /\ Reading(ProcOf(i))
       ELSE IngestTo(i, "failed") /\ UNCHANGED lock
    /\ UNCHANGED <<store, opened, draft, shipments>>

\* Mutant of WriteBuyer: the amount is added to the row as it is now as well.
WriteBuyerTwice(i) ==
    LET p == ProcOf(i)
        b == ingest[i].buyer
        left == ingest[i].todo \ {b}
        sum == ingest[i].seen + View(p).total[b] + ingest[i].batch[b]
    IN  /\ IngestAt(i, "write") /\ ingest[i].tier = 2
        /\ MayRead(p) /\ MayWrite(p)
        /\ Writing(p, [View(p) EXCEPT !.total[b] = sum])
        /\ shipments' = [shipments EXCEPT ![b] = @ + ingest[i].batch[b]]
        /\ ingest' = [ingest EXCEPT ![i].todo = left,
                         ![i].pc = IF left = {} THEN "commit" ELSE "read"]
        /\ UNCHANGED <<store, opened>>

\* The row was looked for before: an INSERT meets one that came meanwhile and
\* fails, an UPDATE writes what was read plus what was collected.
WriteBuyer(i) ==
    LET p == ProcOf(i)
        b == ingest[i].buyer
        left == ingest[i].todo \ {b}
        sum == ingest[i].seen + ingest[i].batch[b]
    IN  /\ IngestAt(i, "write") /\ ingest[i].tier = 2
        /\ MayRead(p) /\ MayWrite(p)
        /\ IF ingest[i].seen = 0 /\ View(p).total[b] > 0
           THEN Writing(p, View(p)) /\ IngestTo(i, "failed") /\ UNCHANGED shipments
           ELSE /\ Writing(p, [View(p) EXCEPT !.total[b] = sum])
                /\ shipments' = [shipments EXCEPT ![b] = @ + ingest[i].batch[b]]
                /\ ingest' = [ingest EXCEPT ![i].todo = left,
                                 ![i].pc = IF left = {} THEN "commit" ELSE "read"]
        /\ UNCHANGED <<store, opened>>

\* The ids of the records are new: no record replaces an earlier one.
WriteTrades(i) ==
    /\ IngestAt(i, "write") /\ ingest[i].tier = 1
    /\ tables /\ MayRead(ProcOf(i)) /\ MayWrite(ProcOf(i))
    /\ Writing(ProcOf(i), [View(ProcOf(i)) EXCEPT !.trades = @ \union {i}])
    /\ IngestTo(i, "commit")
    /\ UNCHANGED <<store, opened, shipments>>

\* After five seconds SQLite gives up waiting for a lock; the transaction that
\* was begun for the change stays open.  Two threads that begin at once: one
\* of them fails.  The tables may not be there yet.
WriteFails(i) ==
    /\ IngestAt(i, "write")
    /\ \/ (~MayRead(ProcOf(i)) \/ ~MayWrite(ProcOf(i))) /\ tables
          /\ lock' = [lock EXCEPT ![ProcOf(i)] = IF @ = "none" THEN "begun" ELSE @]
       \/ \E j \in Ingests \ {i} : ProcOf(j) = ProcOf(i) /\ IngestAt(j, "write") /\ UNCHANGED lock
       \/ ~tables /\ UNCHANGED lock
    /\ IngestTo(i, "failed")
    /\ UNCHANGED <<store, opened, draft, shipments>>

CommitStore(i) ==
    /\ IngestAt(i, "commit") /\ MayCommit(ProcOf(i))
    /\ Committing(ProcOf(i))
    /\ IngestTo(i, "done")
    /\ UNCHANGED <<tables, opened, shipments>>

\* A reader holds the file, or another thread committed at the same time.
CommitFails(i) ==
    /\ IngestAt(i, "commit")
    /\ \/ ~MayCommit(ProcOf(i)) /\ lock' = [lock EXCEPT ![ProcOf(i)] = "pending"]
       \/ /\ lock[ProcOf(i)] = "none"
          /\ \E j \in Ingests \ {i} : ProcOf(j) = ProcOf(i) /\ IngestAt(j, "done")
          /\ UNCHANGED lock
    /\ IngestTo(i, "failed")
    /\ UNCHANGED <<store, opened, draft, shipments>>

-----------------------------------------------------------------------------
(* Around them. *)

\* A count, a search, a trend or the top buyers; each is one SELECT.
QueryStore(p) ==
    /\ p \in opened /\ tables /\ MayRead(p)
    /\ Reading(p)
    /\ UNCHANGED <<store, opened, draft, ingest, shipments>>

\* The process ends, its requests and its open transaction with it.
EndProcess(p) ==
    /\ opened' = opened \ {p}
    /\ lock' = [lock EXCEPT ![p] = "none"]
    /\ draft' = [draft EXCEPT ![p] = NoDraft]
    /\ ingest' = [i \in Ingests |->
          IF ProcOf(i) = p /\ ingest[i].pc \notin {"new", "done"}
          THEN [ingest[i] EXCEPT !.pc = "failed"] ELSE ingest[i]]
    /\ UNCHANGED <<store, shipments>>

CustomsNext ==
    \/ \E i \in Ingests :
          \/ ReceiveIngest(i) \/ FetchPage(i) \/ FetchBol(i)
          \/ OpenStore(i) \/ InitTables(i) \/ ReadBuyer(i)
          \/ WriteBuyer(i) \/ WriteTrades(i) \/ WriteFails(i)
          \/ CommitStore(i) \/ CommitFails(i)
    \/ \E p \in Processes : QueryStore(p) \/ EndProcess(p)

CustomsSpec == CustomsInit /\ [][CustomsNext]_customsVars

-----------------------------------------------------------------------------
(* Properties. *)

CustomsTypeOK ==
    /\ tables \in BOOLEAN
    /\ trades \subseteq Ingests
    /\ total \in [Buyers -> Nat]
    /\ opened \subseteq Processes
    /\ lock \in [Processes -> Locks]
    /\ draft \in [Processes -> [trades : SUBSET Ingests, total : [Buyers -> Nat]]]
    /\ ingest \in [Ingests ->
          [pc : {"new", "fetch", "store", "init", "read", "write", "commit", "done", "failed"},
           proc : Processes, tier : {1, 2}, page : 1..MaxPages, batch : [Buyers -> Nat],
           todo : SUBSET Buyers, buyer : Buyers \union {Nameless}, seen : Nat]]
    /\ shipments \in [Buyers -> Nat]

\* What an answered ingest says it stored is in the file for every process,
\* although other threads may have begun, shared or ended its transaction
\* (upsert_trade_records and upsert_buyers on one connection).
AcknowledgedIsCommitted ==
    \A i \in Ingests : IngestAt(i, "done") =>
        IF ingest[i].tier = 1 THEN i \in trades
        ELSE \A b \in Named(ingest[i].batch) : total[b] > 0

\* Overlapping read-add-write steps may lose shipments of a buyer but never
\* count one twice, in the file and in what is about to be committed.
NeverCountedTwice ==
    \A b \in Buyers :
        /\ total[b] <= shipments[b]
        /\ \A p \in Processes : Writes(p) => draft[p].total[b] <= shipments[b]

\* The file has what was acknowledged, and nothing twice.
CountsSound == AcknowledgedIsCommitted /\ NeverCountedTwice

\* import_count is the "Number of shipments" (customs_models.py): when every
\* ingest has been acknowledged, a buyer's count is what was collected.
CountsAllShipments ==
    (\A i \in Ingests : IngestAt(i, "done")) => total = shipments
=============================================================================
