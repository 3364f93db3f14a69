---------------------------- MODULE Business_proofs ----------------------------
(***************************************************************************)
(* Proofs about the business services: the schedule of the reports, the    *)
(* screening of campaigns, the shipments the customs store counts, the     *)
(* scores of the HR agent, and the collection of intelligence, for any     *)
(* number of requests, processes, buyers, jobs, employees, competencies,   *)
(* and texts.                                                              *)
(***************************************************************************)
EXTENDS CustomsStore, Campaign, Reports, HR, Collection, Filters_proofs, TLAPS

-----------------------------------------------------------------------------
(* Reports: objects are numbered as they are made, so the one APScheduler  *)
(* calls is never younger than the one the id has.                         *)

ScheduleInv ==
    /\ made \in Nat /\ started \in BOOLEAN
    /\ jobs \in [JobIds -> Nat] /\ registry \in [JobIds -> Nat]
    /\ \A j \in JobIds : jobs[j] <= made
    /\ FiresOnlyScheduled

LEMMA ScheduleStep == ScheduleInv /\ [ReportsNext]_reportVars => ScheduleInv'
  <1> SUFFICES ASSUME ScheduleInv, [ReportsNext]_reportVars PROVE ScheduleInv'
    OBVIOUS
  <1> USE DEF ScheduleInv, FiresOnlyScheduled, NoJob
  <1>1. ASSUME NEW j \in JobIds, Schedule(j) PROVE ScheduleInv'
    <2>1. /\ made' = made + 1 /\ started' = started
          /\ jobs' = [jobs EXCEPT ![j] = made']
          /\ registry' = registry \/ (started /\ registry' = [registry EXCEPT ![j] = made'])
      BY <1>1 DEF Schedule
    <2>2. /\ jobs' \in [JobIds -> Nat] /\ registry' \in [JobIds -> Nat]
          /\ \A i \in JobIds : jobs'[i] <= made'
      BY <2>1
    <2>3. ASSUME NEW i \in JobIds, registry'[i] # NoJob
          PROVE  started' /\ jobs'[i] # NoJob /\ registry'[i] <= jobs'[i]
      <3>1. CASE i = j
        BY <2>1, <2>3, <3>1
      <3>2. CASE i # j
        BY <2>1, <2>3, <3>2
      <3> QED BY <3>1, <3>2
    <2> QED BY <2>1, <2>2, <2>3
  <1>2. ASSUME NEW j \in JobIds, Unschedule(j) PROVE ScheduleInv'
    BY <1>2 DEF Unschedule
  <1>3. CASE StartScheduler
    <2>1. \A j \in JobIds : registry[j] = NoJob /\ registry'[j] \in {jobs[j], NoJob}
      BY <1>3 DEF StartScheduler, Registered
    <2>2. /\ UNCHANGED <<made, jobs>> /\ started'
          /\ registry' \in [JobIds -> Nat] /\ started' \in BOOLEAN
      BY <1>3 DEF StartScheduler, Registered
    <2> QED BY <2>1, <2>2
  <1>4. CASE ShutdownScheduler
    BY <1>4 DEF ShutdownScheduler
  <1>5. ASSUME UNCHANGED scheduled PROVE ScheduleInv'
    BY <1>5 DEF scheduled
  <1>6. ASSUME NEW j \in JobIds, EnableOrDisable(j) PROVE ScheduleInv'
    BY <1>6 DEF EnableOrDisable
  <1>7. ASSUME NEW j \in JobIds, NEW c \in Executions, Fire(c, j) \/ TriggerReport(c, j) PROVE ScheduleInv'
    BY <1>5, <1>7 DEF Fire, TriggerReport
  <1>8. CASE TriggerTimesOut
    BY <1>5, <1>8 DEF TriggerTimesOut
  <1>9. ASSUME NEW c \in Executions, RenderReport(c) \/ PushOne(c) \/ FinishPush(c) PROVE ScheduleInv'
    BY <1>5, <1>9 DEF RenderReport, PushOne, FinishPush
  <1>10. CASE UNCHANGED reportVars
    BY <1>5, <1>10 DEF reportVars, scheduled
  <1> QED BY <1>1, <1>2, <1>3, <1>4, <1>6, <1>7, <1>8, <1>9, <1>10 DEF ReportsNext

(* Through ids that are scheduled again, expressions that cannot be read,  *)
(* jobs that are removed and any number of restarts, APScheduler calls     *)
(* only what is scheduled (ReportScheduler, schedule to shutdown).         *)
THEOREM OnlyScheduledFires == ReportsSpec => []FiresOnlyScheduled
  <1>1. ReportsInit => ScheduleInv
    <2> SUFFICES ASSUME ReportsInit PROVE ScheduleInv
      OBVIOUS
    <2>1. jobs = [j \in JobIds |-> 0] /\ registry = jobs /\ made = 0 /\ started = FALSE
      BY DEF ReportsInit, NoJob
    <2>2. started \in BOOLEAN
      BY <2>1
    <2>3. \A j \in JobIds : jobs[j] = 0 /\ registry[j] = 0
      BY <2>1
    <2>4. jobs \in [JobIds -> Nat] /\ registry \in [JobIds -> Nat] /\ made \in Nat
      BY <2>1
    <2> QED BY <2>1, <2>2, <2>3, <2>4 DEF ScheduleInv, FiresOnlyScheduled, NoJob
  <1>2. ScheduleInv => FiresOnlyScheduled
    BY DEF ScheduleInv
  <1> QED BY <1>1, <1>2, ScheduleStep, PTL DEF ReportsSpec

-----------------------------------------------------------------------------
(* Campaigns: a buyer that was shown reached the cell then, shipments only  *)
(* become more, so one that is in the cell now was there all the time.      *)

Cells == {"low", "mid", "high"}
Filtering == [country : SUBSET Consignees, passes : SUBSET Consignees, atLeast : Nat, limit : Nat]
Mailing == [channel : Channels \union {"portal", "sms"}, address : MailKinds,
            email : MailKinds \union {"none"}, consent : Consents, unsubscribe : BOOLEAN]
Segments == [reach : SUBSET Consignees, blocked : SUBSET Consignees]
Decided == {"404", "400", "refused", "sending", "sent", "failed"}
ListedPush == [pc : {"listed"}, cell : Cells, filter : Filtering, shown : SUBSET Consignees]
Asked == [pc : {"filtered", "any"} \union Decided, cell : Cells, filter : Filtering,
          shown : SUBSET Consignees, mail : Mailing, segment : Segments]

PushTypeOK ==
    /\ known \in [Consignees -> Nat]
    /\ pushing \in [Pushes -> [pc : {"new"}] \union ListedPush \union Asked]

\* The buyer was in the cell once, and lets itself be found by the filter.
WasShown(b, r) ==
    /\ b \in r.filter.country /\ b \in r.filter.passes /\ known[b] >= r.filter.atLeast
    /\ \E n \in Nat : n <= known[b] /\ Frequency(n) = r.cell

InLimit(r) == Cardinality(Stored(r.filter.country)) <= r.filter.limit
Still(r) == {b \in r.shown : Frequency(known[b]) = r.cell}

PushOK(r) ==
    r.pc # "new" =>
        /\ \A b \in r.shown : WasShown(b, r)
        /\ InLimit(r) => /\ r.pc = "any" => Still(r) = {}
                         /\ r.pc \in Decided => /\ Still(r) \subseteq AllOf(r.segment)
                                                /\ Still(r) # {} => AllOf(r.segment) \subseteq r.filter.passes

PushInv == PushTypeOK /\ \A q \in Pushes : PushOK(pushing[q])

LEMMA PushInvEnough == PushInv => PushedWasShown
  BY DEF PushInv, PushTypeOK, PushOK, PushedWasShown, StillShown, Still, InLimit, Decided, ListedPush, Asked

\* A frequency between two that are the same is the same.
LEMMA FrequencyBetween ==
    ASSUME NEW m \in Nat, NEW n \in Nat, NEW k \in Nat, m <= n, n <= k,
           Frequency(m) \in Cells, Frequency(k) = Frequency(m)
    PROVE  Frequency(n) = Frequency(m)
  BY CampaignAssumption DEF Frequency, Cells

\* One request that comes to be as it should be.
LEMMA PushKeeps ==
    ASSUME PushInv, NEW q \in Pushes, NEW r \in ListedPush \union Asked, PushOK(r),
           pushing' = [pushing EXCEPT ![q] = r], UNCHANGED known
    PROVE  PushInv'
  <1>1. pushing'[q] = r /\ \A p \in Pushes : p # q => pushing'[p] = pushing[p]
    BY DEF PushInv, PushTypeOK
  <1>2. PushTypeOK'
    BY DEF PushInv, PushTypeOK
  <1>4. ASSUME NEW p \in Pushes PROVE PushOK(pushing[p])'
    <2> DEFINE x == IF p = q THEN r ELSE pushing[p]
    <2>1. pushing'[p] = x /\ PushOK(x)
      BY <1>1 DEF PushInv
    <2> HIDE DEF x
    <2> QED BY <2>1 DEF PushOK, WasShown, InLimit, Still, Stored
  <1> QED BY <1>2, <1>4 DEF PushInv

\* More shipments: a limit that hides buyers goes on doing so, and who is still
\* in the cell was there before.
LEMMA CollectedKeeps ==
    ASSUME PushInv, NEW c \in Consignees, Collected(c)
    PROVE  PushInv'
  <1>1. /\ known' = [known EXCEPT ![c] = @ + 1] /\ pushing' = pushing
        /\ known \in [Consignees -> Nat]
    BY DEF Collected, PushInv, PushTypeOK
  <1>2. known' \in [Consignees -> Nat] /\ \A b \in Consignees : known[b] <= known'[b]
    BY <1>1
  <1>3. PushTypeOK'
    BY <1>1, <1>2 DEF PushInv, PushTypeOK
  <1>4. ASSUME NEW country \in SUBSET Consignees
        PROVE  /\ Cardinality(Stored(country)) <= Cardinality(Stored(country)')
               /\ Cardinality(Stored(country)) \in Nat /\ Cardinality(Stored(country)') \in Nat
    <2>1. Stored(country) \subseteq Stored(country)'
      <3> SUFFICES ASSUME NEW b \in country, known[b] > 0 PROVE known'[b] > 0
        BY DEF Stored
      <3> QED BY <1>1, <1>2
    <2>2. IsFiniteSet(Stored(country)')
      BY CampaignAssumption, FS_Subset DEF Stored
    <2> QED BY <2>1, <2>2, FS_Subset, FS_CardinalityType
  <1>5. ASSUME NEW q \in Pushes PROVE PushOK(pushing[q])'
    <2> DEFINE r == pushing[q]
    <2> SUFFICES ASSUME r.pc # "new" PROVE PushOK(r)'
      BY <1>1 DEF PushOK
    <2>1. r \in ListedPush \union Asked /\ PushOK(r)
      BY DEF PushInv, PushTypeOK
    <2>2. /\ r.cell \in Cells /\ r.shown \in SUBSET Consignees
          /\ r.filter.country \in SUBSET Consignees /\ r.filter.limit \in Nat /\ r.filter.atLeast \in Nat
      BY <2>1 DEF ListedPush, Asked, Filtering
    <2>3. \A b \in r.shown : WasShown(b, r)
      BY <2>1 DEF PushOK
    <2>4. \A b \in r.shown : WasShown(b, r)'
      <3> SUFFICES ASSUME NEW b \in r.shown PROVE WasShown(b, r)'
        OBVIOUS
      <3>1. known[b] \in Nat /\ known'[b] \in Nat /\ known[b] <= known'[b]
        BY <1>1, <1>2, <2>2
      <3>2. PICK n \in Nat : n <= known[b] /\ Frequency(n) = r.cell
        BY <2>3 DEF WasShown
      <3>3. n <= known'[b] /\ Frequency(n)' = r.cell
        BY <3>1, <3>2 DEF Frequency
      <3>4. known'[b] >= r.filter.atLeast /\ b \in r.filter.country /\ b \in r.filter.passes
        BY <2>2, <2>3, <3>1 DEF WasShown
      <3> QED BY <1>1, <3>3, <3>4 DEF WasShown
    <2>5. Still(r)' \subseteq Still(r)
      <3> SUFFICES ASSUME NEW b \in r.shown, Frequency(known'[b]) = r.cell
                   PROVE  Frequency(known[b]) = r.cell
        BY <1>1 DEF Still, Frequency
      <3>1. known[b] \in Nat /\ known'[b] \in Nat /\ known[b] <= known'[b]
        BY <1>1, <1>2, <2>2
      <3>2. PICK n \in Nat : n <= known[b] /\ Frequency(n) = r.cell
        BY <2>3 DEF WasShown
      <3> QED BY <2>2, <3>1, <3>2, FrequencyBetween
    <2>6. InLimit(r)' => InLimit(r)
      BY <1>1, <1>4, <2>2 DEF InLimit
    <2>7. /\ InLimit(r) /\ r.pc = "any" => Still(r) = {}
          /\ InLimit(r) /\ r.pc \in Decided => /\ Still(r) \subseteq AllOf(r.segment)
                                               /\ Still(r) # {} => AllOf(r.segment) \subseteq r.filter.passes
      BY <2>1 DEF PushOK
    <2>8. r' = r
      BY <1>1
    <2> HIDE DEF r
    <2> QED BY <2>4, <2>5, <2>6, <2>7, <2>8 DEF PushOK, AllOf
  <1> QED BY <1>3, <1>5 DEF PushInv

\* A search with the client's filter finds who is still in the cell, and nobody
\* the filter leaves out; one without comes when there was nobody.
LEMMA SearchKeeps ==
    ASSUME PushInv, NEW q \in Pushes, FindFiltered(q) \/ FindAny(q)
    PROVE  PushInv'
  <1> DEFINE r == pushing[q]
  <1>1. r \in Asked /\ PushOK(r) /\ r.pc \in {"filtered", "any"}
    BY DEF FindFiltered, FindAny, PushInv, PushTypeOK, ListedPush, Asked
  <1>2. /\ r.cell \in Cells /\ r.shown \in SUBSET Consignees /\ r.filter \in Filtering
        /\ \A b \in r.shown : WasShown(b, r)
    BY <1>1 DEF Asked, PushOK
  <1> DEFINE f == IF r.pc = "filtered" THEN r.filter ELSE NoFilter
             missing == IF r.pc = "filtered" THEN "any" ELSE "404"
  <1>3. Search(q, f, missing)
    BY <1>1 DEF FindFiltered, FindAny
  <1>4. PICK top \in TopBuyers(f.country, f.limit) :
          pushing' = [pushing EXCEPT
             ![q].pc = IF SegmentExists(Segment(r.cell, top, f))
                       THEN Decision(r.mail, Segment(r.cell, top, f)) ELSE missing,
             ![q].segment = Segment(r.cell, top, f)]
    BY <1>3 DEF Search
  <1> DEFINE s == Segment(r.cell, top, f)
             pc == IF SegmentExists(s) THEN Decision(r.mail, s) ELSE missing
             n == [r EXCEPT !.pc = pc, !.segment = s]
  <1>5. pushing' = [pushing EXCEPT ![q] = n] /\ UNCHANGED known
    BY <1>3, <1>4 DEF Search, PushInv, PushTypeOK
  <1>6. f \in Filtering
    BY <1>2, CampaignAssumption DEF NoFilter, Filtering
  <1>7. top \subseteq Stored(f.country) /\ (Cardinality(Stored(f.country)) <= f.limit => top = Stored(f.country))
    BY DEF TopBuyers
  <1>8. s \in Segments /\ AllOf(s) = {b \in top \cap f.passes : known[b] >= f.atLeast /\ Frequency(known[b]) = r.cell}
    BY <1>6, <1>7 DEF Segment, Segments, AllOf, Stored, Filtering
  <1>9. pc \in {"any"} \union Decided /\ (pc = "any" => r.pc = "filtered" /\ AllOf(s) = {})
    BY DEF Decision, Decided, SegmentExists
  <1>10. n \in Asked /\ n.pc = pc /\ n.segment = s /\ n.cell = r.cell /\ n.filter = r.filter /\ n.shown = r.shown
    <2> HIDE DEF s, pc
    <2> QED BY <1>1, <1>8, <1>9 DEF Asked
  <1>11. ASSUME InLimit(r), r.pc = "filtered"
         PROVE  Still(r) \subseteq AllOf(s) /\ AllOf(s) \subseteq r.filter.passes
    <2>1. top = Stored(r.filter.country) /\ f = r.filter
      BY <1>7, <1>11 DEF InLimit
    <2>2. ASSUME NEW b \in Still(r) PROVE b \in AllOf(s)
      <3>1. b \in r.shown /\ Frequency(known[b]) = r.cell /\ WasShown(b, r) /\ known[b] \in Nat
        BY <1>2, <2>2 DEF Still, PushInv, PushTypeOK
      <3>2. known[b] > 0
        BY <1>2, <3>1 DEF Frequency, Cells
      <3> QED BY <1>8, <2>1, <3>1, <3>2 DEF WasShown, Stored
    <2> QED BY <1>8, <2>1, <2>2
  <1>12. InLimit(r) /\ r.pc = "any" => Still(r) = {}
    BY <1>1 DEF PushOK
  <1>13. PushOK(n)
    <2>1. InLimit(n) = InLimit(r) /\ Still(n) = Still(r) /\ \A b \in n.shown : WasShown(b, n)
      BY <1>2, <1>10 DEF InLimit, Still, WasShown
    <2>2. InLimit(r) => /\ pc = "any" => Still(r) = {}
                        /\ Still(r) \subseteq AllOf(s)
                        /\ Still(r) # {} => AllOf(s) \subseteq r.filter.passes
      BY <1>1, <1>9, <1>11, <1>12
    <2> HIDE DEF n, pc, s, r
    <2> QED BY <1>10, <2>1, <2>2 DEF PushOK
  <1> HIDE DEF n
  <1> QED BY <1>5, <1>10, <1>13, PushKeeps

LEMMA PushStep == PushInv /\ [CampaignNext]_campaignVars => PushInv'
  <1> SUFFICES ASSUME PushInv, [CampaignNext]_campaignVars PROVE PushInv'
    OBVIOUS
  <1>1. CASE UNCHANGED campaignVars
    BY <1>1 DEF campaignVars, PushInv, PushTypeOK, PushOK, WasShown, InLimit, Still, Stored
  <1>2. ASSUME NEW b \in Consignees, Collected(b) PROVE PushInv'
    BY <1>2, CollectedKeeps
  <1>3. ASSUME NEW q \in Pushes, ListSegments(q) PROVE PushInv'
    <2>1. PICK filter \in SegmentFilters, cell \in Cells :
            \E top \in TopBuyers(filter.country, filter.limit) :
               pushing' = [pushing EXCEPT ![q] =
                  [pc |-> "listed", cell |-> cell, filter |-> filter,
                   shown |-> AllOf(Segment(cell, top, filter))]]
      BY <1>3 DEF ListSegments, Cells
    <2>2. PICK top \in TopBuyers(filter.country, filter.limit) :
            pushing' = [pushing EXCEPT ![q] =
               [pc |-> "listed", cell |-> cell, filter |-> filter,
                shown |-> AllOf(Segment(cell, top, filter))]]
      BY <2>1
    <2> DEFINE shown == AllOf(Segment(cell, top, filter))
               r == [pc |-> "listed", cell |-> cell, filter |-> filter, shown |-> shown]
    <2>3. filter \in Filtering /\ top \subseteq Stored(filter.country)
      BY CampaignAssumption DEF Filtering, TopBuyers
    <2>4. shown = {b \in top \cap filter.passes : known[b] >= filter.atLeast /\ Frequency(known[b]) = cell}
      BY DEF Segment, AllOf
    <2>5. shown \in SUBSET Consignees /\ \A b \in shown : b \in filter.country /\ known[b] \in Nat
      BY <2>3, <2>4 DEF Stored, Filtering, PushInv, PushTypeOK
    <2> HIDE DEF shown
    <2>6. r \in ListedPush /\ PushOK(r)
      <3>1. r \in ListedPush
        BY <2>3, <2>5 DEF ListedPush
      <3>2. \A b \in shown : WasShown(b, r)
        BY <2>4, <2>5 DEF WasShown
      <3> QED BY <3>1, <3>2 DEF PushOK, Decided
    <2>7. pushing' = [pushing EXCEPT ![q] = r] /\ UNCHANGED known
      BY <1>3, <2>2 DEF ListSegments, shown
    <2> HIDE DEF r
    <2> QED BY <2>6, <2>7, PushKeeps
  <1>4. ASSUME NEW q \in Pushes, AskPush(q) PROVE PushInv'
    <2>1. PICK mail \in MailRequests :
            pushing' = [pushing EXCEPT ![q] =
               [pc |-> "filtered", cell |-> pushing[q].cell, filter |-> pushing[q].filter,
                shown |-> pushing[q].shown, mail |-> mail, segment |-> NoSegment]]
      BY <1>4 DEF AskPush
    <2> DEFINE r == [pc |-> "filtered", cell |-> pushing[q].cell, filter |-> pushing[q].filter,
                     shown |-> pushing[q].shown, mail |-> mail, segment |-> NoSegment]
    <2>2. pushing[q] \in ListedPush /\ \A b \in pushing[q].shown : WasShown(b, pushing[q])
      BY <1>4 DEF AskPush, PushInv, PushTypeOK, PushOK, Asked, Decided
    <2>3. r \in Asked
      BY <2>2, CampaignAssumption DEF ListedPush, Asked, NoSegment, Segments, Mailing
    <2>4. PushOK(r)
      BY <2>2 DEF PushOK, WasShown, Decided
    <2>5. pushing' = [pushing EXCEPT ![q] = r] /\ UNCHANGED known
      BY <1>4, <2>1 DEF AskPush
    <2> HIDE DEF r
    <2> QED BY <2>3, <2>4, <2>5, PushKeeps
  <1>5. ASSUME NEW q \in Pushes, DeliverPush(q) PROVE PushInv'
    <2>1. PICK pc \in {"sent", "failed"} : pushing' = [pushing EXCEPT ![q].pc = pc]
      BY <1>5 DEF DeliverPush
    <2> DEFINE r == [pushing[q] EXCEPT !.pc = pc]
    <2>2. pushing[q].pc = "sending" /\ pushing[q] \in Asked /\ PushOK(pushing[q])
      BY <1>5 DEF DeliverPush, PushInv, PushTypeOK, ListedPush
    <2>3. /\ r \in Asked /\ r.pc = pc /\ r.cell = pushing[q].cell /\ r.filter = pushing[q].filter
          /\ r.shown = pushing[q].shown /\ r.segment = pushing[q].segment
      BY <2>2 DEF Asked, Decided
    <2>4. PushOK(r)
      BY <2>2, <2>3 DEF PushOK, WasShown, InLimit, Still, Decided
    <2>5. pushing' = [pushing EXCEPT ![q] = r] /\ UNCHANGED known
      BY <1>5, <2>1 DEF DeliverPush, PushInv, PushTypeOK
    <2> HIDE DEF r
    <2> QED BY <2>3, <2>4, <2>5, PushKeeps
  <1> QED BY <1>1, <1>2, <1>3, <1>4, <1>5, SearchKeeps DEF CampaignNext

(* Whatever arrives in the store between the listing, the two searches and  *)
(* the delivery, and however many clients there are: what is pushed has the *)
(* buyers the client was shown that are still in the cell, and as long as   *)
(* there is one nobody its filter leaves out, within the filter's limit.    *)
THEOREM PushesFollowListings == CampaignSpec => []PushedWasShown
  <1>1. CampaignInit => PushInv
    BY DEF CampaignInit, PushInv, PushTypeOK, PushOK
  <1> QED BY <1>1, PushInvEnough, PushStep, PTL DEF CampaignSpec

-----------------------------------------------------------------------------
(* Customs data: who holds SQLite's lock to write has all of the file in   *)
(* its draft, and an ingest has in its process's view what it has written. *)

Extends(content, file) ==
    /\ file.trades \subseteq content.trades
    /\ \A b \in Buyers : file.total[b] > 0 => content.total[b] > 0
File == [trades |-> trades, total |-> total]

WritersOK ==
    /\ \A p \in Processes, q \in Processes : Writes(p) /\ Writes(q) => p = q
    /\ \A p \in Processes : Writes(p) => Extends(draft[p], File)

\* What an ingest relies on from its first statement to its answer.
CarriesOK(i) ==
    LET r == ingest[i]
    IN  /\ r.pc = "commit" /\ r.tier = 1 => i \in View(r.proc).trades
        /\ r.pc = "done" /\ r.tier = 1 => i \in trades
        /\ r.tier = 2 /\ r.pc \in {"store", "init", "read", "write", "commit"} =>
              \A b \in Buyers : r.batch[b] > 0 /\ b \notin r.todo => View(r.proc).total[b] > 0
        /\ r.tier = 2 /\ r.pc = "done" => \A b \in Buyers : r.batch[b] > 0 => total[b] > 0
        /\ r.tier = 2 /\ r.pc \in {"store", "init", "read", "write", "commit"} =>
              \A b \in r.todo : r.batch[b] > 0
        /\ r.tier = 2 /\ r.pc = "commit" => r.todo = {}
        /\ r.tier = 2 /\ r.pc = "write" => r.buyer \in r.todo /\ r.seen <= shipments[r.buyer]

CustomsInv ==
    /\ CustomsTypeOK
    /\ WritersOK
    /\ NeverCountedTwice
    /\ \A i \in Ingests : CarriesOK(i)

LEMMA CustomsInvEnough == CustomsInv => CountsSound
  <1> SUFFICES ASSUME CustomsInv PROVE AcknowledgedIsCommitted
    BY DEF CustomsInv, CountsSound
  <1> SUFFICES ASSUME NEW i \in Ingests, ingest[i].pc = "done"
               PROVE  IF ingest[i].tier = 1 THEN i \in trades
                      ELSE \A b \in Named(ingest[i].batch) : total[b] > 0
    BY DEF AcknowledgedIsCommitted, IngestAt
  <1>1. CarriesOK(i) /\ ingest[i].tier \in {1, 2}
    BY DEF CustomsInv, CustomsTypeOK
  <1> QED BY <1>1 DEF CarriesOK, Named

\* What a process sees is well typed, and has the file.
LEMMA ViewType ==
    ASSUME CustomsInv, NEW p \in Processes
    PROVE  /\ View(p) \in [trades : SUBSET Ingests, total : [Buyers -> Nat]]
           /\ Extends(View(p), File)
           /\ \A b \in Buyers : View(p).total[b] <= shipments[b]
  <1>1. CASE Writes(p)
    <2>1. View(p) = draft[p]
      BY <1>1 DEF View
    <2> QED BY <1>1, <2>1 DEF CustomsInv, CustomsTypeOK, WritersOK, NeverCountedTwice
  <1>2. CASE ~Writes(p)
    <2>1. View(p) = File
      BY <1>2 DEF View, File
    <2> QED BY <2>1 DEF CustomsInv, CustomsTypeOK, NeverCountedTwice, Extends, File
  <1> QED BY <1>1, <1>2

\* A step of others: the file, the view of its process and the counts grow.
LEMMA CarryOn ==
    ASSUME NEW i \in Ingests, CarriesOK(i), ingest'[i] = ingest[i], CustomsTypeOK, CustomsTypeOK',
           Extends(File', File),
           ingest[i].pc \in {"new", "done", "failed"} \/ Extends(View(ingest[i].proc)', View(ingest[i].proc)),
           \A b \in Buyers : shipments[b] <= shipments'[b]
    PROVE  CarriesOK(i)'
  <1> DEFINE r == ingest[i]
  <1>1. /\ r.todo \subseteq Buyers /\ r.seen \in Nat
        /\ \A b \in Buyers : shipments[b] \in Nat /\ shipments'[b] \in Nat
    BY DEF CustomsTypeOK
  <1>2. /\ trades \subseteq trades' /\ \A b \in Buyers : total[b] > 0 => total'[b] > 0
    BY DEF Extends, File
  <1>3. r.pc = "commit" /\ r.tier = 1 => i \in View(r.proc)'.trades
    BY DEF CarriesOK, Extends
  <1>4. r.tier = 2 /\ r.pc \in {"store", "init", "read", "write", "commit"} =>
           \A b \in Buyers : r.batch[b] > 0 /\ b \notin r.todo => View(r.proc)'.total[b] > 0
    BY DEF CarriesOK, Extends
  <1>5. r.tier = 2 /\ r.pc = "write" => r.buyer \in r.todo /\ r.seen <= shipments'[r.buyer]
    BY <1>1 DEF CarriesOK
  <1> QED BY <1>2, <1>3, <1>4, <1>5 DEF CarriesOK

IngestType ==
    [pc : {"new", "fetch", "store", "init", "read", "write", "commit", "done", "failed"},
     proc : Processes, tier : {1, 2}, page : 1..MaxPages, batch : [Buyers -> Nat],
     todo : SUBSET Buyers, buyer : Buyers \union {Nameless}, seen : Nat]

\* Steps that write nothing.
LEMMA LocksKeep ==
    ASSUME CustomsInv, UNCHANGED <<trades, total, draft, shipments>>, tables' \in BOOLEAN,
           lock' \in [Processes -> Locks], \A p \in Processes : Writes(p)' <=> Writes(p),
           opened' \subseteq Processes, ingest' \in [Ingests -> IngestType],
           \A i \in Ingests : ingest'[i] = ingest[i] \/ CarriesOK(i)'
    PROVE  CustomsInv'
  <1>1. CustomsTypeOK'
    BY DEF CustomsInv, CustomsTypeOK, IngestType
  <1>2. ASSUME NEW p \in Processes PROVE View(p)' = View(p)
    BY <1>2 DEF View
  <1>3. WritersOK'
    BY DEF CustomsInv, WritersOK, Extends, File
  <1>4. NeverCountedTwice'
    BY DEF CustomsInv, NeverCountedTwice
  <1>5. \A i \in Ingests : CarriesOK(i)'
    <2> SUFFICES ASSUME NEW i \in Ingests, ingest'[i] = ingest[i] PROVE CarriesOK(i)'
      OBVIOUS
    <2>1. CarriesOK(i) /\ CustomsTypeOK /\ ingest[i].proc \in Processes
      BY DEF CustomsInv, CustomsTypeOK
    <2>2. Extends(File', File) /\ Extends(View(ingest[i].proc)', View(ingest[i].proc))
      <3>1. View(ingest[i].proc)' = View(ingest[i].proc)
        BY <1>2, <2>1
      <3> QED BY <3>1 DEF Extends, File
    <2>3. \A b \in Buyers : shipments[b] <= shipments'[b]
      BY <2>1 DEF CustomsTypeOK
    <2> QED BY <1>1, <2>1, <2>2, <2>3, CarryOn
  <1> QED BY <1>1, <1>3, <1>4, <1>5 DEF CustomsInv

\* A change by the one who may write: its draft grows, and stays within what
\* was shipped.
LEMMA WritingKeeps ==
    ASSUME CustomsInv, NEW p \in Processes,
           NEW content \in [trades : SUBSET Ingests, total : [Buyers -> Nat]],
           MayWrite(p), Writing(p, content), Extends(content, View(p)),
           shipments' \in [Buyers -> Nat], \A b \in Buyers : shipments[b] <= shipments'[b],
           \A b \in Buyers : content.total[b] <= shipments'[b],
           UNCHANGED <<tables, trades, total, opened>>, ingest' \in [Ingests -> IngestType],
           \A i \in Ingests : ingest'[i] = ingest[i] \/ CarriesOK(i)'
    PROVE  /\ CustomsInv'
           /\ View(p)' = content
  <1>0. lock \in [Processes -> Locks] /\ draft \in [Processes -> [trades : SUBSET Ingests, total : [Buyers -> Nat]]]
    BY DEF CustomsInv, CustomsTypeOK
  <1>1. /\ lock'[p] \in {"reserved", "pending"} /\ draft'[p] = content
        /\ \A q \in Processes : q # p => lock'[q] = lock[q] /\ draft'[q] = draft[q]
        /\ lock' \in [Processes -> Locks]
        /\ draft' \in [Processes -> [trades : SUBSET Ingests, total : [Buyers -> Nat]]]
    BY <1>0 DEF Writing, Locks
  <1>2. /\ Writes(p)' /\ \A q \in Processes : q # p => ~Writes(q) /\ ~Writes(q)'
    BY <1>1 DEF MayWrite, Writes
  <1>3. CustomsTypeOK'
    BY <1>1 DEF CustomsInv, CustomsTypeOK, IngestType
  <1>4. View(p)' = content
    BY <1>1, <1>2 DEF View
  <1>5. Extends(content, File)
    BY ViewType DEF Extends
  <1>6. File' = File
    BY DEF File
  <1>7. WritersOK'
    BY <1>1, <1>2, <1>5, <1>6 DEF WritersOK
  <1>8. NeverCountedTwice'
    <2>1. \A b \in Buyers : total[b] <= shipments'[b]
      BY DEF CustomsInv, NeverCountedTwice, CustomsTypeOK
    <2> QED BY <1>1, <1>2, <2>1 DEF NeverCountedTwice
  <1>9. \A i \in Ingests : CarriesOK(i)'
    <2> SUFFICES ASSUME NEW i \in Ingests, ingest'[i] = ingest[i] PROVE CarriesOK(i)'
      OBVIOUS
    <2>1. CarriesOK(i) /\ CustomsTypeOK /\ ingest[i].proc \in Processes
      BY DEF CustomsInv, CustomsTypeOK
    <2>2. Extends(View(ingest[i].proc)', View(ingest[i].proc))
      <3>1. CASE ingest[i].proc = p
        BY <1>4, <3>1
      <3>2. CASE ingest[i].proc # p
        <4>1. View(ingest[i].proc)' = View(ingest[i].proc)
          BY <1>2, <2>1, <3>2 DEF View
        <4> QED BY <4>1 DEF Extends
      <3> QED BY <3>1, <3>2
    <2>3. Extends(File', File)
      BY <1>6 DEF Extends
    <2> QED BY <1>3, <2>1, <2>2, <2>3, CarryOn
  <1> QED BY <1>3, <1>4, <1>7, <1>8, <1>9 DEF CustomsInv

\* A commit: the file becomes what its process sees, and nobody sees less.
LEMMA CommittingKeeps ==
    ASSUME CustomsInv, NEW p \in Processes, Committing(p),
           UNCHANGED <<opened, shipments>>, tables' \in BOOLEAN, ingest' \in [Ingests -> IngestType],
           \A i \in Ingests : ingest'[i] = ingest[i] \/ CarriesOK(i)'
    PROVE  /\ CustomsInv'
           /\ File' = View(p) /\ View(p)' = View(p)
  <1>0. lock \in [Processes -> Locks] /\ draft \in [Processes -> [trades : SUBSET Ingests, total : [Buyers -> Nat]]]
    BY DEF CustomsInv, CustomsTypeOK
  <1>1. /\ lock'[p] = "none" /\ \A q \in Processes : q # p => lock'[q] = lock[q] /\ draft'[q] = draft[q]
        /\ lock' \in [Processes -> Locks]
        /\ draft' \in [Processes -> [trades : SUBSET Ingests, total : [Buyers -> Nat]]]
    BY <1>0 DEF Committing, Locks, NoDraft
  <1>2. /\ View(p) \in [trades : SUBSET Ingests, total : [Buyers -> Nat]]
        /\ Extends(View(p), File) /\ \A b \in Buyers : View(p).total[b] <= shipments[b]
    BY ViewType
  <1>3. /\ trades' = View(p).trades /\ total' = View(p).total
    BY DEF Committing
  <1>4. File' = View(p)
    BY <1>2, <1>3 DEF File
  <1>5. ~Writes(p)' /\ \A q \in Processes : q # p => (Writes(q)' <=> Writes(q))
    BY <1>1 DEF Writes
  <1>6. View(p)' = View(p)
    BY <1>4, <1>5 DEF View, File
  <1>7. CustomsTypeOK'
    BY <1>1, <1>2, <1>3 DEF CustomsInv, CustomsTypeOK, IngestType
  <1>8. ASSUME NEW q \in Processes, q # p PROVE Extends(View(q)', View(q))
    <2>1. CASE Writes(q)
      BY <1>1, <1>5, <1>8, <2>1 DEF View, Extends
    <2>2. CASE ~Writes(q)
      <3>1. View(q) = File /\ View(q)' = File'
        BY <1>5, <1>8, <2>2 DEF View, File
      <3> QED BY <1>2, <1>4, <3>1
    <2> QED BY <2>1, <2>2
  <1>9. WritersOK'
    <2>1. \A q \in Processes, r \in Processes : Writes(q)' /\ Writes(r)' => q = r
      BY <1>5 DEF CustomsInv, WritersOK
    <2>2. ASSUME NEW q \in Processes, Writes(q)' PROVE Extends(draft'[q], File')
      <3>1. q # p /\ Writes(q)
        BY <1>5, <2>2
      <3>2. ~Writes(p)
        BY <3>1 DEF CustomsInv, WritersOK
      <3>3. File' = File
        BY <1>4, <3>2 DEF View, File
      <3> QED BY <1>1, <3>1, <3>3 DEF CustomsInv, WritersOK
    <2> QED BY <2>1, <2>2 DEF WritersOK
  <1>10. NeverCountedTwice'
    BY <1>1, <1>2, <1>3, <1>5 DEF CustomsInv, NeverCountedTwice
  <1>11. \A i \in Ingests : CarriesOK(i)'
    <2> SUFFICES ASSUME NEW i \in Ingests, ingest'[i] = ingest[i] PROVE CarriesOK(i)'
      OBVIOUS
    <2>1. CarriesOK(i) /\ CustomsTypeOK /\ ingest[i].proc \in Processes
      BY DEF CustomsInv, CustomsTypeOK
    <2>2. Extends(View(ingest[i].proc)', View(ingest[i].proc))
      <3>1. CASE ingest[i].proc = p
        BY <1>6, <3>1 DEF Extends
      <3>2. CASE ingest[i].proc # p
        BY <1>8, <2>1, <3>2
      <3> QED BY <3>1, <3>2
    <2>3. Extends(File', File)
      BY <1>2, <1>4
    <2>4. \A b \in Buyers : shipments[b] <= shipments'[b]
      BY <2>1 DEF CustomsTypeOK
    <2> QED BY <1>7, <2>1, <2>2, <2>3, <2>4, CarryOn
  <1> QED BY <1>4, <1>6, <1>7, <1>9, <1>10, <1>11 DEF CustomsInv

IngestStage == {"new", "fetch", "store", "init", "read", "write", "commit", "done", "failed"}

\* A new record of one ingest leaves the others alone.
LEMMA IngestBecomes ==
    ASSUME CustomsInv, NEW i \in Ingests, NEW r \in IngestType, ingest' = [ingest EXCEPT ![i] = r]
    PROVE  /\ ingest' \in [Ingests -> IngestType] /\ ingest'[i] = r
           /\ \A j \in Ingests : j # i => ingest'[j] = ingest[j]
           /\ r.pc \in {"new", "fetch", "failed"} => CarriesOK(i)'
  <1>1. ingest \in [Ingests -> IngestType]
    BY DEF CustomsInv, CustomsTypeOK, IngestType
  <1>2. /\ ingest' \in [Ingests -> IngestType] /\ ingest'[i] = r
        /\ \A j \in Ingests : j # i => ingest'[j] = ingest[j]
    BY <1>1
  <1>3. r.pc \in {"new", "fetch", "failed"} => CarriesOK(i)'
    BY <1>2 DEF CarriesOK
  <1> QED BY <1>2, <1>3

LEMMA IngestMoves ==
    ASSUME CustomsInv, NEW i \in Ingests, NEW pc \in IngestStage, IngestTo(i, pc)
    PROVE  /\ ingest' \in [Ingests -> IngestType]
           /\ ingest'[i] = [ingest[i] EXCEPT !.pc = pc] /\ ingest'[i] \in IngestType
           /\ ingest'[i].proc = ingest[i].proc
           /\ \A j \in Ingests : j # i => ingest'[j] = ingest[j]
           /\ pc \in {"new", "fetch", "failed"} => CarriesOK(i)'
  <1> DEFINE r == [ingest[i] EXCEPT !.pc = pc]
  <1>1. ingest \in [Ingests -> IngestType]
    BY DEF CustomsInv, CustomsTypeOK, IngestType
  <1>2. r \in IngestType /\ r.pc = pc /\ r.proc = ingest[i].proc
    BY <1>1 DEF IngestStage, IngestType
  <1>3. ingest' = [ingest EXCEPT ![i] = r]
    BY <1>1 DEF IngestTo
  <1> HIDE DEF r
  <1>4. /\ ingest' \in [Ingests -> IngestType] /\ ingest'[i] = r
        /\ \A j \in Ingests : j # i => ingest'[j] = ingest[j]
        /\ r.pc \in {"new", "fetch", "failed"} => CarriesOK(i)'
    BY <1>2, <1>3, IngestBecomes
  <1> QED BY <1>2, <1>4 DEF r

\* A step that writes nothing, and after which an ingest has failed.
LEMMA FailingKeeps ==
    ASSUME CustomsInv, NEW i \in Ingests, IngestTo(i, "failed"),
           UNCHANGED <<trades, total, draft, shipments, tables, opened>>,
           lock' \in [Processes -> Locks], \A p \in Processes : Writes(p)' <=> Writes(p)
    PROVE  CustomsInv'
  <1>1. /\ ingest' \in [Ingests -> IngestType] /\ CarriesOK(i)'
        /\ \A j \in Ingests : j # i => ingest'[j] = ingest[j]
    BY IngestMoves DEF IngestStage
  <1>2. tables' \in BOOLEAN /\ opened' \subseteq Processes
    BY DEF CustomsInv, CustomsTypeOK
  <1> QED BY <1>1, <1>2, LocksKeep

\* What an aggregated manifest counts.
LEMMA AggregateType ==
    ASSUME CustomsAssumption, NEW m \in Manifests
    PROVE  Aggregate(m) \in [Buyers -> Nat]
  <1> SUFFICES ASSUME NEW b \in Buyers PROVE Cardinality({n \in DOMAIN m : m[n] = b}) \in Nat
    BY DEF Aggregate
  <1>1. m \in Seq(Buyers \union {Nameless})
    BY DEF CustomsAssumption
  <1>2. DOMAIN m = 1..Len(m) /\ Len(m) \in Nat
    BY <1>1
  <1>3. IsFiniteSet(DOMAIN m)
    BY <1>2, FS_Interval
  <1>4. IsFiniteSet({n \in DOMAIN m : m[n] = b})
    <2>1. {n \in DOMAIN m : m[n] = b} \subseteq DOMAIN m
      OBVIOUS
    <2> QED BY <1>3, <2>1, FS_Subset
  <1> QED BY <1>4, FS_CardinalityType

\* Where an ingest goes once the store is open.
LEMMA StoreStepCarries ==
    ASSUME CustomsInv, NEW i \in Ingests, ingest[i].pc \in {"store", "init"},
           NEW pc \in {StoreStep(i), "init"}, IngestTo(i, pc),
           CustomsAssumption, trades \subseteq trades',
           Extends(View(ingest[i].proc)', View(ingest[i].proc))
    PROVE  CarriesOK(i)'
  <1>0. StoreStep(i) \in IngestStage /\ pc \in IngestStage
    BY DEF StoreStep, IngestStage
  <1>1. /\ ingest'[i] = [ingest[i] EXCEPT !.pc = pc] /\ ingest[i] \in IngestType
    BY <1>0, IngestMoves DEF CustomsInv, CustomsTypeOK, IngestType
  <1>2. /\ ingest'[i].pc = pc /\ ingest'[i].tier = ingest[i].tier /\ ingest'[i].proc = ingest[i].proc
        /\ ingest'[i].batch = ingest[i].batch /\ ingest'[i].todo = ingest[i].todo
    BY <1>1 DEF IngestType
  <1>3. CarriesOK(i)
    BY DEF CustomsInv
  <1>4. ingest[i].tier = 1 => pc \in {"write", "init"}
    BY DEF StoreStep
  <1>5. ingest[i].tier = 2 => pc \in {"commit", "read", "init"} /\ (pc = "commit" => ingest[i].todo = {})
    BY DEF StoreStep
  <1>6. ingest[i].tier = 2 => \A b \in Buyers :
           ingest[i].batch[b] > 0 /\ b \notin ingest[i].todo => View(ingest[i].proc)'.total[b] > 0
    BY <1>3 DEF CarriesOK, Extends
  <1>7. ingest[i].tier = 2 => \A b \in ingest[i].todo : ingest[i].batch[b] > 0
    BY <1>3 DEF CarriesOK
  <1>8. ingest[i].tier \in {1, 2}
    BY <1>1 DEF IngestType
  <1> QED BY <1>2, <1>4, <1>5, <1>6, <1>7, <1>8 DEF CarriesOK

\* Collecting touches nothing but the ingest.
LEMMA FetchingKeeps ==
    ASSUME CustomsInv, CustomsAssumption, NEW i \in Ingests,
           ReceiveIngest(i) \/ FetchPage(i) \/ FetchBol(i)
    PROVE  CustomsInv'
  <1> DEFINE r == ingest[i]
  <1>0. r \in IngestType /\ r.page \in 1..MaxPages /\ MaxPages \in Nat /\ CarriesOK(i)
    BY DEF CustomsInv, CustomsTypeOK, IngestType, CustomsAssumption
  <1>1. ASSUME NEW now \in IngestType, ingest' = [ingest EXCEPT ![i] = now], CarriesOK(i)',
               UNCHANGED <<store, opened, lock, draft, shipments>>
        PROVE  CustomsInv'
    <2>1. /\ ingest' \in [Ingests -> IngestType]
          /\ \A j \in Ingests : j # i => ingest'[j] = ingest[j]
      BY <1>1, IngestBecomes
    <2>2. \A p \in Processes : Writes(p)' <=> Writes(p)
      BY <1>1 DEF Writes
    <2> QED BY <1>1, <2>1, <2>2, LocksKeep DEF store, CustomsInv, CustomsTypeOK
  <1>2. CASE ReceiveIngest(i)
    <2>1. PICK p \in Processes, tier \in {1, 2} :
             ingest' = [ingest EXCEPT ![i].pc = "fetch", ![i].proc = p, ![i].tier = tier]
      BY <1>2 DEF ReceiveIngest
    <2> DEFINE now == [[[r EXCEPT !.pc = "fetch"] EXCEPT !.proc = p] EXCEPT !.tier = tier]
    <2>2. now \in IngestType /\ now.pc = "fetch"
      BY <1>0 DEF IngestType
    <2>3. ingest' = [ingest EXCEPT ![i] = now]
      BY <2>1 DEF CustomsInv, CustomsTypeOK
    <2> HIDE DEF now
    <2>4. CarriesOK(i)'
      BY <2>2, <2>3, IngestBecomes
    <2> QED BY <1>1, <1>2, <2>2, <2>3, <2>4 DEF ReceiveIngest
  <1>3. CASE FetchPage(i)
    <2>0. r.tier = 1 /\ r.pc = "fetch" /\ UNCHANGED <<store, opened, lock, draft, shipments>>
      BY <1>3 DEF FetchPage, IngestAt
    <2>1. CASE r.page < MaxPages /\ ingest' = [ingest EXCEPT ![i].page = @ + 1]
      <3> DEFINE now == [r EXCEPT !.page = @ + 1]
      <3>1. now \in IngestType /\ now.pc = "fetch"
        BY <1>0, <2>0, <2>1 DEF IngestType
      <3>2. ingest' = [ingest EXCEPT ![i] = now]
        BY <2>1 DEF CustomsInv, CustomsTypeOK
      <3> HIDE DEF now
      <3> QED BY <1>1, <2>0, <3>1, <3>2, IngestBecomes
    <2>2. ASSUME NEW pc \in {"store", "failed"}, IngestTo(i, pc) PROVE CustomsInv'
      <3> DEFINE now == [r EXCEPT !.pc = pc]
      <3>1. now \in IngestType /\ now.pc = pc /\ now.tier = 1
        BY <1>0, <2>0 DEF IngestType
      <3>2. ingest' = [ingest EXCEPT ![i] = now]
        BY <2>2 DEF IngestTo, CustomsInv, CustomsTypeOK
      <3> HIDE DEF now
      <3>3. ingest'[i] = now
        BY <3>1, <3>2, IngestBecomes
      <3>4. CarriesOK(i)'
        BY <3>1, <3>3 DEF CarriesOK
      <3> QED BY <1>1, <2>0, <3>1, <3>2, <3>4
    <2> QED BY <1>3, <2>1, <2>2 DEF FetchPage
  <1>4. CASE FetchBol(i)
    <2>0. r.tier = 2 /\ r.pc = "fetch" /\ UNCHANGED <<store, opened, lock, draft, shipments>>
      BY <1>4 DEF FetchBol, IngestAt
    <2>1. ASSUME NEW m \in Manifests,
                 ingest' = [ingest EXCEPT ![i].pc = "store", ![i].batch = Aggregate(m),
                                          ![i].todo = Named(Aggregate(m))]
          PROVE  CustomsInv'
      <3> DEFINE now == [[[r EXCEPT !.pc = "store"] EXCEPT !.batch = Aggregate(m)]
                            EXCEPT !.todo = Named(Aggregate(m))]
      <3>1. Aggregate(m) \in [Buyers -> Nat] /\ Named(Aggregate(m)) \subseteq Buyers
        BY AggregateType DEF Named
      <3>2. /\ now \in IngestType /\ now.pc = "store" /\ now.batch = Aggregate(m)
            /\ now.todo = Named(now.batch)
        BY <1>0, <3>1 DEF IngestType
      <3>3. ingest' = [ingest EXCEPT ![i] = now]
        BY <2>1 DEF CustomsInv, CustomsTypeOK
      <3> HIDE DEF now
      <3>4. ingest'[i] = now
        BY <3>2, <3>3, IngestBecomes
      <3>5. CarriesOK(i)'
        BY <3>2, <3>4 DEF CarriesOK, Named
      <3> QED BY <1>1, <2>0, <3>2, <3>3, <3>5
    <2>2. CASE IngestTo(i, "failed")
      <3>1. \A p \in Processes : Writes(p)' <=> Writes(p)
        BY <2>0 DEF Writes
      <3> QED BY <2>0, <2>2, <3>1, FailingKeeps DEF store, CustomsInv, CustomsTypeOK
    <2> QED BY <1>4, <2>1, <2>2 DEF FetchBol
  <1> QED BY <1>2, <1>3, <1>4

\* Opening the store, and making its tables, which commits what is open.
LEMMA OpeningKeeps ==
    ASSUME CustomsInv, CustomsAssumption, NEW i \in Ingests, OpenStore(i) \/ InitTables(i)
    PROVE  CustomsInv'
  <1>0. ingest[i] \in IngestType /\ ProcOf(i) = ingest[i].proc /\ ingest[i].proc \in Processes
    BY DEF CustomsInv, CustomsTypeOK, IngestType, ProcOf
  <1>1. StoreStep(i) \in IngestStage
    BY DEF StoreStep, IngestStage
  <1>2. CASE OpenStore(i)
    <2>1. PICK pc \in {StoreStep(i), "init"} : IngestTo(i, pc)
      BY <1>2 DEF OpenStore
    <2>2. /\ ingest[i].pc = "store" /\ UNCHANGED <<store, lock, draft, shipments>>
          /\ opened' = opened \union {ProcOf(i)}
      BY <1>2 DEF OpenStore, IngestAt
    <2>3. /\ ingest' \in [Ingests -> IngestType]
          /\ ingest'[i].proc = ingest[i].proc
          /\ \A j \in Ingests : j # i => ingest'[j] = ingest[j]
      <3>1. pc \in IngestStage
        BY <1>1, <2>1 DEF IngestStage
      <3> QED BY <2>1, <3>1, IngestMoves
    <2>4. View(ingest[i].proc)' = View(ingest[i].proc)
      BY <2>2, <2>3 DEF View, Writes, store
    <2>5. CarriesOK(i)'
      BY <2>1, <2>2, <2>4, StoreStepCarries DEF Extends, store
    <2>6. /\ \A p \in Processes : Writes(p)' <=> Writes(p)
          /\ opened' \subseteq Processes /\ lock' \in [Processes -> Locks] /\ tables' \in BOOLEAN
      BY <1>0, <2>2 DEF Writes, store, CustomsInv, CustomsTypeOK
    <2> QED BY <2>2, <2>3, <2>5, <2>6, LocksKeep DEF store
  <1>3. CASE InitTables(i)
    <2>1. CASE IngestTo(i, "failed") /\ UNCHANGED <<store, lock, draft>>
      <3>1. \A p \in Processes : Writes(p)' <=> Writes(p)
        BY <2>1 DEF Writes
      <3> QED BY <1>3, <2>1, <3>1, FailingKeeps DEF InitTables, store, CustomsInv, CustomsTypeOK
    <2>2. CASE Committing(ProcOf(i)) /\ tables' = TRUE /\ IngestTo(i, StoreStep(i))
      <3>1. /\ ingest[i].pc = "init" /\ UNCHANGED <<opened, shipments>>
        BY <1>3 DEF InitTables, IngestAt
      <3>2. /\ ingest' \in [Ingests -> IngestType]
            /\ ingest'[i].proc = ingest[i].proc
            /\ \A j \in Ingests : j # i => ingest'[j] = ingest[j]
        <4>1. IngestTo(i, StoreStep(i))
          BY <2>2
        <4> QED BY <1>1, <4>1, IngestMoves
      <3>3. View(ingest[i].proc)' = View(ingest[i].proc) /\ trades \subseteq trades'
        <4> DEFINE p == ingest[i].proc
        <4>1. lock'[p] = "none" /\ trades' = View(p).trades /\ total' = View(p).total
          BY <1>0, <2>2 DEF Committing, CustomsInv, CustomsTypeOK
        <4>2. View(p) \in [trades : SUBSET Ingests, total : [Buyers -> Nat]] /\ Extends(View(p), File)
          BY <1>0, ViewType
        <4>3. View(p)' = [trades |-> trades', total |-> total']
          BY <3>2, <4>1 DEF View, Writes
        <4> QED BY <4>1, <4>2, <4>3 DEF Extends, File
      <3>4. CarriesOK(i)'
        BY <2>2, <3>1, <3>3, StoreStepCarries DEF Extends
      <3>5. tables' \in BOOLEAN
        BY <2>2
      <3> QED BY <1>0, <2>2, <3>1, <3>2, <3>4, <3>5, CommittingKeeps
    <2> QED BY <1>3, <2>1, <2>2 DEF InitTables
  <1> QED BY <1>2, <1>3

\* A read, whatever it does to the lock, changes what nobody writes.
LEMMA ReadingKeeps ==
    ASSUME CustomsInv, NEW p \in Processes, Reading(p)
    PROVE  lock' \in [Processes -> Locks] /\ \A q \in Processes : Writes(q)' <=> Writes(q)
  <1>1. lock \in [Processes -> Locks]
    BY DEF CustomsInv, CustomsTypeOK
  <1> QED BY <1>1 DEF Reading, Locks, Writes

\* What is read of a buyer is within what was shipped.
LEMMA ReadBuyerKeeps ==
    ASSUME CustomsInv, NEW i \in Ingests, ReadBuyer(i)
    PROVE  CustomsInv'
  <1> DEFINE r == ingest[i]
             p == ingest[i].proc
  <1>0. r \in IngestType /\ ProcOf(i) = p /\ p \in Processes /\ r.pc = "read"
        /\ UNCHANGED <<store, opened, draft, shipments>>
    BY DEF CustomsInv, CustomsTypeOK, IngestType, ProcOf, ReadBuyer, IngestAt
  <1>1. CASE ~(tables /\ MayRead(p))
    <2>0. IngestTo(i, "failed") /\ UNCHANGED lock
      BY <1>0, <1>1 DEF ReadBuyer
    <2>1. \A q \in Processes : Writes(q)' <=> Writes(q)
      BY <2>0 DEF Writes
    <2> QED BY <1>0, <2>0, <2>1, FailingKeeps DEF store, CustomsInv, CustomsTypeOK
  <1>2. CASE tables /\ MayRead(p)
    <2>0. Reading(p)
      BY <1>0, <1>2 DEF ReadBuyer
    <2>1. PICK b \in r.todo :
             ingest' = [ingest EXCEPT ![i].pc = "write", ![i].buyer = b,
                                      ![i].seen = View(p).total[b]]
      BY <1>0, <1>2 DEF ReadBuyer
    <2>2. b \in Buyers /\ View(p).total[b] \in Nat /\ View(p).total[b] <= shipments[b]
      BY <1>0, ViewType DEF IngestType
    <2> DEFINE now == [[[r EXCEPT !.pc = "write"] EXCEPT !.buyer = b] EXCEPT !.seen = View(p).total[b]]
    <2>3. /\ now \in IngestType /\ now.pc = "write" /\ now.buyer = b /\ now.seen = View(p).total[b]
          /\ now.todo = r.todo /\ now.batch = r.batch /\ now.tier = r.tier /\ now.proc = p
      BY <1>0, <2>2 DEF IngestType
    <2>4. ingest' = [ingest EXCEPT ![i] = now]
      BY <2>1 DEF CustomsInv, CustomsTypeOK
    <2> HIDE DEF now
    <2>5. /\ ingest' \in [Ingests -> IngestType] /\ ingest'[i] = now
          /\ \A j \in Ingests : j # i => ingest'[j] = ingest[j]
      BY <2>3, <2>4, IngestBecomes
    <2>6. lock' \in [Processes -> Locks] /\ \A q \in Processes : Writes(q)' <=> Writes(q)
      BY <1>0, <2>0, ReadingKeeps
    <2>7. CarriesOK(i)'
      <3>1. CarriesOK(i)
        BY DEF CustomsInv
      <3>2. View(ingest[i].proc)' = View(p)
        BY <1>0, <2>3, <2>5, <2>6 DEF View, store
      <3>3. shipments' = shipments
        BY <1>0
      <3> QED BY <1>0, <2>2, <2>3, <2>5, <3>1, <3>2, <3>3 DEF CarriesOK
    <2>8. tables' \in BOOLEAN /\ opened' \subseteq Processes
      BY <1>0 DEF store, CustomsInv, CustomsTypeOK
    <2> QED BY <1>0, <2>5, <2>6, <2>7, <2>8, LocksKeep DEF store
  <1> QED BY <1>0, <1>1, <1>2 DEF ReadBuyer

\* A buyer's row is written: what is read plus what is collected is still
\* within what was shipped.
LEMMA WriteBuyerKeeps ==
    ASSUME CustomsInv, NEW i \in Ingests, WriteBuyer(i)
    PROVE  CustomsInv'
  <1> DEFINE r == ingest[i]
             p == ingest[i].proc
             b == ingest[i].buyer
             left == ingest[i].todo \ {ingest[i].buyer}
             sum == ingest[i].seen + ingest[i].batch[b]
  <1>0. /\ r \in IngestType /\ ProcOf(i) = p /\ p \in Processes /\ r.pc = "write" /\ r.tier = 2
        /\ MayWrite(p) /\ UNCHANGED <<store, opened>>
    BY DEF CustomsInv, CustomsTypeOK, IngestType, ProcOf, WriteBuyer, IngestAt
  <1>1. /\ View(p) \in [trades : SUBSET Ingests, total : [Buyers -> Nat]]
        /\ \A c \in Buyers : View(p).total[c] <= shipments[c]
    BY <1>0, ViewType
  <1>2. CarriesOK(i) /\ shipments \in [Buyers -> Nat]
    BY DEF CustomsInv, CustomsTypeOK
  <1>3. b \in r.todo /\ b \in Buyers /\ r.seen <= shipments[b] /\ r.batch[b] > 0
        /\ r.batch \in [Buyers -> Nat] /\ r.seen \in Nat
    BY <1>0, <1>2 DEF CarriesOK, IngestType
  <1>4. UNCHANGED <<tables, trades, total, opened>>
    BY <1>0 DEF store
  <1>5. CASE Writing(p, View(p)) /\ IngestTo(i, "failed") /\ UNCHANGED shipments
    <2>1. /\ ingest' \in [Ingests -> IngestType] /\ CarriesOK(i)'
          /\ \A j \in Ingests : j # i => ingest'[j] = ingest[j]
      BY <1>5, IngestMoves DEF IngestStage
    <2>2. Extends(View(p), View(p))
      BY DEF Extends
    <2>3. \A c \in Buyers : shipments[c] <= shipments'[c] /\ View(p).total[c] <= shipments'[c]
      BY <1>1, <1>2, <1>5
    <2> QED BY <1>0, <1>1, <1>2, <1>4, <1>5, <2>1, <2>2, <2>3, WritingKeeps
  <1>6. CASE /\ Writing(p, [View(p) EXCEPT !.total[b] = sum])
             /\ shipments' = [shipments EXCEPT ![b] = @ + r.batch[b]]
             /\ ingest' = [ingest EXCEPT ![i].todo = left,
                              ![i].pc = IF left = {} THEN "commit" ELSE "read"]
    <2> DEFINE content == [View(p) EXCEPT !.total = [View(p).total EXCEPT ![b] = sum]]
               pc == IF left = {} THEN "commit" ELSE "read"
               now == [[r EXCEPT !.todo = left] EXCEPT !.pc = pc]
    <2>1. sum \in Nat /\ sum > 0 /\ sum <= shipments[b] + r.batch[b]
      BY <1>2, <1>3
    <2>2. /\ content \in [trades : SUBSET Ingests, total : [Buyers -> Nat]]
          /\ content.trades = View(p).trades /\ content.total[b] = sum
          /\ \A c \in Buyers : c # b => content.total[c] = View(p).total[c]
      BY <1>1, <1>3, <2>1
    <2>3. Writing(p, content)
      BY <1>6
    <2> HIDE DEF content
    <2>4. Extends(content, View(p))
      BY <2>1, <2>2 DEF Extends
    <2>5. /\ shipments' \in [Buyers -> Nat] /\ shipments'[b] = shipments[b] + r.batch[b]
          /\ \A c \in Buyers : c # b => shipments'[c] = shipments[c]
      BY <1>2, <1>3, <1>6
    <2>6. \A c \in Buyers : shipments[c] <= shipments'[c] /\ content.total[c] <= shipments'[c]
      BY <1>1, <1>2, <1>3, <2>1, <2>2, <2>5
    <2>7. /\ now \in IngestType /\ now.pc = pc /\ now.todo = left /\ now.proc = p
          /\ now.tier = 2 /\ now.batch = r.batch
      BY <1>0 DEF IngestType
    <2>8. ingest' = [ingest EXCEPT ![i] = now]
      BY <1>6 DEF CustomsInv, CustomsTypeOK
    <2> HIDE DEF now
    <2>9. /\ ingest' \in [Ingests -> IngestType] /\ ingest'[i] = now
          /\ \A j \in Ingests : j # i => ingest'[j] = ingest[j]
      BY <2>7, <2>8, IngestBecomes
    <2>10. View(p)' = content
      <3>1. lock'[p] \in {"reserved", "pending"} /\ draft'[p] = content
        BY <1>0, <2>3 DEF Writing, CustomsInv, CustomsTypeOK, Locks
      <3>2. (ingest[i].proc)' = p
        BY <2>7, <2>9
      <3> QED BY <3>1, <3>2 DEF View, Writes
    <2>11. CarriesOK(i)'
      <3>1. \A c \in Buyers : r.batch[c] > 0 /\ c \notin left => content.total[c] > 0
        BY <1>0, <1>2, <2>1, <2>2 DEF CarriesOK
      <3>2. \A c \in left : r.batch[c] > 0
        BY <1>0, <1>2 DEF CarriesOK
      <3>3. pc \in {"commit", "read"} /\ (pc = "commit" => left = {})
        OBVIOUS
      <3> HIDE DEF left, pc
      <3> QED BY <2>7, <2>9, <2>10, <3>1, <3>2, <3>3 DEF CarriesOK
    <2> QED BY <1>0, <1>4, <2>2, <2>3, <2>4, <2>5, <2>6, <2>9, <2>11, WritingKeeps
  <1> QED BY <1>0, <1>5, <1>6 DEF WriteBuyer

\* Trade records are added to what the process has.
LEMMA WriteTradesKeeps ==
    ASSUME CustomsInv, NEW i \in Ingests, WriteTrades(i)
    PROVE  CustomsInv'
  <1> DEFINE p == ingest[i].proc
             content == [View(p) EXCEPT !.trades = View(p).trades \union {i}]
  <1>0. /\ ingest[i] \in IngestType /\ ProcOf(i) = p /\ p \in Processes /\ ingest[i].tier = 1
        /\ MayWrite(p) /\ Writing(p, content) /\ IngestTo(i, "commit")
        /\ UNCHANGED <<store, opened, shipments>>
    BY DEF CustomsInv, CustomsTypeOK, IngestType, ProcOf, WriteTrades, IngestAt
  <1>1. /\ View(p) \in [trades : SUBSET Ingests, total : [Buyers -> Nat]]
        /\ \A c \in Buyers : View(p).total[c] <= shipments[c]
    BY <1>0, ViewType
  <1>2. /\ content \in [trades : SUBSET Ingests, total : [Buyers -> Nat]]
        /\ content.total = View(p).total /\ View(p).trades \subseteq content.trades /\ i \in content.trades
    BY <1>1
  <1> HIDE DEF content
  <1>3. Extends(content, View(p))
    BY <1>2 DEF Extends
  <1>4. /\ shipments' \in [Buyers -> Nat] /\ UNCHANGED <<tables, trades, total, opened>>
        /\ \A c \in Buyers : shipments[c] <= shipments'[c] /\ content.total[c] <= shipments'[c]
    BY <1>0, <1>1, <1>2 DEF CustomsInv, CustomsTypeOK, store
  <1>5. /\ ingest' \in [Ingests -> IngestType] /\ ingest'[i].proc = p
        /\ ingest'[i] = [ingest[i] EXCEPT !.pc = "commit"]
        /\ \A j \in Ingests : j # i => ingest'[j] = ingest[j]
    BY <1>0, IngestMoves DEF IngestStage
  <1>6. lock'[p] \in {"reserved", "pending"} /\ draft'[p] = content
    BY <1>0 DEF Writing, CustomsInv, CustomsTypeOK, Locks
  <1>7. View(ingest[i].proc)' = content
    BY <1>5, <1>6 DEF View, Writes
  <1>8. CarriesOK(i)'
    <2>1. ingest'[i].tier = 1 /\ ingest'[i].pc = "commit"
      BY <1>0, <1>5 DEF IngestType
    <2> QED BY <1>2, <1>7, <2>1 DEF CarriesOK
  <1> QED BY <1>0, <1>2, <1>3, <1>4, <1>5, <1>8, WritingKeeps

\* A write or a commit that fails leaves what was written where it is.
LEMMA FailuresKeep ==
    ASSUME CustomsInv, NEW i \in Ingests, WriteFails(i) \/ CommitFails(i)
    PROVE  CustomsInv'
  <1> DEFINE p == ProcOf(i)
  <1>0. /\ IngestTo(i, "failed") /\ UNCHANGED <<trades, total, draft, shipments, tables, opened>>
        /\ lock \in [Processes -> Locks] /\ p \in Processes
    BY DEF WriteFails, CommitFails, store, CustomsInv, CustomsTypeOK, ProcOf
  <1>1. \/ lock' = lock
        \/ lock' = [lock EXCEPT ![p] = IF @ = "none" THEN "begun" ELSE @]
        \/ Writes(p) /\ lock' = [lock EXCEPT ![p] = "pending"]
    BY DEF WriteFails, CommitFails, MayCommit
  <1>2. lock' \in [Processes -> Locks] /\ \A q \in Processes : Writes(q)' <=> Writes(q)
    BY <1>0, <1>1 DEF Writes, Locks
  <1> QED BY <1>0, <1>2, FailingKeeps

\* What is answered is what was committed.
LEMMA CommitKeeps ==
    ASSUME CustomsInv, NEW i \in Ingests, CommitStore(i)
    PROVE  CustomsInv'
  <1> DEFINE p == ingest[i].proc
  <1>0. /\ ingest[i] \in IngestType /\ ProcOf(i) = p /\ p \in Processes /\ ingest[i].pc = "commit"
        /\ Committing(p) /\ IngestTo(i, "done") /\ UNCHANGED <<tables, opened, shipments>>
    BY DEF CustomsInv, CustomsTypeOK, IngestType, ProcOf, CommitStore, IngestAt
  <1>1. /\ ingest' \in [Ingests -> IngestType]
        /\ ingest'[i] = [ingest[i] EXCEPT !.pc = "done"]
        /\ \A j \in Ingests : j # i => ingest'[j] = ingest[j]
    BY <1>0, IngestMoves DEF IngestStage
  <1>2. CarriesOK(i)'
    <2>1. /\ ingest'[i].pc = "done" /\ ingest'[i].tier = ingest[i].tier
          /\ ingest'[i].batch = ingest[i].batch
      BY <1>0, <1>1 DEF IngestType
    <2>2. trades' = View(p).trades /\ total' = View(p).total
      BY <1>0 DEF Committing
    <2>3. CarriesOK(i)
      BY DEF CustomsInv
    <2>4. ingest[i].tier = 1 => i \in trades'
      BY <1>0, <2>2, <2>3 DEF CarriesOK
    <2>5. ingest[i].tier = 2 => \A b \in Buyers : ingest[i].batch[b] > 0 => total'[b] > 0
      BY <1>0, <2>2, <2>3 DEF CarriesOK
    <2> QED BY <2>1, <2>4, <2>5 DEF CarriesOK
  <1>3. tables' \in BOOLEAN
    BY <1>0 DEF CustomsInv, CustomsTypeOK
  <1> QED BY <1>0, <1>1, <1>2, <1>3, CommittingKeeps

\* A process that ends takes its draft along, and the ingests that rely on it.
LEMMA EndKeeps ==
    ASSUME CustomsInv, NEW p \in Processes, EndProcess(p)
    PROVE  CustomsInv'
  <1>0. /\ lock \in [Processes -> Locks] /\ UNCHANGED <<store, shipments>>
        /\ draft \in [Processes -> [trades : SUBSET Ingests, total : [Buyers -> Nat]]]
        /\ ingest \in [Ingests -> IngestType]
    BY DEF CustomsInv, CustomsTypeOK, IngestType, EndProcess
  <1>1. /\ ~Writes(p)'
        /\ \A q \in Processes : q # p => lock'[q] = lock[q] /\ draft'[q] = draft[q]
        /\ lock' \in [Processes -> Locks]
        /\ draft' \in [Processes -> [trades : SUBSET Ingests, total : [Buyers -> Nat]]]
    BY <1>0 DEF EndProcess, Writes, Locks, NoDraft
  <1>2. \A i \in Ingests : ingest'[i] =
           IF ingest[i].proc = p /\ ingest[i].pc \notin {"new", "done"}
           THEN [ingest[i] EXCEPT !.pc = "failed"] ELSE ingest[i]
    BY DEF EndProcess, ProcOf
  <1>3. ingest' \in [Ingests -> IngestType]
    <2>1. ASSUME NEW r \in IngestType PROVE [r EXCEPT !.pc = "failed"] \in IngestType
      BY DEF IngestType
    <2>2. \A i \in Ingests : ingest'[i] \in IngestType
      BY <1>0, <1>2, <2>1
    <2>3. ingest' = [i \in Ingests |-> ingest'[i]]
      BY DEF EndProcess
    <2> QED BY <2>2, <2>3
  <1>4. CustomsTypeOK'
    <2>1. opened' \subseteq Processes
      BY DEF EndProcess, CustomsInv, CustomsTypeOK
    <2> QED BY <1>0, <1>1, <1>3, <2>1 DEF CustomsInv, CustomsTypeOK, IngestType, store
  <1>5. \A q \in Processes : q # p => (Writes(q)' <=> Writes(q))
    BY <1>1 DEF Writes
  <1>6. WritersOK' /\ NeverCountedTwice'
    <2>1. File' = File /\ shipments' = shipments /\ total' = total
      BY <1>0 DEF File, store
    <2>2. WritersOK'
      BY <1>1, <1>5, <2>1 DEF CustomsInv, WritersOK
    <2>3. NeverCountedTwice'
      BY <1>1, <1>5, <2>1 DEF CustomsInv, NeverCountedTwice
    <2> QED BY <2>2, <2>3
  <1>7. \A i \in Ingests : CarriesOK(i)'
    <2> SUFFICES ASSUME NEW i \in Ingests PROVE CarriesOK(i)'
      OBVIOUS
    <2>1. CASE ingest[i].proc = p /\ ingest[i].pc \notin {"new", "done"}
      <3>1. ingest'[i].pc = "failed"
        BY <1>0, <1>2, <2>1 DEF IngestType
      <3> QED BY <3>1 DEF CarriesOK
    <2>2. CASE ~(ingest[i].proc = p /\ ingest[i].pc \notin {"new", "done"})
      <3>1. /\ ingest'[i] = ingest[i] /\ CarriesOK(i) /\ CustomsTypeOK
            /\ ingest[i].proc \in Processes
        BY <1>0, <1>2, <2>2 DEF CustomsInv, IngestType
      <3>2. Extends(File', File)
        BY <1>0 DEF Extends, File, store
      <3>3. ingest[i].proc # p => Extends(View(ingest[i].proc)', View(ingest[i].proc))
        BY <1>0, <1>1, <1>5, <3>1 DEF View, Extends, store
      <3>4. \A b \in Buyers : shipments[b] <= shipments'[b]
        BY <1>0, <3>1 DEF CustomsTypeOK
      <3> QED BY <1>4, <2>2, <3>1, <3>2, <3>3, <3>4, CarryOn
    <2> QED BY <2>1, <2>2
  <1> QED BY <1>4, <1>6, <1>7 DEF CustomsInv

LEMMA CustomsStep == CustomsInv /\ [CustomsNext]_customsVars => CustomsInv'
  <1> SUFFICES ASSUME CustomsInv, [CustomsNext]_customsVars PROVE CustomsInv'
    OBVIOUS
  <1>1. ASSUME NEW i \in Ingests, ReceiveIngest(i) \/ FetchPage(i) \/ FetchBol(i) PROVE CustomsInv'
    BY <1>1, FetchingKeeps, CustomsAssumption
  <1>2. ASSUME NEW i \in Ingests, OpenStore(i) \/ InitTables(i) PROVE CustomsInv'
    BY <1>2, OpeningKeeps, CustomsAssumption
  <1>3. ASSUME NEW i \in Ingests, ReadBuyer(i) PROVE CustomsInv'
    BY <1>3, ReadBuyerKeeps
  <1>4. ASSUME NEW i \in Ingests, WriteBuyer(i) \/ WriteTrades(i) PROVE CustomsInv'
    BY <1>4, WriteBuyerKeeps, WriteTradesKeeps
  <1>5. ASSUME NEW i \in Ingests, WriteFails(i) \/ CommitFails(i) PROVE CustomsInv'
    BY <1>5, FailuresKeep
  <1>6. ASSUME NEW i \in Ingests, CommitStore(i) PROVE CustomsInv'
    BY <1>6, CommitKeeps
  <1>7. ASSUME NEW p \in Processes, EndProcess(p) PROVE CustomsInv'
    BY <1>7, EndKeeps
  <1>8. ASSUME UNCHANGED <<store, opened, draft, ingest, shipments>>,
               lock' \in [Processes -> Locks], \A p \in Processes : Writes(p)' <=> Writes(p)
        PROVE  CustomsInv'
    BY <1>8, LocksKeep DEF store, CustomsInv, CustomsTypeOK, IngestType
  <1>9. ASSUME NEW p \in Processes, QueryStore(p) PROVE CustomsInv'
    BY <1>8, <1>9, ReadingKeeps DEF QueryStore
  <1>10. CASE UNCHANGED customsVars
    BY <1>8, <1>10 DEF customsVars, store, Writes, CustomsInv, CustomsTypeOK
  <1> QED BY <1>1, <1>2, <1>3, <1>4, <1>5, <1>6, <1>7, <1>9, <1>10 DEF CustomsNext

(* Threads that share a connection, processes that share the file, locks   *)
(* that are given up waiting for, failed commits and processes that end:   *)
(* what an answered ingest says it stored is in the file, and no shipment  *)
(* is counted twice (customs_store.py, upsert_trade_records and            *)
(* upsert_buyers).                                                         *)
THEOREM IngestsAreStored == CustomsSpec => []CountsSound
  <1>1. CustomsInit => CustomsInv
    <2> SUFFICES ASSUME CustomsInit PROVE CustomsInv
      OBVIOUS
    <2>1. NewIngest \in IngestType /\ NewIngest.pc = "new"
      BY CustomsAssumption DEF NewIngest, IngestType
    <2>2. /\ tables = FALSE /\ trades = {} /\ opened = {}
          /\ total = [b \in Buyers |-> 0] /\ shipments = [b \in Buyers |-> 0]
          /\ lock = [p \in Processes |-> "none"] /\ draft = [p \in Processes |-> NoDraft]
          /\ ingest = [i \in Ingests |-> NewIngest]
      BY DEF CustomsInit
    <2>3. CustomsTypeOK
      BY <2>1, <2>2 DEF CustomsTypeOK, IngestType, Locks, NoDraft
    <2>4. \A p \in Processes : ~Writes(p)
      BY <2>2 DEF Writes
    <2>5. \A i \in Ingests : CarriesOK(i)
      BY <2>1, <2>2 DEF CarriesOK
    <2>6. NeverCountedTwice
      BY <2>2, <2>4 DEF NeverCountedTwice
    <2> QED BY <2>3, <2>4, <2>5, <2>6 DEF CustomsInv, WritersOK
  <1> QED BY <1>1, CustomsStep, CustomsInvEnough, PTL DEF CustomsSpec

-----------------------------------------------------------------------------
(* The HR agent: only reviews are added, so what is said of levels and      *)
(* titles rests on what an employee is.                                     *)

Marks == [score : Scores, met : BOOLEAN]

Person == [status : STRING, years : Nat, title : STRING, key : BOOLEAN, flagged : BOOLEAN, salary : Nat,
           levels : [Competencies -> 0..5], reviews : Seq(Marks)]

StaffInv ==
    /\ IsFiniteSet(Employees)
    /\ \A e \in Employees : staff[e] \in Person

LEMMA StaffStep == StaffInv /\ [HRNext]_hrVars => StaffInv'
  <1> SUFFICES ASSUME StaffInv, [HRNext]_hrVars PROVE StaffInv'
    OBVIOUS
  <1>1. CASE UNCHANGED staff
    BY <1>1 DEF StaffInv, Employees
  <1>2. ASSUME NEW e \in Employees, NEW score \in Scores, NEW met \in BOOLEAN, Appraise(e, score, met)
        PROVE  StaffInv'
    <2> DEFINE x == [score |-> score, met |-> met]
               more == Append(staff[e].reviews, x)
    <2>1. staff' = [staff EXCEPT ![e].reviews = more] /\ x \in Marks
      BY <1>2 DEF Appraise, Marks
    <2> HIDE DEF x
    <2>2. DOMAIN staff' = DOMAIN staff
      BY <2>1
    <2>3. more \in Seq(Marks)
      <3>1. staff[e].reviews \in Seq(Marks)
        BY DEF StaffInv, Person
      <3> QED BY <2>1, <3>1, AppendProperties
    <2> HIDE DEF more
    <2>4. ASSUME NEW d \in DOMAIN staff
          PROVE  staff'[d] \in Person
      <3>1. staff[d] \in Person
        BY DEF StaffInv, Employees
      <3>2. CASE d = e
        <4>1. staff'[d] = [staff[d] EXCEPT !.reviews = more]
          BY <2>1, <3>2
        <4> QED BY <2>3, <3>1, <4>1 DEF Person
      <3>3. CASE d # e
        BY <2>1, <3>1, <3>3
      <3> QED BY <3>2, <3>3
    <2> QED BY <2>2, <2>4 DEF StaffInv, Employees
  <1> QED BY <1>1, <1>2 DEF HRNext, hrVars, Simulate, Review, Confirm, RunFullFoolproof, CreateSnapshot

LEMMA StaffStart == HRInit => StaffInv
  <1> SUFFICES ASSUME HRInit PROVE StaffInv
    OBVIOUS
  <1>1. staff \in Staff
    BY DEF HRInit
  <1>2. \A s \in Staff : IsFiniteSet(DOMAIN s) /\ \A e \in DOMAIN s : s[e] \in Person
    BY HRAssumption DEF Person, Marks
  <1> QED BY <1>1, <1>2 DEF StaffInv, Employees

\* The cosine of two vectors, the one nowhere below the other, is large enough.
LEMMA QualifiedScores ==
  ASSUME NEW e, e.levels \in [Competencies -> 0..5], NEW p \in Needs, Weight(p) > 0, Met(e, p) = DOMAIN p
  PROVE  ScoreAtLeast(e, p, 17)
  <1> DEFINE D == DOMAIN p
             levels == [c \in D |-> e.levels[c] * e.levels[c]]
             needs == [c \in D |-> p[c].level * p[c].level]
             both == [c \in D |-> e.levels[c] * p[c].level]
             weights == [c \in D |-> p[c].weight]
             shares == [c \in D |-> p[c].weight * Share(e.levels[c], p[c].level)]
  <1>1. /\ IsFiniteSet(D)
        /\ \A c \in D : /\ p[c].level \in 1..5 /\ p[c].weight \in Nat
                        /\ e.levels[c] \in 0..5 /\ e.levels[c] >= p[c].level
    <2>1. D \subseteq Competencies /\ IsFiniteSet(Competencies)
          /\ p \in [D -> [level : 1..5, weight : Nat]]
      BY HRAssumption
    <2>2. \A c \in D : p[c].level \in 1..5 /\ p[c].weight \in Nat /\ e.levels[c] \in 0..5
      BY <2>1
    <2>3. \A c \in D : e.levels[c] >= p[c].level
      BY DEF Met
    <2> QED BY <2>1, <2>2, <2>3, FS_Subset
  <1>2. ASSUME NEW c \in D
        PROVE  /\ levels[c] \in Nat /\ needs[c] \in Nat /\ both[c] \in Nat
               /\ levels[c] > 0 /\ needs[c] > 0
               /\ levels[c] <= 5 * both[c] /\ needs[c] <= 1 * both[c]
               /\ weights[c] \in Nat /\ shares[c] = 60 * weights[c]
    <2> DEFINE l == e.levels[c]
               n == p[c].level
    <2>1. l \in 1..5 /\ n \in 1..5 /\ l >= n
      BY <1>1
    <2> HIDE DEF l, n
    <2>2. l * l \in Nat /\ n * n \in Nat /\ l * n \in Nat /\ l * l > 0 /\ n * n > 0
      BY <2>1
    <2>3. l * l <= 5 * (l * n) /\ n * n <= 1 * (l * n)
      <3>1. CASE l = 1  BY <2>1, <3>1
      <3>2. CASE l = 2  BY <2>1, <3>2
      <3>3. CASE l = 3  BY <2>1, <3>3
      <3>4. CASE l = 4  BY <2>1, <3>4
      <3>5. CASE l = 5  BY <2>1, <3>5
      <3> QED BY <2>1, <3>1, <3>2, <3>3, <3>4, <3>5
    <2>4. Share(l, n) = 60 /\ p[c].weight \in Nat
      BY <1>1, <2>1 DEF Share
    <2>5. p[c].weight * 60 = 60 * p[c].weight
      BY <2>4
    <2> QED BY <2>2, <2>3, <2>4, <2>5 DEF l, n
  <1>3. /\ Dot(e, p) = SumAt(both, D) /\ Norms(e, p) = SumAt(levels, D) * SumAt(needs, D)
        /\ Weight(p) = SumAt(weights, D) /\ Weighted(e, p) = SumAt(shares, D)
    BY DEF Dot, Norms, Weight, Weighted, Sum
  <1>4. D # {}
    <2> SUFFICES ASSUME D = {} PROVE FALSE
      OBVIOUS
    <2>1. DOMAIN weights = {} /\ IsFiniteSet(DOMAIN weights)
      BY <1>1
    <2> HIDE DEF weights, D
    <2>2. SumAt(weights, {}) = 0
      BY <2>1, SumAtNothing
    <2> QED BY <1>3, <2>2
  <1>5. /\ DOMAIN levels = D /\ DOMAIN needs = D /\ DOMAIN both = D
        /\ DOMAIN weights = D /\ DOMAIN shares = D
    OBVIOUS
  <1> HIDE DEF levels, needs, both, weights, shares, D
  <1>6. SumAt(levels, D) \in Nat /\ SumAt(levels, D) > 0
    BY <1>1, <1>2, <1>4, <1>5, SumAtNat
  <1>7. SumAt(needs, D) \in Nat /\ SumAt(needs, D) > 0
    BY <1>1, <1>2, <1>4, <1>5, SumAtNat
  <1>8. SumAt(both, D) \in Nat /\ SumAt(weights, D) \in Nat
    BY <1>1, <1>2, <1>5, SumAtNat
  <1>9. SumAt(levels, D) <= 5 * SumAt(both, D)
    <2>1. \A c \in D : levels[c] \in Int /\ both[c] \in Int /\ levels[c] <= 5 * both[c]
      BY <1>2
    <2> QED BY <1>1, <1>5, <2>1, SumAtWithin
  <1>10. SumAt(needs, D) <= 1 * SumAt(both, D)
    <2>1. \A c \in D : needs[c] \in Int /\ both[c] \in Int /\ needs[c] <= 1 * both[c]
      BY <1>2
    <2> QED BY <1>1, <1>5, <2>1, SumAtWithin
  <1>11. SumAt(shares, D) = 60 * SumAt(weights, D)
    <2>1. \A c \in D : shares[c] \in Int /\ weights[c] \in Int /\ shares[c] = 60 * weights[c]
      BY <1>2
    <2> QED BY <1>1, <1>5, <2>1, SumAtScaled
  <1> DEFINE all == 15 * Weight(p)
             missing == 17 * all - 4 * Weighted(e, p)
             dot == Dot(e, p)
  <1>12. Weight(p) \in Nat /\ all \in Nat /\ Weight(p) # 0 /\ missing = all
    <2>1. 17 * (15 * Weight(p)) - 4 * (60 * Weight(p)) = 15 * Weight(p)
      BY <1>3, <1>8
    <2> QED BY <1>3, <1>8, <1>11, <2>1
  <1>13. Norms(e, p) \in Nat /\ Norms(e, p) > 0 /\ Norms(e, p) <= 16 * (dot * dot) /\ dot \in Nat
    <2> DEFINE L == SumAt(levels, D)
               N == SumAt(needs, D)
               d == SumAt(both, D)
    <2>1. L \in Nat /\ N \in Nat /\ d \in Nat /\ L > 0 /\ N > 0 /\ L <= 5 * d /\ N <= d
      BY <1>6, <1>7, <1>8, <1>9, <1>10
    <2> HIDE DEF L, N, d
    <2>2. L * N \in Nat /\ L * N > 0 /\ L * N <= (5 * d) * N
      BY <2>1
    <2>3. d * N <= d * d /\ (5 * d) * N = 5 * (d * N) /\ d * d \in Nat /\ d * N \in Nat
      BY <2>1
    <2>4. L * N <= 16 * (d * d)
      BY <2>2, <2>3
    <2> QED BY <1>3, <2>1, <2>2, <2>4 DEF L, N, d
  <1> HIDE DEF missing, dot, all
  <1>14. missing * missing * Norms(e, p) <= 16 * all * all * dot * dot
    <2> DEFINE square == all * all
               bound == 16 * (dot * dot)
    <2>1. square \in Nat /\ bound \in Nat
      BY <1>12, <1>13
    <2>2. missing * missing * Norms(e, p) = square * Norms(e, p)
      BY <1>12
    <2>3. 16 * all * all * dot * dot = square * bound
      BY <1>12, <1>13
    <2> HIDE DEF square
    <2>4. square * Norms(e, p) <= square * bound
      <3> HIDE DEF bound
      <3>1. Norms(e, p) <= bound
        BY <1>13 DEF bound
      <3> QED BY <1>13, <2>1, <3>1
    <2> QED BY <2>2, <2>3, <2>4
  <1> QED BY <1>12, <1>13, <1>14 DEF ScoreAtLeast, all, missing, dot

\* Whoever misses a requirement has a gap, and whoever misses none has no gap.
LEMMA QualifiedStrong ==
  ASSUME NEW e, e.levels \in [Competencies -> 0..5], NEW p \in Needs, Weight(p) > 0
  PROVE  (Met(e, p) = DOMAIN p) <=> Recommendation(e, p) = "strong_match"
  <1> DEFINE missed == DOMAIN p \ Met(e, p)
  <1>1. IsFiniteSet(missed)
    <2>1. DOMAIN p \subseteq Competencies /\ IsFiniteSet(Competencies)
      BY HRAssumption
    <2> QED BY <2>1, FS_Subset
  <1>2. Met(e, p) = DOMAIN p <=> missed = {}
    BY DEF Met
  <1>3. Cardinality(missed) = 0 <=> missed = {}
    <2> HIDE DEF missed
    <2> QED BY <1>1, FS_EmptySet
  <1>4. Recommendation(e, p) = "strong_match" <=> ScoreAtLeast(e, p, 17) /\ Cardinality(missed) = 0
    BY DEF Recommendation
  <1> HIDE DEF missed
  <1> QED BY <1>2, <1>3, <1>4, QualifiedScores

\* Two that are not the same are two.
LEMMA TwoCounted ==
  ASSUME NEW d, NEW e, d # e
  PROVE  Cardinality({d, e}) = 2
  <1>1. IsFiniteSet({d}) /\ Cardinality({d}) = 1
    BY FS_Singleton
  <1>2. e \notin {d}
    OBVIOUS
  <1>3. Cardinality({d} \cup {e}) = Cardinality({d}) + 1
    BY ONLY <1>1, <1>2, FS_AddElement
  <1>4. {d} \cup {e} = {d, e}
    OBVIOUS
  <1> QED BY <1>1, <1>3, <1>4

\* The pairs of a group.
LEMMA PairsOf ==
  ASSUME NEW G, IsFiniteSet(G), Cardinality(G) >= 2
  PROVE  /\ IsFiniteSet(kSubset(2, G)) /\ kSubset(2, G) # {}
         /\ Cardinality(kSubset(2, G)) \in Nat /\ Cardinality(kSubset(2, G)) > 0
         /\ \A q \in kSubset(2, G) : \E d, e \in G : d # e /\ q = {d, e}
  <1> DEFINE pairs == kSubset(2, G)
  <1>1. pairs = {q \in SUBSET G : Cardinality(q) = 2}
    BY DEF kSubset
  <1>2. IsFiniteSet(pairs)
    <2>1. IsFiniteSet(SUBSET G)
      BY FS_SUBSET
    <2>2. pairs \in SUBSET (SUBSET G)
      BY <1>1
    <2> HIDE DEF pairs
    <2> QED BY ONLY <2>1, <2>2, FS_Subset
  <1>3. ASSUME NEW S, IsFiniteSet(S), Cardinality(S) >= 2
        PROVE  \E d, e \in S : d # e /\ (Cardinality(S) = 2 => S = {d, e})
               /\ Cardinality({d, e}) = 2
    <2>1. S # {} /\ Cardinality(S) \in Nat
      BY <1>3, FS_EmptySet, FS_CardinalityType
    <2>2. PICK d : d \in S
      BY <2>1
    <2>3. IsFiniteSet(S \ {d}) /\ Cardinality(S \ {d}) = Cardinality(S) - 1
      BY <1>3, <2>2, FS_RemoveElement
    <2>4. S \ {d} # {}
      BY <1>3, <2>1, <2>3, FS_EmptySet
    <2>5. PICK e : e \in S \ {d}
      BY <2>4
    <2>6. Cardinality({d, e}) = 2
      <3>1. d # e
        BY <2>5
      <3> QED BY ONLY <3>1, TwoCounted
    <2>7. Cardinality(S) = 2 => S = {d, e}
      <3>1. {d, e} \in SUBSET S
        BY <2>2, <2>5
      <3> QED BY <1>3, <2>6, <3>1, FS_Subset
    <2> QED BY <2>2, <2>5, <2>6, <2>7
  <1>4. pairs # {}
    <2>1. PICK d \in G, e \in G : Cardinality({d, e}) = 2
      BY <1>3
    <2>2. {d, e} \in pairs
      BY <1>1, <2>1
    <2> QED BY <2>2
  <1>5. ASSUME NEW q \in pairs PROVE \E d, e \in G : d # e /\ q = {d, e}
    <2>1. q \in SUBSET G /\ Cardinality(q) = 2 /\ IsFiniteSet(q)
      BY <1>1, FS_Subset
    <2>2. IsFiniteSet(q) /\ Cardinality(q) >= 2
      BY <2>1
    <2>3. \E d, e \in q : d # e /\ (Cardinality(q) = 2 => q = {d, e}) /\ Cardinality({d, e}) = 2
      BY ONLY <1>3, <2>2, Zenon
    <2> QED BY <2>1, <2>3
  <1> HIDE DEF pairs
  <1>6. Cardinality(pairs) \in Nat /\ Cardinality(pairs) > 0
    BY <1>2, <1>4, FS_CardinalityType, FS_EmptySet
  <1> QED BY <1>2, <1>4, <1>5, <1>6 DEF pairs

\* If all pairs have equally much in common, it is as much as the pairs are.
LEMMA EvenOverlap ==
  ASSUME NEW t, IsFiniteSet(Group(t)), Cardinality(Group(t)) >= 2, NEW k \in Nat,
         \A q \in kSubset(2, Group(t)) : Jaccard(q) = k
  PROVE  \E m \in Nat \ {0} : Common(t) = k * m /\ Whole(t) = Parts * m
  <1> DEFINE pairs == kSubset(2, Group(t))
             common == [q \in pairs |-> Jaccard(q)]
  <1>1. IsFiniteSet(pairs) /\ pairs # {} /\ Cardinality(pairs) \in Nat /\ Cardinality(pairs) > 0
    BY PairsOf
  <1>2. DOMAIN common = pairs /\ \A q \in pairs : common[q] = k
    OBVIOUS
  <1>3. Common(t) = SumAt(common, pairs) /\ Whole(t) = Parts * Cardinality(pairs)
    BY DEF Common, Whole, Pairs, Sum
  <1> HIDE DEF pairs, common
  <1>4. SumAt(common, pairs) = k * Cardinality(pairs)
    BY <1>1, <1>2, SumAtSame
  <1> QED BY <1>1, <1>3, <1>4

\* What somebody has a record of is a part of the competencies.
LEMMA RecordedFinite ==
  ASSUME NEW e
  PROVE  Recorded(e) \subseteq Competencies /\ IsFiniteSet(Recorded(e))
  <1>1. Recorded(e) \subseteq Competencies
    BY DEF Recorded
  <1> QED BY <1>1, HRAssumption, FS_Subset

\* Two with the same competencies, and two with none in common.
LEMMA JaccardOfTwins ==
  ASSUME NEW d, NEW e
  PROVE  /\ Recorded(staff[d]) = Recorded(staff[e]) /\ Recorded(staff[d]) # {} => Jaccard({d, e}) = Parts
         /\ Recorded(staff[d]) \cap Recorded(staff[e]) = {} => Jaccard({d, e}) = 0
  <1> DEFINE one == Recorded(staff[d])
             other == Recorded(staff[e])
             any == UNION {Recorded(staff[x]) : x \in {d, e}}
             both == {c \in any : \A x \in {d, e} : c \in Recorded(staff[x])}
  <1>1. any = one \cup other /\ both = one \cap other
    OBVIOUS
  <1>2. Jaccard({d, e}) = IF any = {} THEN 0 ELSE (Parts * Cardinality(both)) \div Cardinality(any)
    BY DEF Jaccard
  <1>3. IsFiniteSet(one) /\ IsFiniteSet(other)
    BY RecordedFinite
  <1> HIDE DEF one, other, any, both
  <1>4. IsFiniteSet(any) /\ Cardinality(any) \in Nat /\ (any # {} => Cardinality(any) > 0)
    <2>1. IsFiniteSet(any)
      BY <1>1, <1>3, FS_Union
    <2> QED BY <2>1, FS_CardinalityType, FS_EmptySet
  <1>5. \A m \in Nat : m > 0 => (Parts * m) \div m = Parts /\ (Parts * 0) \div m = 0
    <2> SUFFICES ASSUME NEW m \in Nat, m > 0 PROVE (Parts * m) \div m = Parts /\ (Parts * 0) \div m = 0
      OBVIOUS
    <2>1. Parts \in Nat
      BY PartsAssumption
    <2> QED BY ONLY <2>1, m \in Nat, m > 0
  <1>6. ASSUME one = other, one # {} PROVE Jaccard({d, e}) = Parts
    <2>1. any = one /\ both = any /\ any # {}
      BY <1>1, <1>6
    <2> QED BY <1>2, <1>4, <1>5, <2>1
  <1>7. ASSUME one \cap other = {} PROVE Jaccard({d, e}) = 0
    <2>1. Cardinality(both) = 0
      BY <1>1, <1>7, FS_EmptySet
    <2> QED BY <1>2, <1>4, <1>5, <2>1
  <1> QED BY <1>6, <1>7 DEF one, other

\* Two sets with nothing in common count as many as both.
LEMMA ApartCounted ==
  ASSUME NEW S, NEW T, IsFiniteSet(S), IsFiniteSet(T), S \cap T = {}
  PROVE  Cardinality(S \cup T) = Cardinality(S) + Cardinality(T)
  <1>1. Cardinality(S \cup T) = Cardinality(S) + Cardinality(T) - Cardinality(S \cap T)
    BY FS_Union
  <1>2. Cardinality(S \cap T) = 0
    BY FS_EmptySet
  <1>3. Cardinality(S) \in Nat /\ Cardinality(T) \in Nat
    BY FS_CardinalityType
  <1> QED BY <1>1, <1>2, <1>3

\* What makes a group, and that it is finite.
LEMMA GroupsFinite ==
  ASSUME StaffInv
  PROVE  /\ IsFiniteSet(Active) /\ Cardinality(Active) \in Nat
         /\ IsFiniteSet(Titles)
         /\ \A t \in Titles : IsFiniteSet(Group(t)) /\ Group(t) \subseteq Active
  <1>1. IsFiniteSet(Active)
    BY FS_Subset DEF StaffInv, Active
  <1>2. IsFiniteSet(Titles)
    <2> DEFINE titled == [e \in Active |-> staff[e].title]
    <2>1. DOMAIN titled = Active /\ Titles = {titled[e] : e \in Active}
      BY DEF Titles
    <2> HIDE DEF titled
    <2> QED BY <1>1, <2>1, FiniteRange
  <1>3. \A t \in Titles : Group(t) \subseteq Active
    BY DEF Group
  <1> QED BY <1>1, <1>2, <1>3, FS_Subset, FS_CardinalityType

\* Nobody is counted twice, and one of each title remains.
LEMMA SomeoneRemains ==
  ASSUME StaffInv, Overlapping # {}
  PROVE  RedundantCount < Cardinality(Active)
  <1> DEFINE R == Redundant
             counts == [t \in R |-> Cardinality(Group(t)) - 1]
             Of(W) == {e \in Active : staff[e].title \in W}
             U == {W \in SUBSET R : SumAt(counts, W) + Cardinality(W) = Cardinality(Of(W))}
  <1>1. IsFiniteSet(R) /\ R \subseteq Titles
    <2>1. R \subseteq Titles
      BY DEF Redundant, Overlapping
    <2> QED BY <2>1, GroupsFinite, FS_Subset
  <1>2. /\ DOMAIN counts = R /\ RedundantCount = SumAt(counts, R)
        /\ \A t \in R : /\ counts[t] = Cardinality(Group(t)) - 1 /\ counts[t] \in Int
                        /\ Cardinality(Group(t)) \in Nat
    <2>1. \A t \in R : Cardinality(Group(t)) \in Nat
      BY <1>1, GroupsFinite, FS_CardinalityType
    <2> QED BY <2>1 DEF RedundantCount, Sum
  <1>3. \A W : IsFiniteSet(Of(W)) /\ Cardinality(Of(W)) \in Nat /\ Cardinality(Of(W)) <= Cardinality(Active)
    <2>1. \A W : Of(W) \in SUBSET Active
      OBVIOUS
    <2> QED BY <2>1, GroupsFinite, FS_Subset, FS_CardinalityType
  <1>4. {} \in U
    <2>1. Of({}) = {} /\ Cardinality({}) = 0
      BY FS_EmptySet
    <2>2. SumAt(counts, {}) = 0
      BY <1>1, <1>2, SumAtNothing
    <2> QED BY <2>1, <2>2
  <1>5. \A W \in SUBSET R, t \in R : W \in U /\ t \notin W => W \cup {t} \in U
    <2> SUFFICES ASSUME NEW W \in SUBSET R, NEW t \in R, W \in U, t \notin W
                 PROVE  SumAt(counts, W \cup {t}) + Cardinality(W \cup {t}) = Cardinality(Of(W \cup {t}))
      OBVIOUS
    <2>1. Of(W \cup {t}) = Of(W) \cup Group(t) /\ Of(W) \cap Group(t) = {}
      BY DEF Group
    <2>2. SumAt(counts, W) + Cardinality(W) = Cardinality(Of(W))
      OBVIOUS
    <2>3. Cardinality(W \cup {t}) = Cardinality(W) + 1 /\ Cardinality(W) \in Nat
      BY <1>1, FS_Subset, FS_CardinalityType, FS_AddElement
    <2> HIDE DEF counts, Of, R
    <2>4. SumAt(counts, W \cup {t}) = SumAt(counts, W) + counts[t] /\ SumAt(counts, W) \in Int
      BY <1>1, <1>2, SumAtGrows, SumAtType
    <2>5. Cardinality(Of(W) \cup Group(t)) = Cardinality(Of(W)) + Cardinality(Group(t))
      <3>1. IsFiniteSet(Of(W)) /\ IsFiniteSet(Group(t))
        BY <1>1, <1>3, GroupsFinite
      <3>2. Of(W) \cap Group(t) = {}
        BY <2>1
      <3> QED BY ONLY <3>1, <3>2, ApartCounted
    <2>6. counts[t] = Cardinality(Group(t)) - 1 /\ Cardinality(Group(t)) \in Nat
      BY <1>2
    <2>7. Cardinality(Of(W)) \in Nat
      BY <1>3
    <2>8. Cardinality(Of(W \cup {t})) = Cardinality(Of(W)) + Cardinality(Group(t))
      BY ONLY <2>1, <2>5
    <2> QED BY ONLY <2>2, <2>3, <2>4, <2>6, <2>7, <2>8
  <1>6. SUBSET R \subseteq U
    <2>1. IsFiniteSet(R)
      BY <1>1
    <2> HIDE DEF U, R
    <2> QED BY ONLY <1>4, <1>5, <2>1, Gathering
  <1>7. SumAt(counts, R) + Cardinality(R) = Cardinality(Of(R))
    BY <1>6
  <1>8. Cardinality(Active) > 0
    <2>1. PICK t \in Overlapping : TRUE
      OBVIOUS
    <2>2. t \in Titles
      BY DEF Overlapping
    <2>3. Active # {}
      BY <2>2 DEF Titles
    <2> QED BY <2>3, GroupsFinite, FS_EmptySet
  <1>9. Cardinality(R) \in Nat /\ (Cardinality(R) = 0 <=> R = {})
    BY <1>1, FS_CardinalityType, FS_EmptySet
  <1>10. R = {} => SumAt(counts, R) = 0
    BY <1>1, <1>2, SumAtNothing
  <1>11. SumAt(counts, R) \in Int
    BY <1>1, <1>2, SumAtType
  <1>12. Cardinality(Of(R)) \in Nat /\ Cardinality(Of(R)) <= Cardinality(Active) /\ Cardinality(Active) \in Nat
    BY <1>3, GroupsFinite
  <1> HIDE DEF R, counts, Of
  <1> QED BY <1>2, <1>7, <1>8, <1>9, <1>10, <1>11, <1>12

\* The titles whose holders can all do the same, and those who share nothing.
LEMMA TwinsMerged ==
  ASSUME StaffInv, NEW t \in Overlapping
  PROVE  LET sets == {Recorded(staff[e]) : e \in Group(t)}
         IN  /\ Cardinality(sets) = 1 /\ {} \notin sets => t \in Redundant /\ SuggestedAction(t) = "merge"
             /\ (\A c \in Competencies : Cardinality({e \in Group(t) : c \in Recorded(staff[e])}) < 2)
                => t \notin Redundant /\ SuggestedAction(t) = "retain"
  <1> DEFINE sets == {Recorded(staff[e]) : e \in Group(t)}
             G == Group(t)
  <1>1. t \in Titles /\ Cardinality(G) >= 2 /\ IsFiniteSet(G)
    BY GroupsFinite DEF Overlapping
  <1>2. ASSUME Cardinality(sets) = 1, {} \notin sets
        PROVE  t \in Redundant /\ SuggestedAction(t) = "merge"
    <2>1. IsFiniteSet(sets)
      <3> DEFINE recorded == [e \in G |-> Recorded(staff[e])]
      <3>1. DOMAIN recorded = G /\ sets = {recorded[e] : e \in G}
        OBVIOUS
      <3> HIDE DEF recorded, sets, G
      <3> QED BY <1>1, <3>1, FiniteRange
    <2>2. PICK X : sets = {X}
      <3> HIDE DEF sets
      <3> QED BY <1>2, <2>1, FS_Singleton
    <2>3. \A e \in G : Recorded(staff[e]) = X /\ X # {}
      BY <1>2, <2>2
    <2>4. \A q \in kSubset(2, G) : Jaccard(q) = Parts
      <3> SUFFICES ASSUME NEW q \in kSubset(2, G) PROVE Jaccard(q) = Parts
        OBVIOUS
      <3>1. PICK d \in G, e \in G : q = {d, e}
        BY <1>1, PairsOf
      <3> QED BY <2>3, <3>1, JaccardOfTwins
    <2>5. PICK m \in Nat \ {0} : Common(t) = Parts * m /\ Whole(t) = Parts * m
      BY <1>1, <2>4, EvenOverlap, PartsAssumption
    <2>6. PICK w \in Nat \ {0} : Common(t) = w /\ Whole(t) = w
      <3>1. Parts \in Nat \ {0}
        BY PartsAssumption
      <3>2. Parts * m \in Nat \ {0}
        BY ONLY <3>1, m \in Nat \ {0}
      <3> QED BY <2>5, <3>2
    <2>7. 200 * w > 139 * w /\ 5 * w >= 4 * w
      OBVIOUS
    <2> QED BY <2>6, <2>7 DEF Redundant, SuggestedAction
  <1>3. ASSUME \A c \in Competencies : Cardinality({e \in G : c \in Recorded(staff[e])}) < 2
        PROVE  t \notin Redundant /\ SuggestedAction(t) = "retain"
    <2>1. ASSUME NEW d \in G, NEW e \in G, d # e
          PROVE  Recorded(staff[d]) \cap Recorded(staff[e]) = {}
      <3> SUFFICES ASSUME NEW c \in Recorded(staff[d]) \cap Recorded(staff[e]) PROVE FALSE
        OBVIOUS
      <3> DEFINE holders == {x \in G : c \in Recorded(staff[x])}
      <3>1. c \in Competencies
        BY RecordedFinite
      <3>2. Cardinality(holders) < 2
        BY <1>3, <3>1
      <3>3. {d, e} \in SUBSET holders
        OBVIOUS
      <3>4. IsFiniteSet(holders)
        BY <1>1, FS_Subset
      <3>5. Cardinality({d, e}) = 2
        BY ONLY <2>1, TwoCounted
      <3> HIDE DEF holders
      <3>6. 2 <= Cardinality(holders) /\ Cardinality(holders) \in Nat
        BY <3>3, <3>4, <3>5, FS_Subset, FS_CardinalityType
      <3> QED BY <3>2, <3>6
    <2>2. \A q \in kSubset(2, G) : Jaccard(q) = 0
      <3> SUFFICES ASSUME NEW q \in kSubset(2, G) PROVE Jaccard(q) = 0
        OBVIOUS
      <3>1. PICK d \in G, e \in G : d # e /\ q = {d, e}
        BY <1>1, PairsOf
      <3> QED BY <2>1, <3>1, JaccardOfTwins
    <2>3. PICK m \in Nat \ {0} : Common(t) = 0 * m /\ Whole(t) = Parts * m
      BY <1>1, <2>2, EvenOverlap
    <2>4. PICK w \in Nat \ {0} : Common(t) = 0 /\ Whole(t) = w
      <3>1. Parts \in Nat \ {0}
        BY PartsAssumption
      <3>2. Parts * m \in Nat \ {0} /\ 0 * m = 0
        BY ONLY <3>1, m \in Nat \ {0}
      <3> QED BY <2>3, <3>2
    <2>5. ~(200 * 0 > 139 * w) /\ ~(5 * 0 >= 4 * w) /\ 2 * 0 < w
      OBVIOUS
    <2> QED BY <2>4, <2>5 DEF Redundant, SuggestedAction
  <1> QED BY <1>2, <1>3

\* Scores say the same as what they were computed from, for any departments,
\* positions and histories.
THEOREM ScoresAreSound == HRSpec => []ScoresSound
  <1>1. StaffInv => ScoresSound
    <2> SUFFICES ASSUME StaffInv PROVE ScoresSound
      OBVIOUS
    <2>1. QualifiedIsStrong
      <3>1. \A e \in Employees : staff[e].levels \in [Competencies -> 0..5]
        BY DEF StaffInv, Person
      <3> QED BY <3>1, QualifiedStrong DEF QualifiedIsStrong
    <2>2. TwinsAreMerged
      BY TwinsMerged, SomeoneRemains DEF TwinsAreMerged
    <2> QED BY <2>1, <2>2 DEF ScoresSound
  <1> QED BY <1>1, StaffStart, StaffStep, PTL DEF HRSpec

-----------------------------------------------------------------------------
(* What a slump does to the risk, the trend and the health of the           *)
(* department: each of their parts is followed from one history to the next *)
(* one.                                                                     *)

LEMMA ScoresNat == Scores \subseteq Nat
  <1>1. Scores \subseteq 0..10000
    BY ScoresAssumption
  <1>2. 0..10000 \subseteq Nat
    OBVIOUS
  <1> QED BY ONLY <1>1, <1>2


\* What a history adds up to, and what it adds up to with one review more.
LEMMA TotalType ==
  ASSUME NEW r \in Seq(Marks)
  PROVE  /\ Total(r) \in Nat /\ DOMAIN r = 1..Len(r) /\ Len(r) \in Nat
         /\ \A n \in DOMAIN r : r[n] \in Marks /\ r[n].score \in Nat /\ r[n].met \in BOOLEAN
  <1>1. /\ DOMAIN r = 1..Len(r) /\ Len(r) \in Nat
        /\ \A n \in DOMAIN r : r[n] \in Marks
    BY LenProperties, ElementOfSeq
  <1>2. \A n \in DOMAIN r : r[n].score \in Nat /\ r[n].met \in BOOLEAN
    BY <1>1, ScoresNat DEF Marks
  <1> DEFINE f == [n \in DOMAIN r |-> r[n].score]
  <1>3. DOMAIN f = 1..Len(r) /\ \A n \in DOMAIN f : f[n] \in Nat
    <2>1. DOMAIN f = DOMAIN r /\ \A n \in DOMAIN r : f[n] = r[n].score
      OBVIOUS
    <2>2. \A n \in DOMAIN r : r[n].score \in Nat
      BY ONLY <1>2
    <2> HIDE DEF f
    <2> QED BY <1>1, <2>1, <2>2
  <1>4. Total(r) = SumAt(f, DOMAIN f)
    BY DEF Total, Sum
  <1> HIDE DEF f
  <1>5. IsFiniteSet(DOMAIN f)
    BY <1>1, <1>3, FS_Interval
  <1>6. SumAt(f, DOMAIN f) \in Nat
    BY <1>3, <1>5, SumAtNat
  <1> QED BY <1>1, <1>2, <1>4, <1>6

LEMMA TotalAppend ==
  ASSUME NEW r \in Seq(Marks), NEW x \in Marks
  PROVE  /\ Append(r, x) \in Seq(Marks) /\ Len(Append(r, x)) = Len(r) + 1
         /\ \A n \in DOMAIN r : n \in DOMAIN Append(r, x) /\ Append(r, x)[n] = r[n]
         /\ Append(r, x)[Len(r) + 1] = x
         /\ Total(Append(r, x)) = Total(r) + x.score
  <1> DEFINE s == Append(r, x)
             f == [n \in DOMAIN s |-> s[n].score]
             g == [n \in DOMAIN r |-> r[n].score]
             l == Len(r)
  <1>1. /\ s \in Seq(Marks) /\ Len(s) = l + 1 /\ l \in Nat /\ s[l + 1] = x
        /\ \A n \in 1..l : s[n] = r[n]
    BY AppendProperties, LenProperties
  <1>2. DOMAIN r = 1..l /\ DOMAIN s = 1..(l + 1)
    BY <1>1, LenProperties
  <1>3. /\ DOMAIN f = 1..(l + 1) /\ DOMAIN g = 1..l /\ f[l + 1] = x.score
        /\ \A n \in 1..l : g[n] = f[n]
    BY <1>1, <1>2
  <1>4. \A n \in DOMAIN f : f[n] \in Int
    <2>1. DOMAIN f = DOMAIN s /\ \A n \in DOMAIN s : f[n] = s[n].score
      OBVIOUS
    <2>2. \A n \in DOMAIN s : s[n].score \in Nat
      BY <1>1, TotalType
    <2> HIDE DEF f, s
    <2> QED BY <2>1, <2>2
  <1>5. Total(s) = SumAt(f, DOMAIN f) /\ Total(r) = SumAt(g, DOMAIN g)
    BY DEF Total, Sum
  <1> HIDE DEF f, g, s, l
  <1>6. SumAt(f, DOMAIN f) = SumAt(g, DOMAIN g) + f[l + 1]
    BY <1>1, <1>3, <1>4, SumAtNext
  <1>7. Total(s) = Total(r) + x.score
    BY <1>3, <1>5, <1>6
  <1> QED BY <1>1, <1>2, <1>7 DEF s, l

LEMMA TotalLeast ==
  ASSUME NEW r \in Seq(Marks), NEW least \in Int, \A n \in DOMAIN r : r[n].score >= least
  PROVE  Total(r) >= least * Len(r)
  <1> DEFINE f == [n \in DOMAIN r |-> r[n].score]
  <1>1. /\ DOMAIN f = 1..Len(r) /\ Len(r) \in Nat
        /\ \A n \in DOMAIN f : f[n] \in Int /\ least <= f[n]
    <2>1. DOMAIN f = DOMAIN r /\ \A n \in DOMAIN r : f[n] = r[n].score
      OBVIOUS
    <2>2. \A n \in DOMAIN r : r[n].score \in Int
      BY TotalType
    <2>3. DOMAIN r = 1..Len(r) /\ Len(r) \in Nat
      BY TotalType
    <2> HIDE DEF f
    <2> QED BY <2>1, <2>2, <2>3
  <1>2. Total(r) = SumAt(f, DOMAIN f)
    BY DEF Total, Sum
  <1> HIDE DEF f
  <1>3. IsFiniteSet(DOMAIN f) /\ Cardinality(DOMAIN f) = Len(r)
    <2>1. IsFiniteSet(1..Len(r)) /\ Cardinality(1..Len(r)) = Len(r)
      BY <1>1, FS_Interval
    <2> QED BY <1>1, <2>1
  <1>4. SumAt(f, DOMAIN f) >= least * Cardinality(DOMAIN f)
    BY <1>1, <1>3, SumAtLeast
  <1> QED BY <1>2, <1>3, <1>4

\* A record that never rose, and a review more than ten points below it.
Slump(r, x) ==
    /\ r \in Seq(Marks) /\ r # <<>> /\ x \in Marks /\ ~x.met
    /\ \A n \in DOMAIN r : /\ x.score < r[n].score - 1000
                           /\ \A m \in 1..n : r[n].score <= r[m].score

LEMMA SlumpFacts ==
  ASSUME NEW r, NEW x, Slump(r, x)
  PROVE  LET s == Append(r, x)
             l == Len(r)
         IN  /\ s \in Seq(Marks) /\ Len(s) = l + 1 /\ l \in Nat \ {0}
             /\ DOMAIN r = 1..l /\ DOMAIN s = 1..(l + 1)
             /\ \A n \in 1..l : s[n] = r[n]
             /\ s[l + 1] = x /\ x.score \in Nat
             /\ \A n \in 1..(l + 1) : s[n].score \in Nat
             /\ r[l].score <= r[1].score /\ x.score < r[l].score - 1000
             /\ Total(r) \in Nat /\ Total(s) = Total(r) + x.score
             /\ Total(r) >= (x.score + 1001) * l
  <1> DEFINE s == Append(r, x)
             l == Len(r)
  <1> USE DEF Slump
  <1>1. s \in Seq(Marks) /\ Len(s) = l + 1 /\ s[l + 1] = x /\ Total(s) = Total(r) + x.score
        /\ \A n \in DOMAIN r : s[n] = r[n]
    BY TotalAppend
  <1>2. DOMAIN r = 1..l /\ l \in Nat /\ Total(r) \in Nat
    BY TotalType
  <1>3. l # 0
    BY EmptySeq
  <1>4. DOMAIN s = 1..(l + 1)
    BY <1>1, TotalType
  <1> HIDE DEF s, l
  <1>5. \A n \in 1..(l + 1) : s[n].score \in Nat
    BY <1>1, <1>4, TotalType
  <1>6. x.score \in Nat
    BY ScoresNat DEF Marks
  <1>7. 1 \in 1..l /\ l \in 1..l
    BY <1>2, <1>3
  <1>8. Total(r) >= (x.score + 1001) * l
    <2>1. \A n \in DOMAIN r : r[n].score >= x.score + 1001
      <3> SUFFICES ASSUME NEW n \in DOMAIN r PROVE r[n].score >= x.score + 1001
        OBVIOUS
      <3>1. r[n].score \in Nat /\ x.score < r[n].score - 1000
        BY TotalType
      <3> QED BY ONLY <3>1, <1>6
    <2>2. x.score + 1001 \in Int
      BY ONLY <1>6
    <2> HIDE DEF Slump
    <2> QED BY <2>1, <2>2, TotalLeast DEF l, Slump
  <1> QED BY <1>1, <1>2, <1>3, <1>4, <1>5, <1>6, <1>7, <1>8 DEF s, l

LEMMA CappedIs ==
  ASSUME NEW n \in Int
  PROVE  Capped(n) = IF n <= 100 THEN n ELSE 100
  <1>1. \A y \in {n, 100} : y \in Int
    OBVIOUS
  <1>2. CASE n <= 100
    <2>1. n \in {n, 100} /\ \A y \in {n, 100} : n <= y
      BY <1>2
    <2>2. \A v \in {n, 100} : (\A y \in {n, 100} : v <= y) => v = n
      BY <1>2
    <2> QED BY <1>2, <2>1, <2>2 DEF Capped, Min
  <1>3. CASE ~(n <= 100)
    <2>1. 100 \in {n, 100} /\ \A y \in {n, 100} : 100 <= y
      BY <1>3
    <2>2. \A v \in {n, 100} : (\A y \in {n, 100} : v <= y) => v = 100
      BY <1>3
    <2> QED BY <1>3, <2>1, <2>2 DEF Capped, Min
  <1> QED BY <1>2, <1>3

\* No average rises by a slump, and none was zero.
LEMMA AverageFalls ==
  ASSUME NEW r, NEW x, Slump(r, x), NEW bound \in Nat, AverageBelow(r, bound)
  PROVE  AverageBelow(Append(r, x), bound)
  <1> DEFINE s == Append(r, x)
             l == Len(r)
             t == Total(r)
             v == x.score
             limit == 100 * bound
  <1>1. /\ l \in Nat \ {0} /\ Len(s) = l + 1 /\ t \in Nat /\ v \in Nat
        /\ Total(s) = t + v /\ t >= (v + 1001) * l
    BY SlumpFacts
  <1>2. t < limit * l
    BY DEF AverageBelow, Slump
  <1>3. limit \in Nat
    OBVIOUS
  <1> HIDE DEF s, l, t, v, limit
  <1>4. v + 1001 < limit
    <2> SUFFICES ASSUME limit <= v + 1001 PROVE FALSE
      BY <1>1, <1>3
    <2>1. limit * l <= (v + 1001) * l
      BY <1>1, <1>3
    <2>2. limit * l \in Int /\ (v + 1001) * l \in Int
      BY <1>1, <1>3
    <2> QED BY <1>1, <1>2, <1>3, <2>1, <2>2
  <1>5. t + v < limit * (l + 1)
    <2>1. limit * (l + 1) = limit * l + limit /\ limit * l \in Int
      BY <1>1, <1>3
    <2> QED BY <1>1, <1>2, <1>3, <1>4, <2>1
  <1>6. Total(s) < limit * Len(s)
    BY <1>1, <1>3, <1>5
  <1> QED BY <1>6 DEF AverageBelow, s, limit

LEMMA AverageNotZero ==
  ASSUME NEW r, NEW x, Slump(r, x)
  PROVE  ~AverageIsZero(r) /\ ~AverageIsZero(Append(r, x))
  <1> DEFINE l == Len(r)
             t == Total(r)
             v == x.score
  <1>1. /\ l \in Nat \ {0} /\ t \in Nat /\ v \in Nat
        /\ Total(Append(r, x)) = t + v /\ t >= (v + 1001) * l
    BY SlumpFacts
  <1> HIDE DEF l, t, v
  <1>2. (v + 1001) * l > 0
    BY <1>1
  <1>3. t > 0
    <2>1. (v + 1001) * l \in Int
      BY <1>1
    <2> QED BY <1>1, <1>2, <2>1
  <1> QED BY <1>1, <1>3 DEF AverageIsZero, t

\* The same person, a slump later.
Later(e, d) ==
    /\ Slump(e.reviews, d.reviews[Len(e.reviews) + 1])
    /\ d.reviews = Append(e.reviews, d.reviews[Len(e.reviews) + 1])
    /\ d.status = e.status /\ d.years = e.years /\ d.key = e.key /\ d.flagged = e.flagged
    /\ d.salary = e.salary /\ d.levels = e.levels

LEMMA ComplianceKept ==
  ASSUME NEW e, NEW d, Later(e, d)
  PROVE  Compliance(d) >= Compliance(e) /\ Compliance(d) \in Int /\ Compliance(e) \in Int
  <1>1. AverageBelow(e.reviews, 70) => AverageBelow(d.reviews, 70)
    BY AverageFalls DEF Later
  <1> DEFINE a(f) == Points(f.status = "probation", 20)
             b(f) == Points(f.salary > 500 /\ AverageBelow(f.reviews, 70), 25)
             c(f) == Points(f.years >= 5, 15)
             k(f) == Points(f.key, 20)
  <1>2. \A f : Compliance(f) = a(f) + b(f) + c(f) + k(f)
    BY DEF Compliance
  <1>3. a(d) = a(e) /\ a(e) \in Int /\ c(d) = c(e) /\ c(e) \in Int /\ k(d) = k(e) /\ k(e) \in Int
    BY DEF Later, Points
  <1>4. b(d) >= b(e) /\ b(d) \in Int /\ b(e) \in Int
    BY <1>1 DEF Later, Points
  <1> HIDE DEF a, b, c, k
  <1> QED BY <1>2, <1>3, <1>4

LEMMA GapKept ==
  ASSUME NEW e, NEW d, Later(e, d)
  PROVE  CompetencyGap(d) = CompetencyGap(e) /\ CompetencyGap(e) \in Int
  <1>1. Recorded(d) = Recorded(e) /\ LevelSum(d) = LevelSum(e)
    BY DEF Later, Recorded, LevelSum
  <1>2. {c \in Recorded(d) : d.levels[c] < 3} = {c \in Recorded(e) : e.levels[c] < 3}
    BY <1>1 DEF Later
  <1>3. CompetencyGap(d) = CompetencyGap(e)
    BY <1>1, <1>2 DEF CompetencyGap
  <1>4. CompetencyGap(e) \in Int
    BY DEF CompetencyGap, Points
  <1> QED BY <1>3, <1>4

LEMMA UnmetGrows ==
  ASSUME NEW r, NEW x, Slump(r, x)
  PROVE  Unmet(Append(r, x)) >= Unmet(r) /\ Unmet(r) \in Nat /\ Unmet(Append(r, x)) \in Nat
  <1> DEFINE s == Append(r, x)
             before == {n \in DOMAIN r : ~r[n].met}
             after == {n \in DOMAIN s : ~s[n].met}
  <1>1. /\ DOMAIN r = 1..Len(r) /\ DOMAIN s = 1..(Len(r) + 1) /\ Len(r) \in Nat
        /\ \A n \in 1..Len(r) : s[n] = r[n]
    BY SlumpFacts
  <1>2. before \subseteq after
    <2>1. \A n \in 1..Len(r) : n \in 1..(Len(r) + 1)
      BY <1>1
    <2> QED BY <1>1, <2>1
  <1>3. IsFiniteSet(after)
    <2>1. IsFiniteSet(1..(Len(r) + 1))
      BY <1>1, FS_Interval
    <2>2. after \subseteq 1..(Len(r) + 1)
      BY <1>1
    <2> QED BY <2>1, <2>2, FS_Subset
  <1>4. Unmet(r) = Cardinality(before) /\ Unmet(s) = Cardinality(after)
    BY DEF Unmet
  <1> HIDE DEF before, after, s
  <1>5. Cardinality(before) <= Cardinality(after) /\ IsFiniteSet(before)
    BY <1>2, <1>3, FS_Subset
  <1> QED BY <1>3, <1>4, <1>5, FS_CardinalityType DEF s

\* The last two of a record with a slump are more than five below the others.
LEMMA SlumpIsDrop ==
  ASSUME NEW r, NEW x, Slump(r, x)
  PROVE  LET s == Append(r, x)
             n == Len(s)
             older == IF n > 2 THEN [total |-> Total(SubSeq(s, 1, n - 2)), count |-> n - 2]
                      ELSE [total |-> s[1].score, count |-> 1]
         IN  /\ n >= 2
             /\ (s[n - 1].score + s[n].score) * older.count < 2 * (older.total - 500 * older.count)
  <1> DEFINE s == Append(r, x)
             l == Len(r)
             v == x.score
             low == r[l].score
  <1>1. /\ l \in Nat \ {0} /\ Len(s) = l + 1 /\ s[l] = r[l] /\ s[l + 1] = x /\ s[1] = r[1]
        /\ v \in Nat /\ low \in Nat /\ v < low - 1000 /\ s \in Seq(Marks)
        /\ \A n \in 1..l : s[n] = r[n]
    <2>1. /\ l \in Nat \ {0} /\ Len(s) = l + 1 /\ s[l + 1] = x /\ v \in Nat /\ v < low - 1000
          /\ s \in Seq(Marks) /\ \A n \in 1..l : s[n] = r[n]
      BY SlumpFacts
    <2>2. 1 \in 1..l /\ l \in 1..l
      BY <2>1
    <2>3. low \in Nat
      BY <2>1, <2>2, SlumpFacts
    <2> QED BY <2>1, <2>2, <2>3
  <1>2. CASE l = 1
    <2>1. Len(s) = 2 /\ s[1].score = low /\ s[2].score = v
      BY <1>1, <1>2
    <2>2. (low + v) * 1 < 2 * (low - 500 * 1)
      BY <1>1
    <2> HIDE DEF s, low, v
    <2> QED BY <2>1, <2>2 DEF s
  <1>3. CASE l # 1
    <2> DEFINE o == SubSeq(s, 1, l - 1)
               t == Total(o)
               c == l - 1
    <2>1. /\ o \in Seq(Marks) /\ Len(o) = c /\ c \in Nat \ {0}
          /\ \A n \in 1..c : o[n] = s[n]
      <3>1. c \in Nat \ {0} /\ 1 \in Int /\ c \in Int /\ 1 <= c
        <4>1. l \in Nat \ {0}
          BY <1>1
        <4> HIDE DEF l
        <4> QED BY ONLY <1>3, <4>1
      <3>2. \A n \in 1..c : s[n] \in Marks
        <4>1. \A n \in 1..Len(s) : s[n] \in Marks
          BY <1>1, TotalType
        <4>2. \A n \in 1..c : n \in 1..Len(s)
          BY <1>1
        <4> QED BY <4>1, <4>2
      <3> HIDE DEF c, s
      <3>3. /\ SubSeq(s, 1, c) \in Seq(Marks) /\ Len(SubSeq(s, 1, c)) = c - 1 + 1
            /\ \A n \in 1..(c - 1 + 1) : SubSeq(s, 1, c)[n] = s[1 + n - 1]
        BY <3>1, <3>2, SubSeqProperties
      <3>4. c - 1 + 1 = c /\ \A n \in 1..c : 1 + n - 1 = n
        BY <3>1
      <3> QED BY <3>1, <3>3, <3>4 DEF c
    <2>2. \A n \in DOMAIN o : o[n].score >= low
      <3>1. DOMAIN o = 1..c
        BY <2>1, TotalType
      <3>2. \A n \in 1..c : n \in 1..l /\ n <= l
        BY <1>1
      <3>3. \A n \in 1..c : r[n].score >= low
        <4> SUFFICES ASSUME NEW n \in 1..c PROVE r[n].score >= r[l].score
          OBVIOUS
        <4>1. l \in DOMAIN r /\ n \in 1..l
          BY <1>1, <3>2, SlumpFacts
        <4>2. r[l].score <= r[n].score
          BY <4>1 DEF Slump
        <4>3. r[n].score \in Nat
          BY <1>1, <4>1, SlumpFacts
        <4> QED BY <1>1, <4>2, <4>3
      <3> QED BY <1>1, <2>1, <3>1, <3>2, <3>3
    <2>3. t >= low * c /\ t \in Nat
      <3>1. o \in Seq(Marks) /\ low \in Int
        BY <1>1, <2>1
      <3> HIDE DEF o, low, c
      <3>2. Total(o) >= low * Len(o)
        BY ONLY <2>2, <3>1, TotalLeast
      <3>3. Total(o) \in Nat
        BY <3>1, TotalType
      <3> QED BY <2>1, <3>2, <3>3
    <2>4. (low + v) * c < 2 * (t - 500 * c)
      <3> HIDE DEF low, v, c, t
      <3>1. low * c \in Nat /\ v * c \in Nat /\ (low + v) * c = low * c + v * c
        BY <1>1, <2>1
      <3>2. (v + 1001) * c <= low * c
        BY <1>1, <2>1
      <3>3. (v + 1001) * c = v * c + 1001 * c
        BY <1>1, <2>1
      <3> QED BY <2>1, <2>3, <3>1, <3>2, <3>3
    <2>5. Len(s) > 2 /\ Len(s) - 2 = c /\ Len(s) - 1 = l
      <3> HIDE DEF s, l
      <3> QED BY <1>1, <1>3
    <2>6. s[l].score = low /\ s[l + 1].score = v
      BY <1>1
    <2>7. Total(SubSeq(s, 1, Len(s) - 2)) = t
      BY <2>5
    <2>8. Len(s) = l + 1 /\ Len(s) >= 2 /\ l \in Nat
      <3> HIDE DEF s, l
      <3> QED BY <1>1, <2>5
    <2> HIDE DEF low, v, c, l, t, o, s
    <2> DEFINE older == IF Len(s) > 2
                        THEN [total |-> Total(SubSeq(s, 1, Len(s) - 2)), count |-> Len(s) - 2]
                        ELSE [total |-> s[1].score, count |-> 1]
    <2>9. older.total = t /\ older.count = c
      BY <2>5, <2>7
    <2>10. s[Len(s) - 1].score = low /\ s[Len(s)].score = v
      BY <2>5, <2>6, <2>8
    <2>11. (s[Len(s) - 1].score + s[Len(s)].score) * older.count < 2 * (older.total - 500 * older.count)
      <3> HIDE DEF older
      <3> QED BY <2>4, <2>9, <2>10
    <2> QED BY <2>8, <2>11 DEF s
  <1> QED BY <1>2, <1>3

LEMMA TurnoverGrows ==
  ASSUME NEW e, NEW d, Later(e, d)
  PROVE  Turnover(d) >= Turnover(e) /\ Turnover(d) \in Int /\ Turnover(e) \in Int
  <1> DEFINE older(q) == IF Len(q) > 2
                         THEN [total |-> Total(SubSeq(q, 1, Len(q) - 2)), count |-> Len(q) - 2]
                         ELSE [total |-> q[1].score, count |-> 1]
             drop(q) == Points(Len(q) >= 2 /\ (q[Len(q) - 1].score + q[Len(q)].score) * older(q).count
                                              < 2 * (older(q).total - 500 * older(q).count), 25)
             short(f) == IF f.years < 1 THEN 30 ELSE Points(f.years < 2, 15)
             low(q) == Points(AverageBelow(q, 65), 20)
             tagged(f) == Points(f.flagged, 15)
             trial(f) == Points(f.status = "probation", 10)
             unmet(q) == Points(Len(q) > 0 /\ ~q[Len(q)].met, 10)
             points(f) == short(f) + drop(f.reviews) + low(f.reviews) + tagged(f) + trial(f) + unmet(f.reviews)
  <1>1. \A f : Turnover(f) = Capped(points(f))
    BY DEF Turnover
  <1>2. PICK r, s, x : r = e.reviews /\ s = d.reviews /\ Slump(r, x) /\ s = Append(r, x)
    BY DEF Later
  <1>3. drop(s) = 25 /\ drop(r) \in 0..25
    <2>1. drop(s) = 25
      BY <1>2, SlumpIsDrop DEF Points
    <2>2. drop(r) \in 0..25
      BY DEF Points
    <2> QED BY <2>1, <2>2
  <1>4. /\ short(d) = short(e) /\ short(e) \in Int /\ trial(d) = trial(e) /\ trial(e) \in Int
        /\ tagged(d) = tagged(e) /\ tagged(e) \in Int
    BY DEF Later, Points
  <1>5. low(s) >= low(r) /\ low(s) \in Int /\ low(r) \in Int
    <2>1. AverageBelow(r, 65) => AverageBelow(s, 65)
      BY <1>2, AverageFalls
    <2> QED BY <2>1 DEF Points
  <1>6. unmet(s) = 10 /\ unmet(r) \in 0..10
    <2>1. Len(s) > 0 /\ s[Len(s)] = x
      BY <1>2, SlumpFacts
    <2>2. ~x.met
      BY <1>2 DEF Slump
    <2> QED BY <2>1, <2>2 DEF Points
  <1> HIDE DEF drop, short, low, tagged, trial, unmet
  <1>7. points(d) >= points(e) /\ points(d) \in Int /\ points(e) \in Int
    <2>1. /\ points(d) = short(e) + drop(s) + low(s) + tagged(e) + trial(e) + unmet(s)
          /\ points(e) = short(e) + drop(r) + low(r) + tagged(e) + trial(e) + unmet(r)
      BY <1>2, <1>4
    <2> HIDE DEF points
    <2> QED BY ONLY <1>3, <1>4, <1>5, <1>6, <2>1
  <1> HIDE DEF points
  <1>8. /\ Capped(points(d)) = IF points(d) <= 100 THEN points(d) ELSE 100
        /\ Capped(points(e)) = IF points(e) <= 100 THEN points(e) ELSE 100
    BY <1>7, CappedIs
  <1> QED BY <1>1, <1>7, <1>8

LEMMA PerformanceGrows ==
  ASSUME NEW e, NEW d, Later(e, d)
  PROVE  Performance(d) >= Performance(e) /\ Performance(d) \in Int /\ Performance(e) \in Int
  <1> DEFINE low(q) == IF AverageIsZero(q) THEN 20 ELSE IF AverageBelow(q, 60) THEN 60
                       ELSE IF AverageBelow(q, 70) THEN 40 ELSE Points(AverageBelow(q, 80), 20)
             fall(q) == IF Len(q) < 2 THEN 0 ELSE IF q[Len(q)].score < q[1].score - 1000 THEN 20
                        ELSE Points(q[Len(q)].score < q[Len(q) - 1].score - 500, 10)
             unmet(q) == Points(Unmet(q) >= 2, 15)
             points(q) == low(q) + fall(q) + unmet(q)
  <1>1. Performance(d) = Capped(points(d.reviews)) /\ Performance(e) = Capped(points(e.reviews))
    BY DEF Performance
  <1>2. PICK r, s, x : r = e.reviews /\ s = d.reviews /\ Slump(r, x) /\ s = Append(r, x)
    BY DEF Later
  <1>3. low(s) >= low(r) /\ low(s) \in Int /\ low(r) \in Int
    <2>1. ~AverageIsZero(r) /\ ~AverageIsZero(s)
      BY <1>2, AverageNotZero
    <2>2. /\ AverageBelow(r, 60) => AverageBelow(s, 60)
          /\ AverageBelow(r, 70) => AverageBelow(s, 70)
          /\ AverageBelow(r, 80) => AverageBelow(s, 80)
      BY <1>2, AverageFalls
    <2> QED BY <2>1, <2>2 DEF Points
  <1>4. fall(s) = 20 /\ fall(r) \in 0..20
    <2>1. /\ Len(s) >= 2 /\ s[Len(s)] = x /\ s[1] = r[1]
          /\ x.score \in Nat /\ r[1].score \in Nat /\ r[Len(r)].score \in Nat
          /\ r[Len(r)].score <= r[1].score /\ x.score < r[Len(r)].score - 1000
      <3> HIDE DEF low, fall, unmet, points
      <3>1. /\ Len(r) \in Nat \ {0} /\ Len(s) = Len(r) + 1 /\ s[Len(r) + 1] = x
            /\ \A n \in 1..Len(r) : s[n] = r[n]
            /\ \A n \in 1..(Len(r) + 1) : s[n].score \in Nat
            /\ r[Len(r)].score <= r[1].score /\ x.score < r[Len(r)].score - 1000 /\ x.score \in Nat
        BY <1>2, SlumpFacts
      <3>2. 1 \in 1..Len(r) /\ Len(r) \in 1..Len(r) /\ 1 \in 1..(Len(r) + 1) /\ Len(r) \in 1..(Len(r) + 1)
        BY <3>1
      <3>3. s[1] = r[1] /\ s[Len(r)] = r[Len(r)] /\ s[1].score \in Nat /\ s[Len(r)].score \in Nat
        BY <3>1, <3>2
      <3> QED BY <3>1, <3>3
    <2>2. x.score < r[1].score - 1000
      <3> DEFINE a == x.score
                 b == r[1].score
                 c == r[Len(r)].score
      <3>1. a \in Nat /\ b \in Nat /\ c \in Nat /\ c <= b /\ a < c - 1000
        BY <2>1
      <3> HIDE DEF a, b, c
      <3>2. a < b - 1000
        BY ONLY <3>1
      <3> QED BY <3>2 DEF a, b
    <2>3. fall(s) = 20
      BY <2>1, <2>2
    <2>4. fall(r) \in 0..20
      BY DEF Points
    <2> QED BY <2>3, <2>4
  <1>5. unmet(s) >= unmet(r) /\ unmet(s) \in Int /\ unmet(r) \in Int
    <2>1. Unmet(s) >= Unmet(r) /\ Unmet(r) \in Nat /\ Unmet(s) \in Nat
      BY <1>2, UnmetGrows
    <2> QED BY <2>1 DEF Points
  <1> HIDE DEF low, fall, unmet
  <1>6. points(s) >= points(r) /\ points(s) \in Int /\ points(r) \in Int
    BY <1>3, <1>4, <1>5
  <1> HIDE DEF points
  <1>7. /\ Capped(points(s)) = IF points(s) <= 100 THEN points(s) ELSE 100
        /\ Capped(points(r)) = IF points(r) <= 100 THEN points(r) ELSE 100
    BY <1>6, CappedIs
  <1>8. Performance(d) = Capped(points(s)) /\ Performance(e) = Capped(points(r))
    BY <1>1, <1>2
  <1> QED BY ONLY <1>6, <1>7, <1>8

LEMMA RiskGrows ==
  ASSUME NEW e, NEW d, Later(e, d)
  PROVE  RiskTwenty(d) >= RiskTwenty(e) /\ RiskTwenty(d) \in Int /\ RiskTwenty(e) \in Int
  <1>1. /\ Turnover(d) >= Turnover(e) /\ Turnover(d) \in Int /\ Turnover(e) \in Int
        /\ Compliance(d) >= Compliance(e) /\ Compliance(d) \in Int /\ Compliance(e) \in Int
        /\ Performance(d) >= Performance(e) /\ Performance(d) \in Int /\ Performance(e) \in Int
        /\ CompetencyGap(d) = CompetencyGap(e) /\ CompetencyGap(e) \in Int
    BY TurnoverGrows, ComplianceKept, PerformanceGrows, GapKept
  <1> QED BY <1>1 DEF RiskTwenty

\* How far the numbers of the reviews spread around their middle.
LEMMA SpreadIs ==
  ASSUME NEW n \in Nat, NEW f, DOMAIN f = 1..n,
         \A i \in 1..n : f[i] = (2 * i - n - 1) * (2 * i - n - 1)
  PROVE  3 * SumAt(f, DOMAIN f) = n * (n + 1) * (n - 1) /\ SumAt(f, DOMAIN f) \in Int
  <1> DEFINE sum(j) == 2 * (j * (j + 1) * (2 * j + 1)) - 6 * ((n + 1) * j * (j + 1)) + 3 * (j * (n + 1) * (n + 1))
             p == [j \in 0..n |-> sum(j)]
  <1>1. \A j \in Nat : sum(j) \in Int
    OBVIOUS
  <1>2. \A j \in Nat : LET i == j + 1 IN sum(i) = sum(j) + 3 * ((2 * i - n - 1) * (2 * i - n - 1))
    OBVIOUS
  <1>3. sum(0) = 0 /\ sum(n) = n * (n + 1) * (n - 1)
    OBVIOUS
  <1> HIDE DEF sum
  <1>4. p[0] = 0 /\ p[n] = n * (n + 1) * (n - 1) /\ \A j \in 0..n : p[j] \in Int
    BY <1>1, <1>3
  <1>5. ASSUME NEW j \in 0..(n - 1)
        PROVE  p[j + 1] = p[j] + 3 * f[j + 1]
    <2>1. j \in Nat /\ j \in 0..n /\ j + 1 \in 0..n /\ j + 1 \in 1..n
      OBVIOUS
    <2>2. p[j + 1] = sum(j + 1) /\ p[j] = sum(j)
      BY <2>1
    <2> QED BY <1>2, <2>1, <2>2
  <1>6. \A i \in 1..n : f[i] \in Int
    OBVIOUS
  <1> HIDE DEF p
  <1>7. IsFiniteSet(DOMAIN f)
    BY FS_Interval
  <1>8. SumAt(f, DOMAIN f) \in Int
    BY <1>6, <1>7, SumAtType
  <1>9. 3 * SumAt(f, DOMAIN f) = p[n]
    <2>1. Climbs(n, f, 3, p)
      BY <1>4, <1>5, <1>6 DEF Climbs
    <2> QED BY <2>1, SumAtClimbs
  <1> QED BY <1>4, <1>8, <1>9

\* A level line with a lower last point, and what it adds up to.
Line(g, n, v, drop) ==
    /\ DOMAIN g = 1..n
    /\ \A i \in 1..n : g[i] = (2 * i - n - 1) * v - (IF i = n THEN drop ELSE 0)

LEMMA LineIs ==
  ASSUME NEW n \in Nat, n >= 2, NEW v \in Int, NEW drop \in Int, NEW g, Line(g, n, v, drop)
  PROVE  SumAt(g, DOMAIN g) = 0 - drop
  <1> USE DEF Line
  <1> DEFINE last(i) == IF i = n THEN drop ELSE 0
             sum(j) == v * (j * (j - n)) - last(j)
             p == [j \in 0..n |-> sum(j)]
  <1>1. \A j \in Nat : sum(j) \in Int /\ last(j) \in Int
    OBVIOUS
  <1>2. ASSUME NEW j \in 0..(n - 1)
        PROVE  sum(j + 1) = sum(j) + ((2 * (j + 1) - n - 1) * v - last(j + 1))
    <2>1. j \in Nat /\ j + 1 \in Nat /\ last(j) = 0 /\ last(j + 1) \in Int
      OBVIOUS
    <2> HIDE DEF last
    <2>2. v * ((j + 1) * (j + 1 - n)) = v * (j * (j - n)) + (2 * (j + 1) - n - 1) * v
      BY <2>1
    <2>3. v * (j * (j - n)) \in Int /\ (2 * (j + 1) - n - 1) * v \in Int
      BY <2>1
    <2> QED BY <2>1, <2>2, <2>3
  <1>3. sum(0) = 0 /\ sum(n) = 0 - drop
    OBVIOUS
  <1>4. ASSUME NEW j \in 0..(n - 1)
        PROVE  p[j + 1] = p[j] + 1 * g[j + 1]
    <2>1. j \in 0..n /\ j + 1 \in 0..n /\ j + 1 \in 1..n /\ j + 1 \in Nat
      OBVIOUS
    <2>2. g[j + 1] = (2 * (j + 1) - n - 1) * v - last(j + 1)
      BY <2>1
    <2>3. p[j + 1] = sum(j + 1) /\ p[j] = sum(j)
      BY <2>1
    <2>4. g[j + 1] \in Int
      BY <1>1, <2>1, <2>2
    <2> HIDE DEF sum, p, last
    <2> QED BY <1>2, <2>2, <2>3, <2>4
  <1>5. \A i \in 1..n : g[i] \in Int
    <2>1. \A i \in 1..n : (2 * i - n - 1) * v \in Int /\ last(i) \in Int
      OBVIOUS
    <2> QED BY <2>1
  <1> HIDE DEF sum
  <1>6. p[0] = 0 /\ p[n] = 0 - drop /\ \A j \in 0..n : p[j] \in Int
    BY <1>1, <1>3
  <1> HIDE DEF p, last
  <1>7. 1 * SumAt(g, DOMAIN g) = p[n]
    <2>1. Climbs(n, g, 1, p)
      BY <1>4, <1>5, <1>6 DEF Climbs
    <2> QED BY <2>1, SumAtClimbs
  <1>8. SumAt(g, DOMAIN g) \in Int
    <2>1. IsFiniteSet(DOMAIN g) /\ \A i \in DOMAIN g : g[i] \in Int
      BY <1>5, FS_Interval
    <2> QED BY <2>1, SumAtType
  <1> QED BY <1>6, <1>7, <1>8

\* A line through n points that never rise, the last below the others,
\* falls: compare each with the one in the middle.
Falling(y, f, n, fall) ==
    /\ \A i \in 1..n : y[i] \in Int
    /\ \A i \in 1..(n - 1) : y[n] + fall <= y[i]
    /\ \A i \in 1..(n - 1) : \A j \in 1..i : y[i] <= y[j]
    /\ DOMAIN f = 1..n /\ \A i \in 1..n : f[i] = (2 * i - n - 1) * y[i]

LEMMA SlopeFalls ==
  ASSUME NEW n \in Nat, n >= 2, NEW fall \in Nat, NEW drop \in Int, drop = fall * (n - 1),
         NEW y, NEW f, Falling(y, f, n, fall)
  PROVE  SumAt(f, DOMAIN f) <= 0 - drop /\ SumAt(f, DOMAIN f) \in Int
  <1> USE DEF Falling
  <1>1. PICK m \in 1..(n - 1) : 2 * m <= n /\ n <= 2 * m + 1
    <2>1. n \div 2 \in 1..(n - 1) /\ 2 * (n \div 2) <= n /\ n <= 2 * (n \div 2) + 1
      OBVIOUS
    <2> QED BY <2>1
  <1> DEFINE v == y[m]
             c(i) == 2 * i - n - 1
             last(i) == IF i = n THEN drop ELSE 0
             g == [i \in 1..n |-> c(i) * v - last(i)]
  <1>2. v \in Int /\ \A i \in Int : c(i) \in Int /\ last(i) \in Int
    BY <1>1
  <1>3. ASSUME NEW i \in 1..n
        PROVE  f[i] \in Int /\ g[i] \in Int /\ f[i] <= 1 * g[i]
    <2>1. y[i] \in Int /\ i \in Int /\ c(i) \in Int /\ f[i] = c(i) * y[i] /\ g[i] = c(i) * v - last(i)
      OBVIOUS
    <2>2. CASE i <= m
      <3>1. i \in 1..m /\ y[m] <= y[i] /\ c(i) <= 0 /\ last(i) = 0
        BY <1>1, <2>2
      <3> DEFINE a == c(i)
                 z == y[i]
      <3>2. a \in Int /\ z \in Int /\ a <= 0 /\ v <= z
        BY <2>1, <3>1
      <3> HIDE DEF a, z, v, c, last, g
      <3>3. a * z <= a * v
        BY ONLY <1>2, <3>2
      <3>4. a * z \in Int /\ a * v \in Int
        BY <1>2, <3>2
      <3> QED BY <2>1, <3>1, <3>3, <3>4 DEF a, z
    <2>3. CASE i > m /\ i # n
      <3>1. i \in 1..(n - 1) /\ m \in 1..i /\ y[i] <= y[m] /\ c(i) >= 0 /\ last(i) = 0
        BY <1>1, <2>3
      <3> DEFINE a == c(i)
                 z == y[i]
      <3>2. a \in Int /\ z \in Int /\ a >= 0 /\ z <= v
        BY <2>1, <3>1
      <3> HIDE DEF a, z, v, c, last, g
      <3>3. a * z <= a * v
        BY ONLY <1>2, <3>2
      <3>4. a * z \in Int /\ a * v \in Int
        BY <1>2, <3>2
      <3> QED BY <2>1, <3>1, <3>3, <3>4 DEF a, z
    <2>4. CASE i = n
      <3>1. y[n] + fall <= y[m] /\ c(i) = n - 1 /\ last(i) = drop
        BY <1>1, <2>4
      <3> DEFINE a == n - 1
                 z == y[i]
      <3>2. a \in Int /\ z \in Int /\ a >= 0 /\ z + fall <= v
        BY <2>1, <2>4, <3>1
      <3>3. f[i] = a * z /\ g[i] = a * v - fall * a
        BY <2>1, <2>4, <3>1
      <3> HIDE DEF a, z, v, c, last, g
      <3>4. a * (z + fall) <= a * v /\ a * (z + fall) = a * z + fall * a
        BY ONLY <1>2, <3>2
      <3>5. a * z \in Int /\ a * v \in Int
        BY <1>2, <3>2
      <3> QED BY <3>2, <3>3, <3>4, <3>5
    <2> QED BY <1>1, <2>2, <2>3, <2>4
  <1>7. DOMAIN g = 1..n /\ \A i \in 1..n : g[i] = c(i) * v - last(i)
    OBVIOUS
  <1> HIDE DEF c, last, v, g
  <1>10. SumAt(g, DOMAIN g) = 0 - drop
    <2>1. \A i \in 1..n : g[i] = (2 * i - n - 1) * v - (IF i = n THEN drop ELSE 0)
      BY <1>7 DEF c, last
    <2>2. DOMAIN g = 1..n /\ v \in Int
      BY <1>2, <1>7
    <2>3. Line(g, n, v, drop)
      BY <2>1, <2>2 DEF Line
    <2> QED BY ONLY <2>2, <2>3, n \in Nat, n >= 2, drop \in Int, LineIs
  <1>11. IsFiniteSet(DOMAIN f) /\ DOMAIN g = DOMAIN f
    BY <1>7, FS_Interval
  <1>12. SumAt(f, DOMAIN f) <= 1 * SumAt(g, DOMAIN f)
    BY <1>3, <1>11, SumAtWithin
  <1>13. SumAt(f, DOMAIN f) \in Int
    BY <1>3, <1>11, SumAtType
  <1> QED BY <1>10, <1>11, <1>12, <1>13

LEMMA TrendFalls ==
  ASSUME NEW r, NEW x, Slump(r, x)
  PROVE  LET s == Append(r, x)
         IN  /\ Trend(s) # "improving"
             /\ Len(s) <= 11 => Trend(s) \in {"declining", "volatile"}
  <1>1. PICK s, n : s = Append(r, x) /\ n = Len(s)
    OBVIOUS
  <1>2. /\ n \in Nat /\ n >= 2 /\ DOMAIN s = 1..n
        /\ \A i \in 1..n : s[i].score \in Int
        /\ \A i \in 1..(n - 1) : s[n].score + 1001 <= s[i].score
        /\ \A i \in 1..(n - 1) : \A j \in 1..i : s[i].score <= s[j].score
    <2>1. PICK l \in Nat \ {0} : l = Len(r)
      BY SlumpFacts
    <2>2. /\ n = l + 1 /\ DOMAIN r = 1..l /\ DOMAIN s = 1..n /\ s[n] = x /\ x.score \in Nat
          /\ \A i \in 1..l : s[i] = r[i]
          /\ \A i \in 1..n : s[i].score \in Nat
      BY <1>1, <2>1, SlumpFacts
    <2>3. \A i \in 1..l : /\ x.score < r[i].score - 1000
                          /\ \A j \in 1..i : r[i].score <= r[j].score
      BY <2>2 DEF Slump
    <2>4. \A i \in 1..l : i \in 1..n /\ \A j \in 1..i : j \in 1..l
      BY <2>2
    <2>5. n \in Nat /\ n >= 2 /\ n - 1 = l
      BY <2>1, <2>2
    <2>6. ASSUME NEW i \in 1..l PROVE s[n].score + 1001 <= s[i].score
      <3> DEFINE a == x.score
                 b == r[i].score
      <3>1. a \in Nat /\ b \in Nat /\ a < b - 1000
        BY <2>2, <2>3, <2>4
      <3> HIDE DEF a, b
      <3>2. a + 1001 <= b
        BY ONLY <3>1
      <3> QED BY <2>2, <3>2 DEF a, b
    <2>7. ASSUME NEW i \in 1..l, NEW j \in 1..i PROVE s[i].score <= s[j].score
      BY <2>2, <2>3, <2>4
    <2> QED BY <2>2, <2>5, <2>6, <2>7
  <1> DEFINE y == [i \in 1..n |-> s[i].score]
             f == [k \in DOMAIN s |-> (2 * k - n - 1) * s[k].score]
             g == [k \in DOMAIN s |-> (2 * k - n - 1) * (2 * k - n - 1)]
             slope == SumAt(f, DOMAIN f)
             spread == SumAt(g, DOMAIN g)
             away == [k \in DOMAIN s |-> s[k].score - s[1].score]
             square == n * Sum([k \in DOMAIN s |-> away[k] * away[k]]) - Sum(away) * Sum(away)
  <1>3. /\ DOMAIN f = 1..n /\ DOMAIN g = 1..n
        /\ \A i \in 1..n : y[i] = s[i].score
        /\ \A i \in 1..n : f[i] = (2 * i - n - 1) * y[i]
        /\ \A i \in 1..n : g[i] = (2 * i - n - 1) * (2 * i - n - 1)
    BY <1>2
  <1>4. Trend(s) = IF n < 2 THEN "insufficient_data"
                   ELSE IF square > 1000000 * n * n THEN "volatile"
                   ELSE IF 2 * n * slope > 500 * spread THEN "improving"
                   ELSE IF 2 * n * slope < -500 * spread THEN "declining" ELSE "stable"
    BY <1>1 DEF Trend, Sum
  <1> HIDE DEF y, f, g, square
  <1>5. slope <= 0 - 1001 * (n - 1) /\ slope \in Int
    <2>1. /\ \A i \in 1..n : y[i] \in Int
          /\ \A i \in 1..(n - 1) : y[n] + 1001 <= y[i]
          /\ \A i \in 1..(n - 1) : \A j \in 1..i : y[i] <= y[j]
      <3>1. n \in 1..n /\ \A i \in 1..(n - 1) : i \in 1..n /\ \A j \in 1..i : j \in 1..n
        BY <1>2
      <3>2. \A i \in 1..n : y[i] = s[i].score /\ s[i].score \in Int
        BY <1>2, <1>3
      <3>3. \A i \in 1..n : y[i] \in Int
        BY ONLY <3>2
      <3>4. \A i \in 1..(n - 1) : y[n] + 1001 <= y[i]
        <4>1. \A i \in 1..(n - 1) : s[n].score + 1001 <= s[i].score
          BY <1>2
        <4> QED BY ONLY <3>1, <3>2, <4>1
      <3>5. \A i \in 1..(n - 1) : \A j \in 1..i : y[i] <= y[j]
        <4>1. \A i \in 1..(n - 1) : \A j \in 1..i : s[i].score <= s[j].score
          BY <1>2
        <4> QED BY ONLY <3>1, <3>2, <4>1
      <3> QED BY <3>3, <3>4, <3>5
    <2>2. DOMAIN f = 1..n /\ \A i \in 1..n : f[i] = (2 * i - n - 1) * y[i]
      BY <1>3
    <2>3. n \in Nat /\ n >= 2
      BY <1>2
    <2>4. PICK fall \in Nat : fall = 1001
      OBVIOUS
    <2>5. \A i \in 1..(n - 1) : y[n] + fall <= y[i]
      BY <2>1, <2>4
    <2>6. PICK drop \in Int : drop = fall * (n - 1) /\ drop = 1001 * (n - 1)
      BY <2>3, <2>4
    <2>7. Falling(y, f, n, fall)
      BY <2>1, <2>2, <2>5 DEF Falling
    <2>8. SumAt(f, DOMAIN f) <= 0 - drop /\ SumAt(f, DOMAIN f) \in Int
      BY ONLY <2>3, <2>6, <2>7, SlopeFalls
    <2> QED BY <2>6, <2>8 DEF slope
  <1>6. 3 * spread = n * (n + 1) * (n - 1) /\ spread \in Int
    BY <1>2, <1>3, SpreadIs
  <1> HIDE DEF slope, spread
  <1> DEFINE w == n * (n - 1)
  <1>7. w \in Nat /\ w > 0
    BY <1>2
  <1>8. 2 * n * slope <= 0 - 2002 * w /\ 2 * n * slope \in Int
    <2>1. 2 * n * slope = n * (2 * slope) /\ n * (2 * slope) \in Int
      BY <1>2, <1>5
    <2>2. n * (2 * slope) <= n * (0 - 2002 * (n - 1))
      <3>1. PICK a \in Int, b \in Int : a = 2 * slope /\ b = 0 - 2002 * (n - 1)
        BY <1>2, <1>5
      <3>2. a <= b
        BY <1>2, <1>5, <3>1
      <3>3. n * a <= n * b
        <4>1. PICK k \in Nat : k = b - a
          BY <3>2
        <4>2. n * b = n * a + n * k /\ n * k \in Nat
          <5>1. b = a + k /\ n \in Nat
            BY <1>2, <4>1
          <5> QED BY ONLY <5>1, a \in Int, k \in Nat
        <4>3. n * a \in Int
          BY <1>2
        <4> QED BY <4>2, <4>3
      <3> QED BY <3>1, <3>3
    <2>3. n * (0 - 2002 * (n - 1)) = 0 - 2002 * w
      BY <1>2
    <2> QED BY <2>1, <2>2, <2>3
  <1>9. 3 * spread = w * (n + 1)
    BY <1>2, <1>6
  <1> HIDE DEF w
  <1>10. spread >= 0
    <2>1. w * (n + 1) >= 0 /\ w * (n + 1) \in Int
      BY <1>2, <1>7
    <2> QED BY <1>6, <1>9, <2>1
  <1>11. n <= 11 => 500 * spread < 2002 * w
    <2> SUFFICES ASSUME n <= 11 PROVE 500 * spread < 2002 * w
      OBVIOUS
    <2>1. w * (n + 1) <= w * 12 /\ w * (n + 1) \in Int
      BY <1>2, <1>7
    <2> QED BY <1>6, <1>7, <1>9, <2>1
  <1>12. ~(2 * n * slope > 500 * spread)
    BY <1>6, <1>7, <1>8, <1>10
  <1>13. n <= 11 => 2 * n * slope < -500 * spread
    BY <1>6, <1>7, <1>8, <1>11
  <1>14. ~(n < 2)
    BY <1>2
  <1>15. Trend(s) # "improving" /\ (n <= 11 => Trend(s) \in {"declining", "volatile"})
    BY ONLY <1>4, <1>12, <1>13, <1>14
  <1> QED BY <1>1, <1>15

LEMMA DivFalls ==
  ASSUME NEW a \in Nat, NEW b \in Nat \ {0}, NEW c \in Nat, NEW d \in Nat \ {0}, a * d <= c * b
  PROVE  a \div b <= c \div d /\ a \div b \in Int /\ c \div d \in Int
  <1>1. PICK p \in Nat, q \in Nat : p = a \div b /\ q = c \div d
    OBVIOUS
  <1>2. p * b <= a /\ c < (q + 1) * d
    BY <1>1
  <1>3. p * b * d <= a * d
    BY <1>2
  <1>4. c * b < (q + 1) * d * b
    BY <1>2
  <1>5. p * (b * d) < (q + 1) * (b * d)
    <2>1. p * b * d = p * (b * d) /\ (q + 1) * d * b = (q + 1) * (b * d)
      OBVIOUS
    <2>2. p * (b * d) \in Int /\ (q + 1) * (b * d) \in Int /\ a * d \in Int /\ c * b \in Int
      OBVIOUS
    <2> QED BY <1>3, <1>4, <2>1, <2>2
  <1>6. p <= q
    <2> SUFFICES ASSUME q + 1 <= p PROVE FALSE
      OBVIOUS
    <2>1. PICK k \in Nat : k = b * d
      OBVIOUS
    <2>2. (q + 1) * k <= p * k /\ (q + 1) * k \in Int /\ p * k \in Int
      OBVIOUS
    <2> QED BY <1>5, <2>1, <2>2
  <1> QED BY <1>1, <1>6

LEMMA LevelIs ==
  ASSUME NEW twenty \in Int
  PROVE  Level(twenty) \in {"high", "critical"} <=> twenty >= 1200
  BY DEF Level

LEMMA MinIs ==
  ASSUME NEW a \in Int, NEW b \in Int
  PROVE  Min({a, b}) \in Int
  <1>1. \A y \in {a, b} : y \in Int
    OBVIOUS
  <1>2. \E v \in {a, b} : \A y \in {a, b} : v <= y
    <2>1. CASE a <= b
      BY <2>1
    <2>2. CASE b <= a
      BY <2>2
    <2> QED BY <2>1, <2>2
  <1>3. Min({a, b}) \in {a, b}
    BY <1>2 DEF Min
  <1> QED BY <1>1, <1>3

LEMMA HealthFalls ==
  ASSUME NEW S, NEW T, IsFiniteSet(DOMAIN S), DOMAIN T = DOMAIN S,
         \A e \in DOMAIN S : S[e] \in Person,
         NEW a \in DOMAIN S, Later(S[a], T[a]), \A e \in DOMAIN S : e # a => T[e] = S[e]
  PROVE  HealthOf(T) <= HealthOf(S)
  <1> DEFINE D == DOMAIN S
             average(r) == IF r = <<>> THEN 0 ELSE (12 * Total(r)) \div Len(r)
             before == [e \in D |-> average(S[e].reviews)]
             after == [e \in D |-> average(T[e].reviews)]
             risky(s) == {e \in D : Level(RiskTwenty(s[e])) \in {"high", "critical"}}
             years(s) == [e \in D |-> s[e].years]
             n == Cardinality(D)
             counts(s) == [e \in D |-> Cardinality(Recorded(s[e]))]
             totals(s) == [e \in D |-> LevelSum(s[e])]
             able(s) == IF Sum(counts(s)) = 0 THEN 0 ELSE (15000 * n * Sum(totals(s))) \div Sum(counts(s))
             part(s) == 60000 * (n - Cardinality(risky(s)))
             old(s) == 9000 * Min({5 * n, Sum(years(s))})
  <1>1. /\ HealthOf(S) = Sum(before) + able(S) + part(S) + old(S)
        /\ HealthOf(T) = Sum(after) + able(T) + part(T) + old(T)
    BY DEF HealthOf
  <1>2. ASSUME NEW e \in D
        PROVE  before[e] \in Int /\ after[e] \in Int /\ after[e] <= before[e]
    <2>1. ASSUME NEW r \in Seq(Marks) PROVE average(r) \in Int
      <3>1. CASE r = <<>>
        BY <3>1
      <3>2. CASE r # <<>>
        <4>1. PICK t \in Nat, l \in Nat \ {0} : t = Total(r) /\ l = Len(r)
          BY <3>2, TotalType, EmptySeq
        <4>2. (12 * t) \div l \in Int
          OBVIOUS
        <4> QED BY <3>2, <4>1, <4>2
      <3> QED BY <3>1, <3>2
    <2>2. S[e].reviews \in Seq(Marks)
      BY DEF Person
    <2>3. CASE e # a
      <3>1. after[e] = before[e]
        BY <2>3
      <3>2. before[e] \in Int
        BY <2>1, <2>2
      <3> QED BY <3>1, <3>2
    <2>4. CASE e = a
      <3>1. PICK r, s, x : r = S[a].reviews /\ s = T[a].reviews /\ Slump(r, x) /\ s = Append(r, x)
        BY DEF Later
      <3>2. PICK t \in Nat, l \in Nat \ {0}, v \in Nat : t = Total(r) /\ l = Len(r) /\ v = x.score
        BY <3>1, SlumpFacts
      <3>3. /\ Total(s) = t + v /\ Len(s) = l + 1 /\ t >= (v + 1001) * l
        BY <3>1, <3>2, SlumpFacts
      <3>4. r # <<>> /\ s # <<>> /\ r \in Seq(Marks) /\ s \in Seq(Marks)
        <4>1. r # <<>> /\ r \in Seq(Marks)
          BY <3>1 DEF Slump
        <4>2. s \in Seq(Marks) /\ Len(s) # 0
          BY <3>1, <3>2, <3>3, SlumpFacts
        <4> QED BY <4>1, <4>2, EmptySeq
      <3>5. (12 * (t + v)) \div (l + 1) <= (12 * t) \div l
        <4>1. v * l <= t
          <5>1. (v + 1001) * l = v * l + 1001 * l /\ v * l \in Int
            OBVIOUS
          <5> QED BY <3>3, <5>1
        <4>2. (12 * (t + v)) * l <= (12 * t) * (l + 1)
          <5>1. /\ (12 * (t + v)) * l = 12 * (t * l) + 12 * (v * l)
                /\ (12 * t) * (l + 1) = 12 * (t * l) + 12 * t
                /\ t * l \in Int /\ v * l \in Int
            OBVIOUS
          <5> QED BY <4>1, <5>1
        <4>3. PICK p \in Nat, q \in Nat, k \in Nat \ {0} : p = 12 * (t + v) /\ q = 12 * t /\ k = l + 1
          OBVIOUS
        <4>4. p * l <= q * k
          BY <4>2, <4>3
        <4>5. p \div k <= q \div l
          BY <4>4, DivFalls
        <4> QED BY <4>3, <4>5
      <3>6. /\ before[e] = (12 * t) \div l /\ after[e] = (12 * (t + v)) \div (l + 1)
        <4>1. before[e] = average(r) /\ after[e] = average(s)
          BY <2>4, <3>1
        <4>2. average(r) = (12 * Total(r)) \div Len(r) /\ average(s) = (12 * Total(s)) \div Len(s)
          BY <3>4
        <4> HIDE DEF before, after, average
        <4> QED BY <3>2, <3>3, <4>1, <4>2
      <3>7. (12 * t) \div l \in Int /\ (12 * (t + v)) \div (l + 1) \in Int
        OBVIOUS
      <3> QED BY <3>5, <3>6, <3>7
    <2> QED BY <2>3, <2>4
  <1>3. Sum(after) <= Sum(before) /\ Sum(after) \in Int /\ Sum(before) \in Int
    <2>1. DOMAIN before = D /\ DOMAIN after = D /\ IsFiniteSet(D)
      OBVIOUS
    <2> HIDE DEF before, after, D
    <2>2. SumAt(after, D) <= 1 * SumAt(before, D)
      BY <1>2, <2>1, SumAtWithin
    <2>3. SumAt(after, D) \in Int /\ SumAt(before, D) \in Int
      BY <1>2, <2>1, SumAtType
    <2> QED BY <2>1, <2>2, <2>3 DEF Sum
  <1>4. part(T) <= part(S) /\ part(T) \in Int /\ part(S) \in Int
    <2>1. risky(S) \subseteq risky(T)
      <3> SUFFICES ASSUME NEW e \in D, e \in risky(S) PROVE e \in risky(T)
        OBVIOUS
      <3>1. CASE e # a
        BY <3>1
      <3>2. CASE e = a
        <4>1. RiskTwenty(T[a]) >= RiskTwenty(S[a]) /\ RiskTwenty(T[a]) \in Int /\ RiskTwenty(S[a]) \in Int
          BY RiskGrows
        <4>2. RiskTwenty(S[a]) >= 1200
          BY <3>2, <4>1, LevelIs
        <4>3. RiskTwenty(T[a]) >= 1200
          BY <4>1, <4>2
        <4>4. Level(RiskTwenty(T[a])) \in {"high", "critical"}
          BY <4>1, <4>3, LevelIs
        <4> QED BY <3>2, <4>4
      <3> QED BY <3>1, <3>2
    <2>2. risky(T) \subseteq D /\ IsFiniteSet(D)
      OBVIOUS
    <2> HIDE DEF risky, D
    <2>3. IsFiniteSet(risky(T)) /\ IsFiniteSet(risky(S))
      BY <2>1, <2>2, FS_Subset
    <2>4. Cardinality(risky(S)) <= Cardinality(risky(T))
      BY <2>1, <2>3, FS_Subset
    <2>5. Cardinality(risky(S)) \in Nat /\ Cardinality(risky(T)) \in Nat /\ n \in Nat
      BY <2>2, <2>3, FS_CardinalityType
    <2> QED BY <2>4, <2>5
  <1>5. old(T) = old(S) /\ old(S) \in Int
    <2>1. years(T) = years(S)
      BY DEF Later
    <2>2. \A e \in D : years(S)[e] \in Int
      BY DEF Person
    <2>3. DOMAIN years(S) = D /\ IsFiniteSet(D)
      OBVIOUS
    <2> HIDE DEF years, D
    <2>4. SumAt(years(S), D) \in Int
      BY <2>2, <2>3, SumAtType
    <2>5. Sum(years(S)) \in Int /\ 5 * n \in Int
      BY <2>3, <2>4, FS_CardinalityType DEF Sum
    <2>6. Min({5 * n, Sum(years(S))}) \in Int
      BY <2>5, MinIs
    <2> QED BY <2>1, <2>6
  <1>6. able(T) = able(S) /\ able(S) \in Int
    <2>1. \A e \in D : Recorded(T[e]) = Recorded(S[e]) /\ LevelSum(T[e]) = LevelSum(S[e])
      BY DEF Later, Recorded, LevelSum
    <2>2. counts(T) = counts(S) /\ totals(T) = totals(S)
      BY <2>1
    <2>3. able(T) = able(S)
      BY ONLY <2>2
    <2>4. ASSUME NEW e \in D PROVE counts(S)[e] \in Nat /\ totals(S)[e] \in Nat
      <3>1. counts(S)[e] = Cardinality(Recorded(S[e])) /\ totals(S)[e] = LevelSum(S[e])
        OBVIOUS
      <3>2. Cardinality(Recorded(S[e])) \in Nat
        BY RecordedFinite, FS_CardinalityType
      <3>3. LevelSum(S[e]) \in Nat
        <4> DEFINE f == S[e].levels
        <4>1. f \in [Competencies -> 0..5]
          BY DEF Person
        <4> HIDE DEF f
        <4>2. DOMAIN f = Competencies /\ \A c \in Competencies : f[c] \in Nat
          BY <4>1
        <4>3. IsFiniteSet(DOMAIN f)
          BY <4>2, HRAssumption
        <4>4. SumAt(f, DOMAIN f) \in Nat
          BY <4>2, <4>3, SumAtNat
        <4> QED BY <4>4 DEF f, LevelSum, Sum
      <3> QED BY <3>1, <3>2, <3>3
    <2>5. DOMAIN counts(S) = D /\ DOMAIN totals(S) = D /\ IsFiniteSet(D)
      OBVIOUS
    <2>6. n \in Nat
      BY <2>5, FS_CardinalityType
    <2> HIDE DEF counts, totals, D, n
    <2>7. Sum(counts(S)) \in Nat /\ Sum(totals(S)) \in Nat
      BY <2>4, <2>5, SumAtNat DEF Sum
    <2>8. \A k \in Nat, m \in Nat : k # 0 => (15000 * n * m) \div k \in Int
      BY <2>6
    <2>9. able(S) \in Int
      BY <2>7, <2>8
    <2> QED BY <2>3, <2>9
  <1> HIDE DEF able, part, old, before, after
  <1> QED BY <1>1, <1>3, <1>4, <1>5, <1>6

LEMMA SlumpShows ==
  ASSUME StaffInv, [HRNext]_hrVars
  PROVE  [SlumpIsSeen]_hrVars
  <1>1. CASE UNCHANGED staff
    <2> SUFFICES ASSUME NEW e \in Employees, Slumped(staff[e].reviews, staff'[e].reviews) PROVE FALSE
      BY DEF SlumpIsSeen
    <2>1. Len(staff[e].reviews) \in Nat
      BY LenProperties DEF StaffInv, Person
    <2> QED BY <1>1, <2>1 DEF Slumped
  <1>2. ASSUME NEW a \in Employees, NEW score \in Scores, NEW met \in BOOLEAN, Appraise(a, score, met)
        PROVE  SlumpIsSeen
    <2> SUFFICES ASSUME NEW e \in Employees, Slumped(staff[e].reviews, staff'[e].reviews)
                 PROVE  /\ RiskTwenty(staff'[e]) >= RiskTwenty(staff[e])
                        /\ Trend(staff'[e].reviews) # "improving"
                        /\ Len(staff'[e].reviews) <= 11
                           => Trend(staff'[e].reviews) \in {"declining", "volatile"}
                        /\ HealthOf(staff') <= HealthOf(staff)
      BY DEF SlumpIsSeen
    <2>1. PICK r, x, s : /\ r = staff[a].reviews /\ x = [score |-> score, met |-> met] /\ s = Append(r, x)
      OBVIOUS
    <2>2. staff' = [staff EXCEPT ![a].reviews = s] /\ x \in Marks
      BY <1>2, <2>1 DEF Appraise, Marks
    <2>3. DOMAIN staff' = DOMAIN staff /\ \A d \in Employees : d # a => staff'[d] = staff[d]
      BY <2>2 DEF Employees
    <2>4. staff'[a] = [staff[a] EXCEPT !.reviews = s] /\ staff[a] \in Person
      BY <2>2 DEF Employees, StaffInv
    <2>5. /\ staff'[a].reviews = s /\ staff'[a].status = staff[a].status /\ staff'[a].years = staff[a].years
          /\ staff'[a].key = staff[a].key /\ staff'[a].flagged = staff[a].flagged
          /\ staff'[a].salary = staff[a].salary
          /\ staff'[a].levels = staff[a].levels /\ r \in Seq(Marks)
      BY <2>1, <2>4 DEF Person
    <2>6. e = a
      <3> SUFFICES ASSUME e # a PROVE FALSE
        OBVIOUS
      <3>1. Len(staff[e].reviews) \in Nat
        BY LenProperties DEF StaffInv, Person
      <3>2. staff'[e] = staff[e]
        BY <2>3
      <3> QED BY <3>1, <3>2 DEF Slumped
    <2>7. /\ Len(s) = Len(r) + 1 /\ s[Len(r) + 1] = x /\ Last(s) = x
      BY <2>1, <2>2, <2>5, TotalAppend DEF Last
    <2>8. Slump(r, x)
      BY <2>1, <2>2, <2>5, <2>6, <2>7 DEF Slumped, Slump
    <2>9. Later(staff[a], staff'[a])
      BY <2>1, <2>5, <2>7, <2>8 DEF Later
    <2>10. RiskTwenty(staff'[a]) >= RiskTwenty(staff[a])
      BY <2>9, RiskGrows
    <2>11. Trend(s) # "improving" /\ (Len(s) <= 11 => Trend(s) \in {"declining", "volatile"})
      BY <2>1, <2>8, TrendFalls
    <2>12. HealthOf(staff') <= HealthOf(staff)
      BY <2>3, <2>9, HealthFalls DEF Employees, StaffInv
    <2> QED BY <2>5, <2>6, <2>10, <2>11, <2>12
  <1> QED BY <1>1, <1>2 DEF HRNext, hrVars, Simulate, Review, Confirm, RunFullFoolproof, CreateSnapshot

\* A slump is seen by every view of it, for any staff and histories of any length.
THEOREM SlumpsAreSeen == HRSpec => SlumpRaisesRisk
  <1>1. StaffInv /\ [HRNext]_hrVars => [SlumpIsSeen]_hrVars
    BY SlumpShows
  <1> QED BY <1>1, StaffStart, StaffStep, PTL DEF HRSpec, SlumpRaisesRisk

-----------------------------------------------------------------------------
(* Collection: the guard's scores.                                         *)

\* A text as the detectors see it, and one in which each signal is found at least as often.
GeoText == [shape : [words : Nat, length : Nat, cites : {"nothing", "doi", "link"}],
            host : [rank : {"none", "high", "low", "public", "other"}, parts : Nat, digits : BOOLEAN, long : BOOLEAN],
            found : [DOMAIN Signals -> Nat], more : Nat]
Suspecter(h, g) ==
    /\ h \in GeoText /\ g \in GeoText /\ h.shape = g.shape /\ h.host = g.host
    /\ \A signal \in DOMAIN Signals : h.found[signal] >= g.found[signal]

GeoInv == geo \in GeoText

\* The smaller and the larger of two numbers.
LEMMA LeastOfTwo ==
  ASSUME NEW a \in Int, NEW b \in Int
  PROVE  Min({a, b}) = IF a <= b THEN a ELSE b
  <1> DEFINE m == IF a <= b THEN a ELSE b
  <1>1. m \in {a, b} /\ \A y \in {a, b} : m <= y
    OBVIOUS
  <1>2. \A v \in {a, b} : (\A y \in {a, b} : v <= y) => v = m
    OBVIOUS
  <1> HIDE DEF m
  <1>3. Min({a, b}) = m
    BY <1>1, <1>2 DEF Min
  <1> QED BY <1>3 DEF m

LEMMA MostOfTwo ==
  ASSUME NEW a \in Int, NEW b \in Int
  PROVE  Max({a, b}) = IF a <= b THEN b ELSE a
  <1> DEFINE m == IF a <= b THEN b ELSE a
  <1>1. m \in {a, b} /\ \A y \in {a, b} : m >= y
    OBVIOUS
  <1>2. \A v \in {a, b} : (\A y \in {a, b} : v >= y) => v = m
    OBVIOUS
  <1> HIDE DEF m
  <1>3. Max({a, b}) = m
    BY <1>1, <1>2 DEF Max
  <1> QED BY <1>3 DEF m

\* The signals by name.
LEMMA SignalNames ==
  DOMAIN Signals = {"marker", "transition", "even", "introTitle", "keyword", "titleKeyword", "hidden", "repeated",
                    "citation", "generic", "mention", "injection", "template", "anonymous", "translated"}
  BY DEF Signals

\* A capped score is a number up to 100.
LEMMA CappedAt ==
  ASSUME NEW a \in Nat
  PROVE  /\ Capped100(a) \in Nat /\ Capped100(a) <= 100 /\ (Capped100(a) > 0 <=> a > 0)
         /\ \A b \in Nat : a <= b => Capped100(a) <= Capped100(b)
  BY LeastOfTwo DEF Capped100

\* Each of the layers: its score lies between 0 and 100 and grows with the signals.
LEMMA AiGrows ==
  ASSUME NEW h, NEW g, Suspecter(h, g)
  PROVE  AiScore(g) \in Nat /\ AiScore(g) <= 100 /\ AiScore(g) <= AiScore(h)
  <1> DEFINE raw(t) == (IF t.found.marker >= 3 THEN 50 ELSE When(t.found.marker >= 1, 20))
              + When(t.found.transition >= 2, 30) + 15 * t.found.even
              + When(t.found.introTitle >= 1, 10)
  <1>1. \A s \in {"marker", "transition", "even", "introTitle"} :
           g.found[s] \in Nat /\ h.found[s] \in Nat /\ g.found[s] <= h.found[s]
    BY SignalNames DEF Suspecter, GeoText
  <1>2. raw(g) \in Nat /\ raw(h) \in Nat /\ raw(g) <= raw(h)
    BY <1>1 DEF When
  <1>3. AiScore(g) = Capped100(raw(g)) /\ AiScore(h) = Capped100(raw(h))
    BY DEF AiScore
  <1> HIDE DEF raw
  <1> QED BY <1>2, <1>3, CappedAt

LEMMA StuffingGrows ==
  ASSUME NEW h, NEW g, Suspecter(h, g)
  PROVE  StuffingScore(g) \in Nat /\ StuffingScore(g) <= 100 /\ StuffingScore(g) <= StuffingScore(h)
  <1> DEFINE raw(t) == (IF 100 * t.found.keyword > 3 * t.shape.words THEN When(t.shape.words > 0, 50)
               ELSE When(200 * t.found.keyword > 3 * t.shape.words, 20))
              + When(t.found.titleKeyword >= 2, 30) + When(t.found.hidden >= 2, 50)
              + When(t.found.repeated >= 1 /\ t.shape.words > 50, 20)
  <1>1. \A s \in {"keyword", "titleKeyword", "hidden", "repeated"} :
           g.found[s] \in Nat /\ h.found[s] \in Nat /\ g.found[s] <= h.found[s]
    BY SignalNames DEF Suspecter, GeoText
  <1>4. g.shape.words \in Nat /\ h.shape.words = g.shape.words
    BY DEF Suspecter, GeoText
  <1>2. raw(g) \in Nat /\ raw(h) \in Nat /\ raw(g) <= raw(h)
    BY <1>1, <1>4 DEF When
  <1>3. StuffingScore(g) = Capped100(raw(g)) /\ StuffingScore(h) = Capped100(raw(h))
    BY DEF StuffingScore
  <1> HIDE DEF raw
  <1> QED BY <1>2, <1>3, CappedAt

LEMMA CitationGrows ==
  ASSUME NEW h, NEW g, Suspecter(h, g)
  PROVE  CitationScore(g) \in Nat /\ CitationScore(g) <= 100 /\ CitationScore(g) <= CitationScore(h)
  <1> DEFINE raw(t) == (IF t.found.citation >= 3 THEN 60 ELSE When(t.found.citation >= 1, 30))
              + When(t.found.generic >= 2 /\ t.shape.cites # "link", 40)
              + When(t.found.mention >= 1 /\ t.shape.cites = "nothing" /\ t.shape.length > 200, 20)
  <1>1. \A s \in {"citation", "generic", "mention"} :
           g.found[s] \in Nat /\ h.found[s] \in Nat /\ g.found[s] <= h.found[s]
    BY SignalNames DEF Suspecter, GeoText
  <1>4. h.shape = g.shape
    BY DEF Suspecter
  <1>2. raw(g) \in Nat /\ raw(h) \in Nat /\ raw(g) <= raw(h)
    BY <1>1, <1>4 DEF When
  <1>3. CitationScore(g) = Capped100(raw(g)) /\ CitationScore(h) = Capped100(raw(h))
    BY DEF CitationScore
  <1> HIDE DEF raw
  <1> QED BY <1>2, <1>3, CappedAt

LEMMA FarmGrows ==
  ASSUME NEW h, NEW g, Suspecter(h, g)
  PROVE  /\ FarmScore(g) \in Nat /\ FarmScore(g) <= 100
         /\ \/ FarmScore(g) <= FarmScore(h)
            \/ (g.shape.words < 50 /\ g.found.template <= 1 /\ h.found.template >= 2)
  <1> DEFINE raw(t) == (IF t.found.template >= 3 THEN 50 ELSE When(t.found.template >= 1, 20))
              + (IF t.shape.words < 100 /\ t.found.template >= 2 THEN 30
                 ELSE When(t.shape.words < 50, 40))
              + When(t.found.anonymous >= 1, 10)
  <1>1. \A s \in {"template", "anonymous"} :
           g.found[s] \in Nat /\ h.found[s] \in Nat /\ g.found[s] <= h.found[s]
    BY SignalNames DEF Suspecter, GeoText
  <1>4. g.shape.words \in Nat /\ h.shape.words = g.shape.words
    BY DEF Suspecter, GeoText
  <1>2. /\ raw(g) \in Nat /\ raw(h) \in Nat
        /\ raw(g) <= raw(h) \/ (g.shape.words < 50 /\ g.found.template <= 1 /\ h.found.template >= 2)
    <2> DEFINE w == g.shape.words
               n == g.found.template
               m == h.found.template
    <2>1. w \in Nat /\ n \in Nat /\ m \in Nat /\ n <= m
      BY <1>1, <1>4
    <2>2. When(g.found.anonymous >= 1, 10) \in {0, 10} /\ When(h.found.anonymous >= 1, 10) \in {0, 10}
          /\ When(g.found.anonymous >= 1, 10) <= When(h.found.anonymous >= 1, 10)
      BY <1>1 DEF When
    <2>3. h.shape.words = w
      BY <1>4
    <2> HIDE DEF w, n, m
    <2>4. /\ raw(g) = (IF n >= 3 THEN 50 ELSE When(n >= 1, 20))
                      + (IF w < 100 /\ n >= 2 THEN 30 ELSE When(w < 50, 40)) + When(g.found.anonymous >= 1, 10)
          /\ raw(h) = (IF m >= 3 THEN 50 ELSE When(m >= 1, 20))
                      + (IF w < 100 /\ m >= 2 THEN 30 ELSE When(w < 50, 40)) + When(h.found.anonymous >= 1, 10)
      BY <2>3 DEF w, n, m
    <2> HIDE DEF raw
    <2>5. /\ raw(g) \in Nat /\ raw(h) \in Nat
          /\ raw(g) <= raw(h) \/ (w < 50 /\ n <= 1 /\ m >= 2)
      BY ONLY <2>1, <2>2, <2>4 DEF When
    <2> QED BY <2>5 DEF w, n, m
  <1>3. FarmScore(g) = Capped100(raw(g)) /\ FarmScore(h) = Capped100(raw(h))
    BY DEF FarmScore
  <1> HIDE DEF raw
  <1>5. FarmScore(g) \in Nat /\ FarmScore(g) <= 100
    BY <1>2, <1>3, CappedAt
  <1>6. raw(g) <= raw(h) => FarmScore(g) <= FarmScore(h)
    BY <1>2, <1>3, CappedAt
  <1> QED BY <1>2, <1>5, <1>6

LEMMA RestGrows ==
  ASSUME NEW h, NEW g, Suspecter(h, g)
  PROVE  /\ TranslatedScore(g) \in {0, 50} /\ TranslatedScore(g) <= TranslatedScore(h)
         /\ (Injected(g) => Injected(h))
         /\ Credibility(h.host) = Credibility(g.host)
         /\ Credibility(g.host) \in Nat /\ Credibility(g.host) >= 10 /\ Credibility(g.host) <= 100
  <1>1. \A s \in {"translated", "injection"} :
           g.found[s] \in Nat /\ h.found[s] \in Nat /\ g.found[s] <= h.found[s]
    BY SignalNames DEF Suspecter, GeoText
  <1>2. /\ TranslatedScore(g) \in {0, 50} /\ TranslatedScore(g) <= TranslatedScore(h)
        /\ (Injected(g) => Injected(h))
    BY <1>1 DEF TranslatedScore, Injected, When
  <1>3. h.host = g.host /\ g.host.rank \in {"none", "high", "low", "public", "other"} /\ g.host.parts \in Nat
    BY DEF Suspecter, GeoText
  <1> DEFINE named == 60 - When(g.host.parts > 3, 10) - When(g.host.digits, 20) - When(g.host.long, 10)
  <1>4. named \in Int /\ named <= 60
    BY <1>3 DEF When
  <1>5. Credibility(g.host) \in {50, 95, 30, 85, Max({10, named})}
    BY <1>3 DEF Credibility
  <1> HIDE DEF named
  <1>6. Max({10, named}) \in Nat /\ Max({10, named}) >= 10 /\ Max({10, named}) <= 60
    BY <1>4, MostOfTwo
  <1> QED BY <1>2, <1>3, <1>5, <1>6

\* The score of a text that looks at least as suspicious, but for the exception.
LEMMA GeoScoreGrows ==
  ASSUME NEW h, NEW g, Suspecter(h, g)
  PROVE  /\ GeoScore(g) \in Nat /\ GeoScore(g) <= 10000
         /\ GeoScore(g) <= GeoScore(h) \/ (g.shape.words < 50 /\ g.found.template <= 1 /\ h.found.template >= 2)
  <1> DEFINE raw(t) == AiScore(t) * 25 + StuffingScore(t) * 15 + CitationScore(t) * 20
                + When(Injected(t), 2500) + FarmScore(t) * 10 + TranslatedScore(t) * 5
                + (100 - Credibility(t.host)) * 15
             odd == g.shape.words < 50 /\ g.found.template <= 1 /\ h.found.template >= 2
  <1>1. Suspecter(h, h)
    BY SignalNames DEF Suspecter, GeoText
  <1>7. /\ AiScore(g) \in Nat /\ AiScore(h) \in Nat /\ AiScore(g) <= AiScore(h)
        /\ StuffingScore(g) \in Nat /\ StuffingScore(h) \in Nat /\ StuffingScore(g) <= StuffingScore(h)
        /\ CitationScore(g) \in Nat /\ CitationScore(h) \in Nat /\ CitationScore(g) <= CitationScore(h)
    BY <1>1, AiGrows, StuffingGrows, CitationGrows
  <1>8. /\ FarmScore(g) \in Nat /\ FarmScore(h) \in Nat
        /\ FarmScore(g) <= FarmScore(h) \/ odd
    BY <1>1, FarmGrows
  <1>9. /\ TranslatedScore(g) \in Nat /\ TranslatedScore(h) \in Nat /\ TranslatedScore(g) <= TranslatedScore(h)
        /\ Credibility(g.host) \in Nat /\ Credibility(h.host) = Credibility(g.host) /\ Credibility(g.host) <= 100
    BY <1>1, RestGrows
  <1>10. /\ When(Injected(g), 2500) \in Nat /\ When(Injected(h), 2500) \in Nat
         /\ When(Injected(g), 2500) <= When(Injected(h), 2500)
    <2>1. Injected(g) => Injected(h)
      BY RestGrows
    <2>2. \A t \in {g, h} : When(Injected(t), 2500) = IF Injected(t) THEN 2500 ELSE 0
      BY DEF When
    <2> QED BY <2>1, <2>2
  <1> HIDE DEF odd
  <1>2. raw(g) \in Nat /\ raw(h) \in Nat
    BY ONLY <1>7, <1>8, <1>9, <1>10
  <1>3. raw(g) <= raw(h) \/ odd
    BY ONLY <1>7, <1>8, <1>9, <1>10
  <1>4. GeoScore(g) = Min({10000, raw(g)}) /\ GeoScore(h) = Min({10000, raw(h)})
    BY DEF GeoScore
  <1> HIDE DEF raw, odd
  <1>5. /\ GeoScore(g) = (IF 10000 <= raw(g) THEN 10000 ELSE raw(g))
        /\ GeoScore(h) = (IF 10000 <= raw(h) THEN 10000 ELSE raw(h))
    BY <1>2, <1>4, LeastOfTwo
  <1> QED BY <1>2, <1>3, <1>5 DEF odd

\* Each detector alone, even of the worst host, is below the threshold.
LEMMA FlaggedByTwo ==
  ASSUME NEW g \in GeoText, Flagged(g)
  PROVE  Cardinality({score \in {<<1, AiScore(g)>>, <<2, StuffingScore(g)>>, <<3, CitationScore(g)>>,
                                  <<4, When(Injected(g), 1)>>, <<5, FarmScore(g)>>,
                                  <<6, TranslatedScore(g)>>} : score[2] > 0}) >= 2
  <1> DEFINE a == AiScore(g)
             b == StuffingScore(g)
             c == CitationScore(g)
             d == When(Injected(g), 1)
             e == FarmScore(g)
             f == TranslatedScore(g)
             all == {<<1, a>>, <<2, b>>, <<3, c>>, <<4, d>>, <<5, e>>, <<6, f>>}
             found == {score \in all : score[2] > 0}
  <1>1. Suspecter(g, g)
    BY SignalNames DEF Suspecter, GeoText
  <1>2. /\ a \in Nat /\ b \in Nat /\ c \in Nat /\ d \in Nat /\ e \in Nat /\ f \in Nat
        /\ a <= 100 /\ b <= 100 /\ c <= 100 /\ d <= 1 /\ e <= 100 /\ f <= 50
    BY <1>1, AiGrows, StuffingGrows, CitationGrows, FarmGrows, RestGrows DEF When
  <1>3. When(Injected(g), 2500) = 2500 * d
    BY DEF When
  <1>4. a * 25 + b * 15 + c * 20 + 2500 * d + e * 10 + f * 5 + 1350 >= 6000
    <2>1. /\ Credibility(g.host) \in Nat /\ Credibility(g.host) >= 10
      BY <1>1, RestGrows
    <2> DEFINE cr == Credibility(g.host)
               raw == a * 25 + b * 15 + c * 20 + When(Injected(g), 2500) + e * 10 + f * 5 + (100 - cr) * 15
    <2>2. GeoScore(g) = Min({10000, raw}) /\ GeoScore(g) >= 6000
      BY DEF Flagged, Threshold, GeoScore
    <2>3. raw \in Int
      BY <1>2, <1>3, <2>1
    <2>4. raw >= 6000
      <3> HIDE DEF raw
      <3> QED BY <2>2, <2>3, LeastOfTwo
    <2> HIDE DEF cr, a, b, c, d, e, f
    <2> QED BY <1>2, <1>3, <2>1, <2>4 DEF cr
  <1> HIDE DEF a, b, c, d, e, f
  <1>5. \E x \in found, y \in found : x # y
    <2>1. /\ a > 0 => <<1, a>> \in found
          /\ b > 0 => <<2, b>> \in found
          /\ c > 0 => <<3, c>> \in found
          /\ d > 0 => <<4, d>> \in found
          /\ e > 0 => <<5, e>> \in found
          /\ f > 0 => <<6, f>> \in found
      OBVIOUS
    <2>2. /\ a > 0 => b > 0 \/ c > 0 \/ d > 0 \/ e > 0 \/ f > 0
          /\ b > 0 => a > 0 \/ c > 0 \/ d > 0 \/ e > 0 \/ f > 0
          /\ c > 0 => a > 0 \/ b > 0 \/ d > 0 \/ e > 0 \/ f > 0
          /\ d > 0 => a > 0 \/ b > 0 \/ c > 0 \/ e > 0 \/ f > 0
          /\ e > 0 => a > 0 \/ b > 0 \/ c > 0 \/ d > 0 \/ f > 0
          /\ a > 0 \/ b > 0 \/ c > 0 \/ d > 0 \/ e > 0
      BY <1>2, <1>4
    <2>3. \A x, y \in 1..6 : x # y => \A p, q : <<x, p>> # <<y, q>>
      OBVIOUS
    <2> HIDE DEF found
    <2> QED BY <2>1, <2>2, <2>3
  <1>6. IsFiniteSet(found)
    <2>1. IsFiniteSet({<<1, a>>, <<2, b>>, <<3, c>>}) /\ IsFiniteSet({<<4, d>>, <<5, e>>, <<6, f>>})
      <3>1. IsFiniteSet({<<1, a>>}) /\ IsFiniteSet({<<4, d>>})
        BY FS_Singleton
      <3>2. IsFiniteSet({<<1, a>>} \cup {<<2, b>>}) /\ IsFiniteSet({<<4, d>>} \cup {<<5, e>>})
        BY <3>1, FS_AddElement
      <3>3. IsFiniteSet(({<<1, a>>} \cup {<<2, b>>}) \cup {<<3, c>>})
        BY <3>2, FS_AddElement
      <3>4. IsFiniteSet(({<<4, d>>} \cup {<<5, e>>}) \cup {<<6, f>>})
        BY <3>2, FS_AddElement
      <3>5. /\ ({<<1, a>>} \cup {<<2, b>>}) \cup {<<3, c>>} = {<<1, a>>, <<2, b>>, <<3, c>>}
            /\ ({<<4, d>>} \cup {<<5, e>>}) \cup {<<6, f>>} = {<<4, d>>, <<5, e>>, <<6, f>>}
        OBVIOUS
      <3> QED BY <3>3, <3>4, <3>5
    <2>2. IsFiniteSet({<<1, a>>, <<2, b>>, <<3, c>>} \cup {<<4, d>>, <<5, e>>, <<6, f>>})
      BY <2>1, FS_Union
    <2>3. found \subseteq {<<1, a>>, <<2, b>>, <<3, c>>} \cup {<<4, d>>, <<5, e>>, <<6, f>>}
      OBVIOUS
    <2> HIDE DEF found
    <2> QED BY <2>2, <2>3, FS_Subset
  <1>7. Cardinality(found) >= 2
    <2> HIDE DEF found
    <2>1. PICK x \in found, y \in found : x # y
      BY <1>5
    <2>2. {x, y} \subseteq found
      BY <2>1
    <2>3. Cardinality({x, y}) = 2
      BY <2>1, TwoCounted
    <2>4. IsFiniteSet({x, y}) /\ Cardinality({x, y}) <= Cardinality(found) /\ Cardinality(found) \in Nat
      BY <1>6, <2>2, FS_Subset, FS_CardinalityType
    <2> QED BY <2>3, <2>4
  <1> QED BY <1>7 DEF a, b, c, d, e, f

\* What the guard may do, of any text.
LEMMA GuardWeighs == GeoInv => GuardOnlyWeighs /\ SignalsOnlyRaise
  <1> SUFFICES ASSUME GeoInv PROVE GuardOnlyWeighs /\ SignalsOnlyRaise
    OBVIOUS
  <1>1. geo \in GeoText /\ Suspecter(geo, geo)
    BY SignalNames DEF GeoInv, Suspecter, GeoText
  <1>2. \A quality \in {5000, 7500, 10000} : GoodEnough(quality, geo)
    <2>1. GeoScore(geo) \in Nat /\ GeoScore(geo) <= 10000
      BY <1>1, GeoScoreGrows
    <2> QED BY <2>1 DEF GoodEnough, MinQuality
  <1>3. SignalsOnlyRaise
    <2> SUFFICES ASSUME NEW signal \in DOMAIN Signals
                 PROVE  LET more == [geo EXCEPT !.found[signal] = @ + 1]
                        IN  \/ GeoScore(more) >= GeoScore(geo)
                            \/ geo.shape.words < 50 /\ signal = "template" /\ geo.found.template = 1
      BY DEF SignalsOnlyRaise
    <2> DEFINE more == [geo EXCEPT !.found[signal] = @ + 1]
    <2>1. /\ more.shape = geo.shape /\ more.host = geo.host /\ more.more = geo.more
          /\ more.found = [geo.found EXCEPT ![signal] = @ + 1]
          /\ more = [shape |-> geo.shape, host |-> geo.host, found |-> more.found, more |-> geo.more]
      BY <1>1 DEF GeoText
    <2>2. geo.found \in [DOMAIN Signals -> Nat]
      BY <1>1 DEF GeoText
    <2> HIDE DEF more
    <2>3. /\ more.found \in [DOMAIN Signals -> Nat]
          /\ more.found[signal] = geo.found[signal] + 1
          /\ \A s \in DOMAIN Signals : s # signal => more.found[s] = geo.found[s]
      BY <2>1, <2>2
    <2>4. Suspecter(more, geo)
      BY <1>1, <2>1, <2>2, <2>3 DEF Suspecter, GeoText
    <2>5. GeoScore(more) \in Nat /\ GeoScore(geo) \in Nat
      <3>1. Suspecter(more, more)
        BY <2>3, <2>4 DEF Suspecter
      <3> QED BY <2>4, <3>1, GeoScoreGrows
    <2>6. GeoScore(geo) <= GeoScore(more) \/ (geo.shape.words < 50 /\ geo.found.template <= 1 /\ more.found.template >= 2)
      BY <2>4, GeoScoreGrows
    <2>7. geo.found.template <= 1 /\ more.found.template >= 2 => signal = "template" /\ geo.found.template = 1
      BY <2>2, <2>3, SignalNames
    <2> QED BY <2>5, <2>6, <2>7 DEF more
  <1> QED BY <1>1, <1>2, <1>3, FlaggedByTwo DEF GuardOnlyWeighs

LEMMA GeoStep == GeoInv /\ [GeoNext]_geoVars => GeoInv'
  <1> SUFFICES ASSUME GeoInv, [GeoNext]_geoVars PROVE GeoInv'
    OBVIOUS
  <1>1. ASSUME NEW signal \in DOMAIN Signals, AddSignal(signal) PROVE GeoInv'
    <2>1. geo \in GeoText /\ geo.more > 0 /\ geo' = [geo EXCEPT !.found[signal] = @ + 1, !.more = @ - 1]
      BY <1>1 DEF GeoInv, AddSignal
    <2>2. geo.more - 1 \in Nat /\ [geo.found EXCEPT ![signal] = @ + 1] \in [DOMAIN Signals -> Nat]
      BY <2>1 DEF GeoText
    <2> QED BY <2>1, <2>2 DEF GeoInv, GeoText
  <1>2. CASE UNCHANGED geoVars
    BY <1>2 DEF GeoInv, geoVars
  <1> QED BY <1>1, <1>2 DEF GeoNext

LEMMA GeoStart == GeoInit => GeoInv
  BY GeoAssumption DEF GeoInit, GeoInv, GeoText

-----------------------------------------------------------------------------
(* Collection: matching and masking.                                       *)

\* A run over the items, from the run over those before.
LEMMA CleanedStep ==
  ASSUME NEW S, NEW s \in Seq(S)
  PROVE  /\ Cleaned(s)[0] = NothingCleaned
         /\ \A n \in 1..Len(s) : Cleaned(s)[n] = CleanItem(Cleaned(s)[n - 1], s[n], n)
  <1> DEFINE Next(g, n) == CleanItem(g[n - 1], s[n], n)
             Step(g, n) == IF n = 0 THEN NothingCleaned ELSE Next(g, n)
             Solves(g, m) == g = [n \in 0..m |-> Step(g, n)]
             T == {m \in Nat : \E g : Solves(g, m)}
  <1>1. 0 \in T
    <2>1. Solves([n \in 0..0 |-> NothingCleaned], 0)
      OBVIOUS
    <2> QED BY <2>1
  <1>2. ASSUME NEW m \in Nat, m \in T PROVE m + 1 \in T
    <2>1. PICK g : Solves(g, m)
      BY <1>2
    <2> DEFINE h == [n \in 0..(m + 1) |-> IF n \in 0..m THEN g[n] ELSE Step(g, n)]
    <2>2. \A n \in 0..m : g[n] = Step(g, n)
      BY <2>1
    <2>3. \A n \in 0..(m + 1) : h[n] = Step(g, n)
      BY <2>2
    <2>4. \A n \in 0..(m + 1) : Step(g, n) = Step(h, n)
      <3> SUFFICES ASSUME NEW n \in 0..(m + 1), n # 0 PROVE Step(g, n) = Step(h, n)
        OBVIOUS
      <3>1. n - 1 \in 0..m /\ h[n - 1] = g[n - 1]
        OBVIOUS
      <3> HIDE DEF h
      <3> QED BY <3>1, Zenon
    <2>5. Solves(h, m + 1)
      BY <2>3, <2>4
    <2>6. \E gg : Solves(gg, m + 1)
      <3> HIDE DEF h, Solves
      <3> QED BY <2>5
    <2> HIDE DEF h, Solves
    <2> QED BY <2>6
  <1>3. Len(s) \in T
    <2> HIDE DEF T
    <2> QED BY <1>1, <1>2, Counting, LenProperties
  <1>4. \E g : g = [n \in 0..Len(s) |-> Step(g, n)]
    BY <1>3
  <1> DEFINE f == Cleaned(s)
             g == [n \in 0..Len(s) |-> Step(f, n)]
  <1>5. f = g
    BY <1>4, Zenon DEF Cleaned
  <1>6. \A n \in 0..Len(s) : g[n] = Step(f, n)
    OBVIOUS
  <1> HIDE DEF g, f
  <1>7. \A n \in 0..Len(s) : f[n] = Step(f, n)
    BY <1>5, <1>6
  <1>8. Len(s) \in Nat
    BY LenProperties
  <1>9. f[0] = Step(f, 0) /\ \A n \in 1..Len(s) : n # 0 /\ f[n] = Step(f, n)
    <2> HIDE DEF Step
    <2> QED BY <1>7, <1>8
  <1>10. f[0] = NothingCleaned /\ \A n \in 1..Len(s) : f[n] = Next(f, n)
    <2> HIDE DEF Next
    <2> QED BY <1>9
  <1> QED BY <1>10 DEF f


\* What a mask of digits leaves, and what the masks of the code ask for.
Hides(t, s, S, starts) ==
    /\ t \in Seq(S \cup {Star}) /\ Len(t) = Len(s)
    /\ \A k \in 1..Len(s) : t[k] \in {s[k], Star}
    /\ starts = {} => t = s
    /\ starts # {} => \E k \in 1..Len(s) : t[k] = Star

Maskable(s, S, starts, size, first, last) ==
    /\ s \in Seq(S) /\ size \in Nat /\ first \in Nat /\ last \in Nat
    /\ 1 <= first /\ first <= last /\ last <= size
    /\ starts \in SUBSET (1..(Len(s) - (size - 1)))

\* A mask changes no length, and hides a digit if there is a match.
LEMMA MaskedHides ==
  ASSUME NEW S, NEW s, NEW starts, NEW size, NEW first, NEW last, Maskable(s, S, starts, size, first, last)
  PROVE  Hides(Masked(s, starts, size, first, last), s, S, starts)
  <1> DEFINE found == MatchesIn(s, starts, size)[Len(s)]
             t == Masked(s, starts, size, first, last)
             Hidden(k) == \E n \in found : k - n + 1 \in first..last
  <1>8. /\ s \in Seq(S) /\ size \in Nat /\ first \in Nat /\ last \in Nat
        /\ 1 <= first /\ first <= last /\ last <= size
        /\ starts \in SUBSET (1..(Len(s) - (size - 1)))
    BY DEF Maskable
  <1>0. Len(s) \in Nat /\ DOMAIN s = 1..Len(s) /\ starts \in SUBSET (1..Len(s)) /\ \A k \in 1..Len(s) : s[k] \in S
    BY <1>8, LenProperties, ElementOfSeq
  <1>1. found \subseteq starts /\ (starts # {} => found # {})
    BY <1>0, <1>8, MatchesFound
  <1>2. t = [k \in 1..Len(s) |-> IF Hidden(k) THEN Star ELSE s[k]]
    BY <1>0 DEF Masked
  <1> HIDE DEF found, t
  <1>3. t \in Seq(S \cup {Star}) /\ Len(t) = Len(s)
    <2>1. \A k \in 1..Len(s) : (IF Hidden(k) THEN Star ELSE s[k]) \in S \cup {Star}
      BY <1>0
    <2> HIDE DEF Hidden
    <2>2. t \in [1..Len(s) -> S \cup {Star}]
      BY <1>2, <2>1
    <2> QED BY <1>0, <2>2, SeqDef, LenProperties
  <1>4. \A k \in 1..Len(s) : t[k] \in {s[k], Star}
    BY <1>2
  <1>5. ASSUME starts = {} PROVE t = s
    <2>1. \A k \in 1..Len(s) : ~Hidden(k)
      BY <1>1, <1>5
    <2> HIDE DEF Hidden
    <2>2. \A k \in 1..Len(s) : t[k] = s[k]
      BY <1>2, <2>1
    <2> QED BY <1>3, <1>8, <2>2, <1>0, SeqEqual
  <1>6. ASSUME starts # {} PROVE \E k \in 1..Len(s) : t[k] = Star
    <2>1. PICK n \in found : n \in 1..(Len(s) - (size - 1))
      BY <1>1, <1>6, <1>8
    <2>2. n + first - 1 \in 1..Len(s) /\ (n + first - 1) - n + 1 = first
      BY <1>0, <1>8, <2>1
    <2>3. Hidden(n + first - 1)
      BY <1>8, <2>1, <2>2
    <2> HIDE DEF Hidden
    <2> QED BY <1>2, <2>2, <2>3
  <1> QED BY <1>3, <1>4, <1>5, <1>6 DEF t, Hides

\* A number that stands alone is a match of its pattern.
LEMMA AloneMatches ==
  ASSUME NEW s \in Seq(Numerals), Personal(s)
  PROVE  Phones(s) \union IdCards(s) # {}
  <1>1. CASE IsPhone(s)
    <2>1. Len(s) = 11
      BY <1>1 DEF IsPhone
    <2>2. SubSeq(s, 1, 1 + 10) = s
      BY <2>1, SubSeqFull
    <2>3. IsPhone(SubSeq(s, 1, 1 + 10)) /\ 1 \in 1..(Len(s) - 10)
      <3>1. IsPhone(SubSeq(s, 1, 1 + 10))
        BY ONLY <1>1, <2>2, Zenon
      <3>2. 1 \in 1..(Len(s) - 10)
        BY <2>1
      <3> QED BY <3>1, <3>2
    <2>4. 1 \in Phones(s)
      BY <2>3 DEF Phones
    <2> QED BY <2>4
  <1>2. CASE IsIdCard(s)
    <2>1. Len(s) = 18
      BY <1>2 DEF IsIdCard
    <2>2. SubSeq(s, 1, 1 + 17) = s
      BY <2>1, SubSeqFull
    <2>3. IsIdCard(SubSeq(s, 1, 1 + 17)) /\ 1 \in 1..(Len(s) - 17)
      <3>1. IsIdCard(SubSeq(s, 1, 1 + 17))
        BY ONLY <1>2, <2>2, Zenon
      <3>2. 1 \in 1..(Len(s) - 17)
        BY <2>1
      <3> QED BY <3>1, <3>2
    <2>4. 1 \in IdCards(s)
      BY <2>3 DEF IdCards
    <2> QED BY <2>4
  <1> QED BY <1>1, <1>2 DEF Personal

\* A personal number is not found in what the masks leave of it.
LEMMA PersonalHidden ==
  ASSUME NEW s \in Seq(Numerals)
  PROVE  Conceals(MaskPii(s), s)
  <1> SUFFICES ASSUME Phones(s) \union IdCards(s) # {} PROVE ~Occurs(MaskPii(s), s)
    BY AloneMatches DEF Conceals
  <1> DEFINE p == MaskPhone(s)
             t == MaskIdCard(p)
  <1>0. Len(s) \in Nat /\ \A k \in 1..Len(s) : s[k] \in Numerals
    BY LenProperties, ElementOfSeq
  <1>1. Hides(p, s, Numerals, Phones(s))
    <2>1. Maskable(s, Numerals, Phones(s), 11, 4, 7)
      BY <1>0 DEF Phones, Maskable
    <2> QED BY <2>1, MaskedHides DEF MaskPhone
  <1>2. Hides(t, p, Numerals \cup {Star}, IdCards(p))
    <2>1. p \in Seq(Numerals \cup {Star}) /\ Len(p) = Len(s)
      BY <1>1 DEF Hides
    <2> HIDE DEF p
    <2>2. Maskable(p, Numerals \cup {Star}, IdCards(p), 18, 7, 14)
      BY <1>0, <2>1 DEF IdCards, Maskable
    <2> QED BY <2>2, MaskedHides DEF MaskIdCard
  <1>3. \E k \in 1..Len(s) : t[k] = Star
    <2> HIDE DEF p, t
    <2>1. CASE Phones(s) # {}
      BY <1>1, <1>2, <2>1 DEF Hides
    <2>2. CASE Phones(s) = {}
      BY <1>1, <1>2, <2>2 DEF Hides
    <2> QED BY <2>1, <2>2
  <1>4. MaskPii(s) = t
    BY DEF MaskPii
  <1> HIDE DEF p, t
  <1>5. SUFFICES ASSUME NEW n \in 0..(Len(t) - Len(s)), SubSeq(t, n + 1, n + Len(s)) = s PROVE FALSE
    BY <1>4 DEF Occurs
  <1>6. Len(t) = Len(s) /\ t \in Seq((Numerals \cup {Star}) \cup {Star})
    BY <1>1, <1>2 DEF Hides
  <1>7. n = 0 /\ SubSeq(t, 1, Len(t)) = s
    BY <1>0, <1>5, <1>6
  <1>8. t = s
    BY <1>6, <1>7, SubSeqFull
  <1>9. Star \notin Numerals
    BY DEF Star, CheckX, Numerals
  <1> QED BY <1>0, <1>3, <1>8, <1>9


-----------------------------------------------------------------------------
(* Collection: cleaning, item by item.                                      *)

Items ==
    [content : DOMAIN About, titled : BOOLEAN, title : Seq(Numerals), note : Seq(Numerals), fields : Nat]

\* What is stored of the k-th item that came, and which are stored.
StoredItem(got, k) ==
    LET about == About[got[k].content]
        number == MaskPii(about.number)
        title == MaskPii(got[k].title)
    IN  [at |-> k, number |-> number, title |-> title, note |-> got[k].note,
         masked |-> number # about.number \/ about.mail \/ title # got[k].title]
StoredItems(got) == {StoredItem(got, k) : k \in 1..Len(got)}
Again(got) == {k \in DOMAIN got : \E j \in 1..(k - 1) : got[j].content = got[k].content /\ got[k].content # Empty}
Kept(got) == {k \in DOMAIN got \ Again(got) : Keeps(got[k])}
Hiding(got) == {item \in StoredItems(got) : item.masked}

\* A run after n of the items that came.
Runs(got) ==
    [seen : SUBSET DOMAIN About, items : Seq(StoredItems(got)), duplicates : Nat, masked : Nat, flagged : Nat]
Places(items) == {items[k].at : k \in 1..Len(items)}
Tidy(got, run, n) ==
    /\ run \in Runs(got)
    /\ run.seen = {got[k].content : k \in 1..n}
    /\ Places(run.items) = Kept(got) \cap 1..n
    /\ \A j, k \in 1..Len(run.items) : j < k => run.items[j].at < run.items[k].at
    /\ run.duplicates = Cardinality(Again(got) \cap 1..n)
    /\ Len(run.items) = Cardinality(Kept(got) \cap 1..n)
    /\ Len(Keep(run.items, Hiding(got))) <= run.masked

\* One number more in the beginning of a set.
LEMMA OneMore ==
  ASSUME NEW A, NEW n \in Nat
  PROVE  /\ IsFiniteSet(A \cap 1..n)
         /\ n + 1 \in A => /\ A \cap 1..(n + 1) = (A \cap 1..n) \cup {n + 1}
                           /\ Cardinality(A \cap 1..(n + 1)) = Cardinality(A \cap 1..n) + 1
         /\ n + 1 \notin A => A \cap 1..(n + 1) = A \cap 1..n
  <1>1. 1..(n + 1) = (1..n) \cup {n + 1} /\ n + 1 \notin 1..n
    OBVIOUS
  <1>2. IsFiniteSet(1..n)
    BY FS_Interval
  <1>3. IsFiniteSet(A \cap 1..n)
    BY <1>2, FS_Intersection
  <1>4. ASSUME n + 1 \in A
        PROVE  /\ A \cap 1..(n + 1) = (A \cap 1..n) \cup {n + 1}
               /\ Cardinality(A \cap 1..(n + 1)) = Cardinality(A \cap 1..n) + 1
    <2>1. A \cap 1..(n + 1) = (A \cap 1..n) \cup {n + 1} /\ n + 1 \notin A \cap 1..n
      BY <1>1, <1>4
    <2> QED BY <1>3, <2>1, FS_AddElement
  <1>5. ASSUME n + 1 \notin A PROVE A \cap 1..(n + 1) = A \cap 1..n
    BY <1>1, <1>5
  <1> QED BY <1>3, <1>4, <1>5

\* A run is tidy before the first item, and after one more.
LEMMA TidyStart ==
  ASSUME NEW got \in Seq(Items)
  PROVE  Tidy(got, NothingCleaned, 0)
  <1>1. <<>> \in Seq(StoredItems(got)) /\ Len(<<>>) = 0 /\ 1..0 = {}
    BY EmptySeq
  <1>2. Cardinality({}) = 0
    BY FS_EmptySet
  <1>3. \A S : S \cap {} = {}
    OBVIOUS
  <1>4. Keep(<<>>, Hiding(got)) = <<>>
    BY KeepEmpty
  <1>5. NothingCleaned \in Runs(got)
    BY <1>1 DEF NothingCleaned, Runs
  <1>6. /\ NothingCleaned.seen = {} /\ NothingCleaned.items = <<>>
        /\ NothingCleaned.duplicates = 0 /\ NothingCleaned.masked = 0
    BY DEF NothingCleaned
  <1>7. {got[k].content : k \in 1..0} = {} /\ Places(<<>>) = {}
    BY <1>1 DEF Places
  <1> QED BY <1>1, <1>2, <1>3, <1>4, <1>5, <1>6, <1>7 DEF Tidy

LEMMA TidyStep ==
  ASSUME NEW got \in Seq(Items), NEW n \in Nat, n + 1 <= Len(got), NEW run, Tidy(got, run, n)
  PROVE  Tidy(got, CleanItem(run, got[n + 1], n + 1), n + 1)
  <1> DEFINE item == got[n + 1]
             new == CleanItem(run, item, n + 1)
             number == MaskPii(About[item.content].number)
             title == MaskPii(item.title)
             hides == number # About[item.content].number \/ About[item.content].mail \/ title # item.title
             stored == StoredItem(got, n + 1)
             contents(m) == {got[k].content : k \in 1..m}
  <1> SUFFICES Tidy(got, new, n + 1)
    OBVIOUS
  <1>0. /\ Len(got) \in Nat /\ DOMAIN got = 1..Len(got) /\ n + 1 \in 1..Len(got)
        /\ \A k \in 1..Len(got) : got[k] \in Items
    BY LenProperties, ElementOfSeq
  <1>1. /\ run.seen \in SUBSET DOMAIN About /\ run.items \in Seq(StoredItems(got)) /\ run.duplicates \in Nat
        /\ run.masked \in Nat /\ run.flagged \in Nat
        /\ run = [seen |-> run.seen, items |-> run.items, duplicates |-> run.duplicates,
                  masked |-> run.masked, flagged |-> run.flagged]
        /\ run.seen = contents(n) /\ Len(run.items) \in Nat
        /\ run.duplicates = Cardinality(Again(got) \cap 1..n)
        /\ Len(run.items) = Cardinality(Kept(got) \cap 1..n)
    <2>1. run \in Runs(got) /\ run.seen = contents(n)
          /\ run.duplicates = Cardinality(Again(got) \cap 1..n)
          /\ Len(run.items) = Cardinality(Kept(got) \cap 1..n)
      BY DEF Tidy
    <2> HIDE DEF contents
    <2>2. run.items \in Seq(StoredItems(got))
      BY <2>1 DEF Runs
    <2> QED BY <2>1, <2>2, LenProperties DEF Runs
  <1>2. item.content \in DOMAIN About /\ contents(n + 1) = contents(n) \cup {item.content}
    <2>1. 1..(n + 1) = (1..n) \cup {n + 1}
      OBVIOUS
    <2> QED BY <1>0, <2>1 DEF Items
  <1>3. Seen(run.seen, item) <=> n + 1 \in Again(got)
    BY <1>0, <1>1 DEF Seen, Again
  <1>4. n + 1 \in Kept(got) <=> ~Seen(run.seen, item) /\ Keeps(item)
    BY <1>0, <1>3 DEF Kept
  <1>5. /\ When(hides, 1) \in Nat /\ When(Flagged(About[item.content].text), 1) \in Nat
        /\ (hides => When(hides, 1) = 1)
    BY DEF When
  <1>6. /\ stored = [at |-> n + 1, number |-> number, title |-> title, note |-> item.note, masked |-> hides]
        /\ stored \in StoredItems(got)
        /\ stored.at = n + 1 /\ (stored \in Hiding(got) <=> hides)
    <2>1. stored = [at |-> n + 1, number |-> number, title |-> title, note |-> item.note, masked |-> hides]
      BY DEF StoredItem
    <2>2. stored \in StoredItems(got)
      BY <1>0 DEF StoredItems
    <2> HIDE DEF stored
    <2> QED BY <2>1, <2>2 DEF Hiding
  <1> DEFINE masked == run.masked + When(hides, 1)
             flagged == run.flagged + When(Flagged(About[item.content].text), 1)
  <1>7. masked \in Nat /\ flagged \in Nat
    BY <1>1, <1>5
  <1>8. CASE Seen(run.seen, item)
    <2>1. new = [run EXCEPT !.duplicates = @ + 1]
      BY <1>8 DEF CleanItem
    <2>2. /\ new \in Runs(got) /\ new.seen = run.seen /\ new.items = run.items /\ new.masked = run.masked
          /\ new.duplicates = run.duplicates + 1
      <3> HIDE DEF new, item
      <3> QED BY <1>1, <2>1 DEF Runs
    <2>3. item.content \in contents(n)
      BY <1>1, <1>8 DEF Seen
    <2>4. new.seen = contents(n + 1)
      <3> HIDE DEF contents, new, item
      <3> QED BY <1>1, <1>2, <2>2, <2>3
    <2>5. /\ Again(got) \cap 1..(n + 1) = (Again(got) \cap 1..n) \cup {n + 1}
          /\ Cardinality(Again(got) \cap 1..(n + 1)) = Cardinality(Again(got) \cap 1..n) + 1
          /\ Kept(got) \cap 1..(n + 1) = Kept(got) \cap 1..n
      BY <1>3, <1>4, <1>8, OneMore
    <2> HIDE DEF contents, new, item
    <2> QED BY <1>1, <2>2, <2>4, <2>5 DEF Tidy, contents
  <1>9. CASE ~Seen(run.seen, item) /\ ~Keeps(item)
    <2>1. new = [run EXCEPT !.seen = @ \union {item.content}, !.masked = masked, !.flagged = flagged]
      BY <1>1, <1>9 DEF CleanItem
    <2> HIDE DEF masked, flagged
    <2>2. /\ new \in Runs(got) /\ new.seen = run.seen \cup {item.content} /\ new.items = run.items
          /\ new.masked = masked /\ new.duplicates = run.duplicates
      <3> HIDE DEF new, item
      <3> QED BY <1>1, <1>2, <1>7, <2>1 DEF Runs
    <2>3. new.seen = contents(n + 1)
      <3> HIDE DEF contents, new, item
      <3> QED BY <1>1, <1>2, <2>2
    <2>4. /\ Again(got) \cap 1..(n + 1) = Again(got) \cap 1..n
          /\ Kept(got) \cap 1..(n + 1) = Kept(got) \cap 1..n
      BY <1>3, <1>4, <1>9, OneMore
    <2>5. run.masked <= new.masked
      BY <1>1, <1>5, <2>2 DEF masked
    <2>6. Len(Keep(run.items, Hiding(got))) <= run.masked /\ Len(Keep(run.items, Hiding(got))) \in Nat
      BY <1>1, KeepMembers, LenProperties DEF Tidy
    <2>7. Len(Keep(new.items, Hiding(got))) <= new.masked
      <3> HIDE DEF new, item
      <3> QED BY <1>1, <1>7, <2>2, <2>5, <2>6
    <2> HIDE DEF contents, new, item
    <2> QED BY <1>1, <2>2, <2>3, <2>4, <2>7 DEF Tidy, contents
  <1>10. CASE ~Seen(run.seen, item) /\ Keeps(item)
    <2> DEFINE items == Append(run.items, stored)
    <2>1. new = [run EXCEPT !.seen = @ \union {item.content}, !.masked = masked, !.flagged = flagged,
                            !.items = items]
      BY <1>1, <1>6, <1>10 DEF CleanItem
    <2>11. run.masked \in Nat /\ run.masked <= masked /\ (hides => masked = run.masked + 1)
      BY <1>1, <1>5
    <2> HIDE DEF masked, flagged, stored, hides
    <2>8. run.items \in Seq(StoredItems(got)) /\ Len(run.items) \in Nat /\ stored \in StoredItems(got)
      BY <1>1, <1>6
    <2>0. /\ items \in Seq(StoredItems(got)) /\ Len(items) = Len(run.items) + 1
          /\ \A k \in 1..Len(run.items) : items[k] = run.items[k]
          /\ items[Len(run.items) + 1] = stored
      BY ONLY <2>8, AppendProperties
    <2>9. Keep(items, Hiding(got)) = IF hides THEN Append(Keep(run.items, Hiding(got)), stored)
                                              ELSE Keep(run.items, Hiding(got))
      <3>1. Keep(items, Hiding(got)) = IF stored \in Hiding(got) THEN Append(Keep(run.items, Hiding(got)), stored)
                                              ELSE Keep(run.items, Hiding(got))
        BY ONLY <2>8, KeepAppend
      <3> HIDE DEF items
      <3> QED BY <1>6, <3>1
    <2> HIDE DEF items
    <2>2. /\ new \in Runs(got) /\ new.seen = run.seen \cup {item.content} /\ new.items = items
          /\ new.masked = masked /\ new.duplicates = run.duplicates
      <3> HIDE DEF new, item
      <3> QED BY <1>1, <1>2, <1>7, <2>0, <2>1 DEF Runs
    <2>3. new.seen = contents(n + 1)
      <3> HIDE DEF contents, new, item
      <3> QED BY <1>1, <1>2, <2>2
    <2>4. /\ Again(got) \cap 1..(n + 1) = Again(got) \cap 1..n
          /\ Kept(got) \cap 1..(n + 1) = (Kept(got) \cap 1..n) \cup {n + 1}
          /\ Cardinality(Kept(got) \cap 1..(n + 1)) = Cardinality(Kept(got) \cap 1..n) + 1
      BY <1>3, <1>4, <1>10, OneMore
    <2>5. Places(items) = Kept(got) \cap 1..(n + 1)
      <3>1. 1..Len(items) = (1..Len(run.items)) \cup {Len(run.items) + 1}
        BY <1>1, <2>0
      <3>2. Places(items) = Places(run.items) \cup {n + 1}
        <4>1. \A k \in 1..Len(run.items) : items[k].at = run.items[k].at
          BY <2>0
        <4>2. items[Len(run.items) + 1].at = n + 1
          BY <1>6, <2>0
        <4> QED BY ONLY <3>1, <4>1, <4>2 DEF Places
      <3>3. Places(run.items) = Kept(got) \cap 1..n
        BY DEF Tidy
      <3> QED BY <2>4, <3>2, <3>3
    <2>6. ASSUME NEW j \in 1..Len(items), NEW k \in 1..Len(items), j < k
          PROVE  items[j].at < items[k].at
      <3>1. j \in 1..Len(run.items) /\ items[j] = run.items[j]
        BY ONLY <2>0, <2>6, <2>8, j \in 1..Len(items), k \in 1..Len(items)
      <3>2. items[j].at \in 1..n
        <4>1. run.items[j].at \in Places(run.items)
          BY <3>1 DEF Places
        <4> QED BY <3>1, <4>1 DEF Tidy
      <3>3. CASE k = Len(run.items) + 1
        BY <1>6, <2>0, <3>2, <3>3
      <3>4. CASE k \in 1..Len(run.items)
        BY <2>0, <2>6, <3>1, <3>4 DEF Tidy
      <3> QED BY <1>1, <2>0, <3>3, <3>4
    <2>7. Len(Keep(items, Hiding(got))) <= masked
      <3>1. /\ Keep(run.items, Hiding(got)) \in Seq(StoredItems(got))
            /\ Len(Keep(run.items, Hiding(got))) <= run.masked /\ Len(Keep(run.items, Hiding(got))) \in Nat
        BY <1>1, KeepMembers, LenProperties DEF Tidy
      <3>2. Len(Append(Keep(run.items, Hiding(got)), stored)) = Len(Keep(run.items, Hiding(got))) + 1
        BY <1>6, <3>1, AppendProperties
      <3>3. CASE hides
        BY ONLY <1>7, <2>11, <2>9, <3>1, <3>2, <3>3
      <3>4. CASE ~hides
        BY ONLY <1>7, <2>11, <2>9, <3>1, <3>4
      <3> QED BY <3>3, <3>4
    <2> HIDE DEF contents, new, item
    <2> QED BY <1>1, <2>0, <2>2, <2>3, <2>4, <2>5, <2>6, <2>7 DEF Tidy, contents
  <1> QED BY <1>8, <1>9, <1>10

\* A run over all that came.
LEMMA TidyEnd ==
  ASSUME NEW got \in Seq(Items)
  PROVE  Tidy(got, Clean(got), Len(got))
  <1> DEFINE T == {n \in Nat : n <= Len(got) => Tidy(got, Cleaned(got)[n], n)}
  <1>0. Len(got) \in Nat
    BY LenProperties
  <1>1. 0 \in T
    <2>1. Cleaned(got)[0] = NothingCleaned
      BY CleanedStep
    <2> QED BY <2>1, TidyStart
  <1>2. ASSUME NEW n \in Nat, n \in T PROVE n + 1 \in T
    <2> SUFFICES ASSUME n + 1 <= Len(got) PROVE Tidy(got, Cleaned(got)[n + 1], n + 1)
      OBVIOUS
    <2>1. Tidy(got, Cleaned(got)[n], n) /\ n + 1 \in 1..Len(got) /\ (n + 1) - 1 = n
      BY <1>0, <1>2
    <2>2. Cleaned(got)[n + 1] = CleanItem(Cleaned(got)[n], got[n + 1], n + 1)
      <3>1. Cleaned(got)[n + 1] = CleanItem(Cleaned(got)[(n + 1) - 1], got[n + 1], n + 1)
        BY <2>1, CleanedStep
      <3> QED BY <2>1, <3>1
    <2> QED BY <2>1, <2>2, TidyStep
  <1>3. Nat \subseteq T
    <2> HIDE DEF T
    <2> QED BY <1>1, <1>2, Counting
  <1> QED BY <1>0, <1>3 DEF Clean

\* What is stored of the items that came, and what is reported of them.
MaskedOf(items) == Keep(items, {item \in Range(items) : item.masked})
Accounted(got, items) ==
    /\ {items[k].at : k \in DOMAIN items} = Kept(got)
    /\ \A j, k \in DOMAIN items : j < k => items[j].at < items[k].at
    /\ Report(got).duplicates = Cardinality(Again(got))
    /\ Report(got).valid = Cardinality(Kept(got))
    /\ Len(MaskedOf(items)) <= Report(got).masked

LEMMA CleanFacts ==
  ASSUME NEW got \in Seq(Items), NEW items, items = Clean(got).items
  PROVE  /\ items \in Seq(StoredItems(got)) /\ Len(items) \in Nat /\ DOMAIN items = 1..Len(items)
         /\ Report(got).valid = Len(items) /\ Accounted(got, items)
  <1> DEFINE run == Clean(got)
  <1>0. Len(got) \in Nat /\ DOMAIN got = 1..Len(got)
    BY LenProperties
  <1>1. Tidy(got, run, Len(got))
    BY TidyEnd
  <1>2. Kept(got) \cap 1..Len(got) = Kept(got) /\ Again(got) \cap 1..Len(got) = Again(got)
    BY <1>0 DEF Kept, Again
  <1> HIDE DEF run
  <1>3. items = run.items
    BY DEF run
  <1>4. items \in Seq(StoredItems(got)) /\ Len(items) \in Nat /\ DOMAIN items = 1..Len(items)
    <2>1. items \in Seq(StoredItems(got))
      BY <1>1, <1>3 DEF Tidy, Runs
    <2> QED BY <2>1, LenProperties
  <1>5. Report(got) = [total |-> Len(got), valid |-> Len(items), duplicates |-> run.duplicates,
                       flagged |-> run.flagged, masked |-> IF items = <<>> THEN 0 ELSE run.masked]
    BY <1>3 DEF Report, run
  <1>6. /\ run.duplicates = Cardinality(Again(got)) /\ Len(items) = Cardinality(Kept(got))
        /\ Places(items) = Kept(got)
        /\ \A j, k \in 1..Len(items) : j < k => items[j].at < items[k].at
        /\ Len(Keep(items, Hiding(got))) <= run.masked
    BY <1>1, <1>2, <1>3 DEF Tidy
  <1>7. {items[k].at : k \in DOMAIN items} = Kept(got)
    BY <1>4, <1>6 DEF Places
  <1>8. MaskedOf(items) = Keep(items, Hiding(got))
    <2> DEFINE these == {item \in Range(items) : item.masked}
    <2>1. Members(items) \cap these = Members(items) \cap Hiding(got)
      <3>1. Members(items) \subseteq StoredItems(got)
        BY <1>4, ElementOfSeq DEF Members
      <3>2. Members(items) = Range(items)
        BY <1>4 DEF Members, Range
      <3> QED BY <3>1, <3>2 DEF Hiding
    <2> HIDE DEF these
    <2>2. Keep(items, these) = Keep(items, Hiding(got))
      BY ONLY <1>4, <2>1, KeepAlike
    <2> QED BY <2>2 DEF these, MaskedOf
  <1>9. Len(MaskedOf(items)) <= Report(got).masked
    <2>1. CASE items = <<>>
      <3>1. Keep(items, Hiding(got)) = <<>> /\ Len(<<>>) = 0
        BY <2>1, KeepEmpty, EmptySeq
      <3> QED BY <1>5, <1>8, <2>1, <3>1
    <2>2. CASE items # <<>>
      BY <1>5, <1>6, <1>8, <2>2
    <2> QED BY <2>1, <2>2
  <1>10. Report(got).duplicates = run.duplicates /\ Report(got).valid = Len(items)
    BY <1>5
  <1>11. /\ \A j, k \in DOMAIN items : j < k => items[j].at < items[k].at
         /\ Report(got).duplicates = Cardinality(Again(got))
         /\ Report(got).valid = Cardinality(Kept(got))
    BY <1>4, <1>6, <1>10
  <1>12. Accounted(got, items)
    BY <1>7, <1>8, <1>9, <1>11 DEF Accounted
  <1> QED BY <1>4, <1>10, <1>12

\* A number that stands alone is hidden in each of them.
LEMMA StoredHidden ==
  ASSUME NEW got \in Seq(Items), NEW item \in StoredItems(got)
  PROVE  LET came == got[item.at]
         IN  Conceals(item.number, About[came.content].number) /\ Conceals(item.title, came.title)
  <1>1. PICK k \in 1..Len(got) : item = StoredItem(got, k)
    BY DEF StoredItems
  <1>2. got[k] \in Items /\ got[k].content \in DOMAIN About /\ got[k].title \in Seq(Numerals)
    <2>1. got[k] \in Items
      BY ElementOfSeq
    <2> QED BY <2>1 DEF Items
  <1> DEFINE number == About[got[k].content].number
             title == got[k].title
  <1>3. item.at = k /\ item.number = MaskPii(number) /\ item.title = MaskPii(title)
    BY <1>1 DEF StoredItem
  <1>4. number \in Seq(Numerals) /\ title \in Seq(Numerals)
    BY <1>2, CollectionAssumption
  <1> HIDE DEF number, title
  <1>5. Conceals(MaskPii(number), number) /\ Conceals(MaskPii(title), title)
    BY <1>4, PersonalHidden
  <1> QED BY <1>3, <1>5 DEF number, title

-----------------------------------------------------------------------------
(* What a source lists, and the pages of it.                               *)

ListedAt(u) == SubSeq(Feeds[1], u + 1, Len(Feeds[1]))

\* The feeds, and what the first one lists.
LEMMA FeedsAre ==
  /\ Len(Feeds) \in Nat /\ Len(Feeds) >= 1 /\ DOMAIN Feeds = 1..Len(Feeds)
  /\ \A n \in 1..Len(Feeds) : Feeds[n] \in Seq(Items)
  <1>1. Feeds \in Seq(Range(Feeds)) /\ Feeds # <<>>
    BY CollectionAssumption
  <1>2. Len(Feeds) \in Nat /\ Len(Feeds) >= 1 /\ DOMAIN Feeds = 1..Len(Feeds)
    BY <1>1, LenProperties, EmptySeq
  <1>3. ASSUME NEW n \in 1..Len(Feeds) PROVE Feeds[n] \in Seq(Items)
    <2>1. Feeds[n] \in Seq(Range(Feeds[n])) /\ Range(Feeds[n]) \subseteq Items
      BY <1>2, CollectionAssumption DEF Items
    <2> QED BY <2>1, SeqMonotonic
  <1> QED BY <1>2, <1>3

LEMMA ListedIs ==
  ASSUME NEW u \in Nat
  PROVE  ListedAt(u) \in Seq(Items) /\ Len(ListedAt(u)) \in Nat
  <1>1. Feeds[1] \in Seq(Items) /\ Len(Feeds[1]) \in Nat /\ \A i \in 1..Len(Feeds[1]) : Feeds[1][i] \in Items
    BY FeedsAre, LenProperties, ElementOfSeq
  <1>2. \A i \in (u + 1)..Len(Feeds[1]) : Feeds[1][i] \in Items
    BY <1>1
  <1>3. ListedAt(u) \in Seq(Items)
    BY ONLY <1>1, <1>2, SubSeqProperties, u \in Nat DEF ListedAt
  <1> QED BY <1>3, LenProperties

\* The first n of a sequence, which are the first of themselves.
LEMMA FirstIs ==
  ASSUME NEW S, NEW s \in Seq(S), NEW n \in Nat
  PROVE  /\ FirstOf(s, n) = SubSeq(s, 1, IF n <= Len(s) THEN n ELSE Len(s))
         /\ FirstOf(s, n) \in Seq(S)
         /\ Len(FirstOf(s, n)) = IF n <= Len(s) THEN n ELSE Len(s)
         /\ FirstOf(s, Len(FirstOf(s, n))) = FirstOf(s, n)
  <1> DEFINE m == IF n <= Len(s) THEN n ELSE Len(s)
  <1>1. Len(s) \in Nat /\ m \in Nat /\ m <= Len(s) /\ \A i \in 1..Len(s) : s[i] \in S
    BY LenProperties, ElementOfSeq
  <1>2. FirstOf(s, n) = SubSeq(s, 1, m)
    <2>1. Min({n, Len(s)}) = m
      BY <1>1, LeastOfTwo
    <2> HIDE DEF m
    <2> QED BY <2>1 DEF FirstOf
  <1>3. Min({m, Len(s)}) = m
    BY <1>1, LeastOfTwo
  <1> HIDE DEF m
  <1>4. SubSeq(s, 1, m) \in Seq(S) /\ Len(SubSeq(s, 1, m)) = m
    <2>1. \A i \in 1..m : s[i] \in S
      BY <1>1
    <2>2. /\ SubSeq(s, 1, m) \in Seq(S)
          /\ Len(SubSeq(s, 1, m)) = IF 1 <= m THEN m - 1 + 1 ELSE 0
      BY ONLY <1>1, <2>1, SubSeqProperties
    <2> QED BY <1>1, <2>2
  <1>5. FirstOf(s, m) = SubSeq(s, 1, m)
    BY <1>3 DEF FirstOf
  <1> QED BY <1>2, <1>4, <1>5 DEF m

\* Nothing is the first of anything.
LEMMA FirstNone ==
  ASSUME NEW S, NEW s \in Seq(S)
  PROVE  FirstOf(s, 0) = <<>>
  <1>1. Len(FirstOf(s, 0)) = 0 /\ FirstOf(s, 0) \in Seq(S)
    BY FirstIs, LenProperties
  <1> QED BY <1>1, EmptySeq

\* The t-th page of p records of s, behind what there is already.
PageOf(s, t, p) == SubSeq(s, t * p - p + 1, Min({t * p, Len(s)}))

\* It goes on where the pages before it end.
FollowsUp(S, s, t, p) ==
    \A g \in Seq(S) : g = FirstOf(s, Len(g)) /\ Len(g) = (t - 1) * p =>
        g \o PageOf(s, t, p) = FirstOf(s, Len(g \o PageOf(s, t, p)))

LEMMA PageIs ==
  ASSUME NEW S, NEW s \in Seq(S), NEW t \in Nat \ {0}, NEW p \in Nat \ {0}
  PROVE  /\ PageOf(s, t, p) \in Seq(S) /\ Len(PageOf(s, t, p)) \in Nat /\ Len(PageOf(s, t, p)) <= p
         /\ FollowsUp(S, s, t, p)
  <1>0. PICK e \in Nat : e = t * p
    OBVIOUS
  <1>1. (t - 1) * p = e - p /\ e >= p /\ e - p \in Nat
    <2>1. (t - 1) * p = t * p - p
      OBVIOUS
    <2>2. (t - 1) * p \in Nat
      OBVIOUS
    <2> QED BY <1>0, <2>1, <2>2
  <1>2. Len(s) \in Nat /\ \A i \in 1..Len(s) : s[i] \in S
    BY LenProperties, ElementOfSeq
  <1> DEFINE n == IF e <= Len(s) THEN e ELSE Len(s)
             page == SubSeq(s, e - p + 1, n)
  <1>3. n \in Nat /\ n <= Len(s) /\ n <= e
    BY <1>2
  <1>4. PageOf(s, t, p) = page
    <2>1. Min({e, Len(s)}) = n
      BY <1>2, LeastOfTwo
    <2> HIDE DEF n
    <2> QED BY <1>0, <2>1 DEF PageOf
  <1>9. n = Len(s) \/ n = e
    OBVIOUS
  <1> HIDE DEF n
  <1>5. /\ page \in Seq(S) /\ Len(page) = IF e - p + 1 <= n THEN n - (e - p + 1) + 1 ELSE 0
    <2>1. \A i \in (e - p + 1)..n : s[i] \in S
      BY <1>1, <1>2, <1>3
    <2>2. e - p + 1 \in Int /\ n \in Int
      BY <1>1, <1>3
    <2> QED BY ONLY <2>1, <2>2, SubSeqProperties
  <1>6. Len(page) \in Nat /\ Len(page) <= p
    BY <1>1, <1>3, <1>5
  <1>7. ASSUME NEW g \in Seq(S), g = FirstOf(s, Len(g)), Len(g) = e - p
        PROVE  g \o page = FirstOf(s, Len(g \o page))
    <2>1. Len(g) \in Nat /\ Len(g) <= Len(s)
      <3>1. Len(g) \in Nat
        BY LenProperties
      <3>2. Len(FirstOf(s, Len(g))) = IF Len(g) <= Len(s) THEN Len(g) ELSE Len(s)
        BY <3>1, FirstIs
      <3> QED BY <1>2, <1>7, <3>1, <3>2
    <2>2. g = SubSeq(s, 1, e - p)
      <3>1. FirstOf(s, Len(g)) = SubSeq(s, 1, IF Len(g) <= Len(s) THEN Len(g) ELSE Len(s))
        BY <2>1, FirstIs
      <3> QED BY <1>7, <2>1, <3>1
    <2>3. e - p <= n
      BY <1>1, <1>2, <1>7, <1>9, <2>1
    <2>4. SubSeq(s, 1, e - p) \o SubSeq(s, e - p + 1, n) = SubSeq(s, 1, n)
      <3>1. 1 \in 1..(Len(s) + 1) /\ e - p \in (1 - 1)..Len(s) /\ n \in (e - p)..Len(s)
        BY <1>1, <1>2, <1>3, <1>7, <2>1, <2>3
      <3> QED BY ONLY <3>1, ConcatAdjacentSubSeq, s \in Seq(S)
    <2>5. SubSeq(s, 1, n) = FirstOf(s, n) /\ Len(FirstOf(s, n)) = n
      BY <1>3, FirstIs
    <2> QED BY <2>2, <2>4, <2>5
  <1> QED BY <1>1, <1>4, <1>5, <1>6, <1>7 DEF FollowsUp

\* What was fetched is the beginning of a list, and at most a page that begins before its end.
MetBy(got, list, even) ==
    \E m \in 0..Len(list) : \E from \in 0..m : \E to \in 0..Len(list) :
        got = Overlapped(list, m, from, to) /\ (even => from = m)

\* Nothing is, and so is the beginning of a list.
LEMMA NothingMet ==
  ASSUME NEW S, NEW list \in Seq(S), NEW even
  PROVE  MetBy(<<>>, list, even)
  <1>1. Len(list) \in Nat
    BY LenProperties
  <1>2. SubSeq(list, 1, 0) = <<>> /\ SubSeq(list, 0 + 1, 0) = <<>> /\ <<>> \o <<>> = <<>>
    BY <1>1, SubSeqProperties, EmptySeq
  <1>3. <<>> = Overlapped(list, 0, 0, 0)
    BY <1>2 DEF Overlapped
  <1>4. 0 \in 0..Len(list) /\ 0 \in 0..0
    BY <1>1
  <1> QED BY <1>3, <1>4 DEF MetBy

\* And so are the pages of one size, with one more of this size or of a smaller one.
LEMMA PageMeets ==
  ASSUME NEW S, NEW list \in Seq(S), NEW g \in Seq(S), g = FirstOf(list, Len(g)),
         NEW t \in Nat \ {0}, NEW p \in Nat \ {0}, NEW size \in Nat \ {0}, size <= p,
         Len(g) = (t - 1) * p, NEW even, even => (t - 1) * size = Len(g)
  PROVE  MetBy(g \o PageOf(list, t, size), list, even)
  <1>1. Len(list) \in Nat /\ Len(g) \in Nat
    BY LenProperties
  <1>2. PICK m \in Nat, from \in Nat, e \in Nat :
          m = Len(g) /\ from = (t - 1) * size /\ e = t * size /\ e - size = from /\ from <= m
    <2>1. PICK k \in Nat : t = k + 1
      <3>1. t - 1 \in Nat /\ t = (t - 1) + 1
        OBVIOUS
      <3> QED BY <3>1
    <2>2. PICK d \in Nat : p = size + d
      <3>1. p - size \in Nat /\ p = size + (p - size)
        OBVIOUS
      <3> QED BY <3>1
    <2>3. k * p = k * size + k * d /\ k * d \in Nat /\ k * size \in Nat /\ t * size = k * size + size
      BY <2>1, <2>2
    <2>4. t - 1 = k
      BY <2>1
    <2> QED BY <1>1, <2>3, <2>4
  <1>3. m <= Len(list) /\ g = SubSeq(list, 1, m)
    <2>1. /\ FirstOf(list, m) = SubSeq(list, 1, IF m <= Len(list) THEN m ELSE Len(list))
          /\ Len(FirstOf(list, m)) = IF m <= Len(list) THEN m ELSE Len(list)
      BY FirstIs
    <2> QED BY <1>1, <1>2, <2>1
  <1> DEFINE to == IF e <= Len(list) THEN e ELSE Len(list)
  <1>4. to \in 0..Len(list) /\ Min({e, Len(list)}) = to
    BY <1>1, LeastOfTwo
  <1> HIDE DEF to
  <1>5. PageOf(list, t, size) = SubSeq(list, from + 1, to)
    BY <1>2, <1>4 DEF PageOf
  <1>6. g \o PageOf(list, t, size) = Overlapped(list, m, from, to)
    BY <1>3, <1>5 DEF Overlapped
  <1>7. m \in 0..Len(list) /\ from \in 0..m /\ (even => from = m)
    BY <1>1, <1>2, <1>3
  <1> QED BY <1>4, <1>6, <1>7 DEF MetBy

-----------------------------------------------------------------------------
(* Collection: the requests.  A request never has more than it asked for, *)
(* and what an API gave it is the beginning of the listing while nothing   *)
(* was published; a dataset is what cleaning makes of an answered one.     *)

Requests ==
    [pc : {"new", "fetching", "answered", "raised", "refused"}, via : Entrances, source : Sources,
     max : Nat \ {0}, since : Nat, turn : Nat \ {0}, missed : Nat, got : Seq(Items),
     success : BOOLEAN, count : Nat]

EvenPages(r) == r.max <= PageSize \/ r.max % PageSize = 0
Most(r) == r.max * (IF r.source = "rsshub" THEN Len(Feeds) ELSE 1)
Meets(r, u) == r.source = "api" /\ r.since = u => MetBy(r.got, ListedAt(u), EvenPages(r))

\* A request that is being served: of a list of routes, and of a list of pages.
Midway(r, u) ==
    /\ r.source = "rsshub" => r.turn <= Len(Feeds) /\ Len(r.got) <= r.max * (r.turn - 1)
    /\ r.source = "api" =>
          /\ Len(r.got) < r.max /\ Len(r.got) = (r.turn - 1) * PageSize /\ (r.max <= PageSize => r.turn = 1)
          /\ r.since = u => r.got = FirstOf(ListedAt(u), Len(r.got))

RequestOK(r, u) ==
    /\ r \in Requests
    /\ r.pc \in {"new", "refused"} => r.got = <<>>
    /\ r.pc = "new" => r.turn = 1
    /\ r.pc \notin {"new", "refused"} => u <= r.since
    /\ Len(r.got) <= Most(r)
    /\ Meets(r, u)
    /\ r.pc = "fetching" => Midway(r, u)

DatasetOf(c, got) == [by |-> c, items |-> Clean(got).items, report |-> Report(got)]
Datasets == {DatasetOf(c, got) : c \in Collects, got \in Seq(Items)}
DatasetOK(d, r) ==
    /\ r.pc = "answered" /\ d.items = Clean(r.got).items /\ d.report = Report(r.got)
    /\ r.count = Len(d.items)

CollectionInv ==
    /\ unseen \in Nat
    /\ collecting \in [Collects -> Requests] /\ \A c \in Collects : RequestOK(collecting[c], unseen)
    /\ datastore \in Seq(Datasets)
    /\ \A n \in 1..Len(datastore) : DatasetOK(datastore[n], collecting[datastore[n].by])


\* What a request may get at most.
LEMMA MostIs ==
  ASSUME NEW r \in Requests
  PROVE  /\ Most(r) \in Nat /\ r.max <= Most(r) /\ r.max \in Nat \ {0}
         /\ r.source = "rsshub" => Most(r) = r.max * Len(Feeds)
         /\ r.source # "rsshub" => Most(r) = r.max
  <1>1. r.max \in Nat \ {0}
    BY DEF Requests
  <1>2. PICK l \in Nat : l = Len(Feeds) /\ l >= 1
    BY FeedsAre
  <1>3. PICK m \in Nat \ {0} : m = r.max
    BY <1>1
  <1>4. m * l \in Nat /\ m <= m * l
    <2>1. PICK k \in Nat : l = k + 1
      BY <1>2
    <2>2. m * l = m * k + m /\ m * k \in Nat
      BY <2>1
    <2> QED BY <2>2
  <1>5. CASE r.source = "rsshub"
    <2>1. Most(r) = m * l
      BY <1>2, <1>3, <1>5 DEF Most
    <2> QED BY <1>1, <1>2, <1>3, <1>4, <1>5, <2>1
  <1>6. CASE r.source # "rsshub"
    BY <1>1, <1>6 DEF Most
  <1> QED BY <1>5, <1>6

\* A step of one request that adds at most the dataset it answers with.
LEMMA RequestSteps ==
  ASSUME CollectionInv, NEW c \in Collects, collecting[c].pc # "answered",
         NEW r, RequestOK(r, unseen), Becomes(c, r), unseen' = unseen,
         \/ datastore' = datastore
         \/ /\ r.pc = "answered" /\ r.count = Len(Clean(r.got).items)
            /\ datastore' = Append(datastore, DatasetOf(c, r.got))
  PROVE  CollectionInv'
  <1>1. /\ collecting' = [collecting EXCEPT ![c] = r] /\ r \in Requests
        /\ collecting' \in [Collects -> Requests] /\ collecting'[c] = r
        /\ \A d \in Collects \ {c} : collecting'[d] = collecting[d]
    BY DEF CollectionInv, Becomes, RequestOK
  <1>2. \A d \in Collects : RequestOK(collecting'[d], unseen)
    BY <1>1 DEF CollectionInv
  <1>3. /\ datastore \in Seq(Datasets) /\ Len(datastore) \in Nat
        /\ \A n \in 1..Len(datastore) : datastore[n].by \in Collects
        /\ \A n \in 1..Len(datastore) : DatasetOK(datastore[n], collecting[datastore[n].by])
    <2>1. datastore \in Seq(Datasets) /\ \A n \in 1..Len(datastore) : DatasetOK(datastore[n], collecting[datastore[n].by])
      BY DEF CollectionInv
    <2>2. \A n \in 1..Len(datastore) : datastore[n] \in Datasets
      BY <2>1, ElementOfSeq
    <2>3. \A d \in Datasets : d.by \in Collects
      BY DEF Datasets, DatasetOf
    <2> QED BY <2>1, <2>2, <2>3, LenProperties
  <1>4. \A n \in 1..Len(datastore) : DatasetOK(datastore[n], collecting'[datastore[n].by])
    <2>1. \A n \in 1..Len(datastore) : collecting[datastore[n].by].pc = "answered"
      BY <1>3 DEF DatasetOK
    <2>2. \A n \in 1..Len(datastore) : datastore[n].by # c
      BY <2>1
    <2> QED BY <1>1, <1>3, <2>2
  <1>5. datastore' \in Seq(Datasets) /\ \A n \in 1..Len(datastore') : DatasetOK(datastore'[n], collecting'[datastore'[n].by])
    <2>1. CASE datastore' = datastore
      BY <1>3, <1>4, <2>1
    <2>2. CASE r.pc = "answered" /\ r.count = Len(Clean(r.got).items) /\ datastore' = Append(datastore, DatasetOf(c, r.got))
      <3> DEFINE d == DatasetOf(c, r.got)
      <3>1. r.got \in Seq(Items)
        BY <1>1 DEF Requests
      <3>2. d \in Datasets
        BY <3>1 DEF Datasets
      <3>3. d.by = c /\ d.items = Clean(r.got).items /\ d.report = Report(r.got)
        BY DEF DatasetOf
      <3> HIDE DEF d
      <3>4. DatasetOK(d, collecting'[d.by])
        BY <1>1, <2>2, <3>3 DEF DatasetOK
      <3>5. /\ datastore' \in Seq(Datasets) /\ Len(datastore') = Len(datastore) + 1
            /\ \A n \in 1..Len(datastore) : datastore'[n] = datastore[n]
            /\ datastore'[Len(datastore) + 1] = d
        <4>1. datastore' = Append(datastore, d)
          BY <2>2 DEF d
        <4> QED BY ONLY <1>3, <3>2, <4>1, AppendProperties
      <3>6. \A n \in 1..Len(datastore') : n \in 1..Len(datastore) \/ n = Len(datastore) + 1
        BY <1>3, <3>5
      <3> QED BY <1>4, <3>4, <3>5, <3>6
    <2> QED BY <2>1, <2>2
  <1>6. unseen' \in Nat
    BY DEF CollectionInv
  <1>7. \A d \in Collects : RequestOK(collecting'[d], unseen')
    BY <1>2
  <1> QED BY <1>1, <1>5, <1>6, <1>7 DEF CollectionInv

\* The end of a fetch, with items and without.
LEMMA ExtractedStep ==
  ASSUME CollectionInv, NEW c \in Collects, collecting[c].pc = "fetching", unseen' = unseen,
         NEW got \in Seq(Items), Len(got) <= Most(collecting[c]),
         Meets([collecting[c] EXCEPT !.got = got], unseen), Extracted(c, got)
  PROVE  CollectionInv'
  <1> DEFINE q == collecting[c]
             n == IF q.via = "collectTool" THEN Len(got) ELSE Len(Clean(got).items)
             r == [q EXCEPT !.pc = "answered", !.got = got, !.success = TRUE, !.count = n]
  <1>1. q \in Requests /\ RequestOK(q, unseen)
    BY DEF CollectionInv
  <1>2. n \in Nat
    BY CleanFacts, LenProperties
  <1>3. Becomes(c, r) /\ Load(c, got)
    BY DEF Extracted
  <1>6. n = Len(Clean(got).items) \/ q.via = "collectTool"
    OBVIOUS
  <1> HIDE DEF n, q
  <1>4. /\ r \in Requests /\ r.pc = "answered" /\ r.got = got /\ r.count = n /\ r.source = q.source
        /\ r.max = q.max /\ r.since = q.since
    BY <1>1, <1>2 DEF Requests
  <1>5. RequestOK(r, unseen)
    <2>1. Most(r) = Most(q)
      BY <1>4 DEF Most
    <2>2. Meets(r, unseen)
      <3>1. Meets([q EXCEPT !.got = got], unseen)
        BY DEF q
      <3>2. /\ [q EXCEPT !.got = got].source = q.source /\ [q EXCEPT !.got = got].max = q.max
            /\ [q EXCEPT !.got = got].since = q.since /\ [q EXCEPT !.got = got].got = got
        BY <1>1 DEF Requests
      <3> HIDE DEF r
      <3> QED BY <1>4, <3>1, <3>2 DEF Meets, EvenPages
    <2>3. unseen <= q.since /\ Len(got) <= Most(q)
      BY <1>1 DEF RequestOK, q
    <2> HIDE DEF r
    <2> QED BY <1>4, <2>1, <2>2, <2>3 DEF RequestOK
  <1>7. \/ datastore' = datastore
        \/ /\ r.pc = "answered" /\ r.count = Len(Clean(r.got).items)
           /\ datastore' = Append(datastore, DatasetOf(c, r.got))
    <2> HIDE DEF r
    <2>1. CASE q.via = "collectTool" \/ got = <<>>
      BY <1>3, <2>1 DEF Load, q
    <2>2. CASE ~(q.via = "collectTool" \/ got = <<>>)
      BY <1>3, <1>4, <1>6, <2>2 DEF Load, q, DatasetOf
    <2> QED BY <2>1, <2>2
  <1>8. collecting[c].pc # "answered"
    OBVIOUS
  <1> HIDE DEF r
  <1> QED BY <1>3, <1>5, <1>7, <1>8, RequestSteps

LEMMA ExtractFailedStep ==
  ASSUME CollectionInv, NEW c \in Collects, collecting[c].pc = "fetching", unseen' = unseen,
         ExtractFailed(c)
  PROVE  CollectionInv'
  <1> DEFINE q == collecting[c]
             pc == IF q.via = "collectTool" THEN "raised" ELSE "answered"
             r == [q EXCEPT !.pc = pc, !.success = q.via = "portal"]
  <1>1. q \in Requests /\ RequestOK(q, unseen)
    BY DEF CollectionInv
  <1>2. Becomes(c, r) /\ datastore' = datastore
    BY DEF ExtractFailed
  <1>3. pc \in {"raised", "answered"}
    OBVIOUS
  <1>8. collecting[c].pc # "answered" /\ q.pc = "fetching"
    OBVIOUS
  <1> HIDE DEF pc, q
  <1>4. /\ r \in Requests /\ r.pc = pc /\ r.got = q.got /\ r.source = q.source
        /\ r.max = q.max /\ r.since = q.since
    BY <1>1, <1>3 DEF Requests
  <1> HIDE DEF r
  <1>5. RequestOK(r, unseen)
    BY <1>1, <1>3, <1>4, <1>8 DEF RequestOK, Most, Meets, EvenPages
  <1> QED BY <1>2, <1>5, <1>8, RequestSteps

-----------------------------------------------------------------------------
(* Collection: the steps.                                                  *)

\* Something new is published: whoever began before no longer counts on the listing.
LEMMA PublishStep ==
  ASSUME CollectionInv, Publish
  PROVE  CollectionInv'
  <1>1. /\ unseen \in Nat /\ unseen > 0 /\ unseen' = unseen - 1 /\ unseen' \in Nat
        /\ collecting' = collecting /\ datastore' = datastore
    BY DEF Publish, CollectionInv
  <1>2. ASSUME NEW c \in Collects PROVE RequestOK(collecting[c], unseen')
    <2> DEFINE r == collecting[c]
    <2> SUFFICES RequestOK(r, unseen')
      OBVIOUS
    <2>1. RequestOK(r, unseen) /\ r \in Requests /\ r.since \in Nat
      BY DEF CollectionInv, Requests
    <2> HIDE DEF r
    <2>2. Meets(r, unseen')
      <3>1. CASE r.pc \in {"new", "refused"}
        <4>1. r.got = <<>>
          BY <2>1, <3>1 DEF RequestOK
        <4>2. \A even : MetBy(<<>>, ListedAt(unseen'), even)
          BY <1>1, ListedIs, NothingMet
        <4> QED BY <4>1, <4>2 DEF Meets
      <3>2. CASE r.pc \notin {"new", "refused"}
        <4>1. unseen <= r.since
          BY <2>1, <3>2 DEF RequestOK
        <4>2. r.since # unseen'
          BY <1>1, <2>1, <4>1
        <4> QED BY <4>2 DEF Meets
      <3> QED BY <3>1, <3>2
    <2>3. r.pc \notin {"new", "refused"} => unseen' <= r.since /\ unseen' # r.since
      BY <1>1, <2>1 DEF RequestOK
    <2>4. r.pc = "fetching" => Midway(r, unseen')
      BY <2>1, <2>3 DEF RequestOK, Midway
    <2> QED BY <2>1, <2>2, <2>3, <2>4 DEF RequestOK
  <1> QED BY <1>1, <1>2 DEF CollectionInv

\* What starts a request, refuses it, or tries again.
LEMMA RequestCollectStep ==
  ASSUME CollectionInv, NEW c \in Collects, RequestCollect(c)
  PROVE  CollectionInv'
  <1>1. PICK via \in Entrances, source \in Sources, max \in Wanted :
          Becomes(c, [collecting[c] EXCEPT !.pc = "fetching", !.via = via, !.source = source, !.max = max,
                                           !.since = unseen])
    BY DEF RequestCollect
  <1> DEFINE q == collecting[c]
             r == [q EXCEPT !.pc = "fetching", !.via = via, !.source = source, !.max = max, !.since = unseen]
  <1>2. q.pc = "new" /\ unseen' = unseen /\ datastore' = datastore
    BY DEF RequestCollect
  <1>3. q \in Requests /\ RequestOK(q, unseen) /\ unseen \in Nat
    BY DEF CollectionInv
  <1>4. max \in Nat \ {0}
    BY CollectionAssumption
  <1> HIDE DEF q
  <1>5. /\ r \in Requests /\ r.pc = "fetching" /\ r.source = source /\ r.max = max /\ r.since = unseen
        /\ r.got = q.got /\ r.turn = q.turn
    BY <1>3, <1>4 DEF Requests
  <1> HIDE DEF r
  <1>6. r.got = <<>> /\ Len(r.got) = 0 /\ r.turn = 1
    BY <1>2, <1>3, <1>5, EmptySeq DEF RequestOK
  <1>7. Meets(r, unseen)
    <2>1. \A even : MetBy(<<>>, ListedAt(unseen), even)
      BY <1>3, ListedIs, NothingMet
    <2> QED BY <1>6, <2>1 DEF Meets
  <1>8. Midway(r, unseen)
    <2>1. r.max * (r.turn - 1) = 0 /\ (r.turn - 1) * PageSize = 0
      <3>1. r.turn - 1 = 0 /\ r.max \in Nat /\ PageSize \in Nat
        BY <1>4, <1>5, <1>6, CollectionAssumption
      <3> QED BY <3>1
    <2>2. 1 <= Len(Feeds) /\ 0 < r.max
      BY <1>4, <1>5, FeedsAre
    <2>3. FirstOf(ListedAt(unseen), 0) = <<>>
      BY <1>3, ListedIs, FirstNone
    <2> QED BY <1>6, <2>1, <2>2, <2>3 DEF Midway
  <1>9. 0 <= Most(r)
    BY <1>5, MostIs
  <1>10. RequestOK(r, unseen)
    BY <1>3, <1>5, <1>6, <1>7, <1>8, <1>9 DEF RequestOK
  <1>11. Becomes(c, r) /\ collecting[c].pc # "answered"
    BY <1>1, <1>2 DEF r, q
  <1> QED BY <1>2, <1>10, <1>11, RequestSteps

LEMMA RefuseCollectStep ==
  ASSUME CollectionInv, NEW c \in Collects, RefuseCollect(c)
  PROVE  CollectionInv'
  <1> DEFINE q == collecting[c]
             r == [q EXCEPT !.pc = "refused"]
  <1>1. q.pc = "new" /\ Becomes(c, r) /\ unseen' = unseen /\ datastore' = datastore /\ collecting[c].pc # "answered"
    BY DEF RefuseCollect
  <1>2. q \in Requests /\ RequestOK(q, unseen)
    BY DEF CollectionInv
  <1> HIDE DEF q
  <1>3. /\ r \in Requests /\ r.pc = "refused" /\ r.got = q.got /\ r.source = q.source
        /\ r.max = q.max /\ r.since = q.since
    BY <1>2 DEF Requests
  <1> HIDE DEF r
  <1>4. RequestOK(r, unseen)
    BY <1>1, <1>2, <1>3 DEF RequestOK, Most, Meets, EvenPages
  <1> QED BY <1>1, <1>4, RequestSteps

LEMMA RetryPageStep ==
  ASSUME CollectionInv, NEW c \in Collects, RetryPage(c)
  PROVE  CollectionInv'
  <1> DEFINE q == collecting[c]
             r == [q EXCEPT !.turn = @ + 1]
  <1>1. /\ q.pc = "fetching" /\ q.source = "web" /\ Becomes(c, r) /\ unseen' = unseen /\ datastore' = datastore
        /\ collecting[c].pc # "answered"
    BY DEF RetryPage, Fetching
  <1>2. q \in Requests /\ RequestOK(q, unseen)
    BY DEF CollectionInv
  <1> HIDE DEF q
  <1>3. /\ r \in Requests /\ r.pc = q.pc /\ r.got = q.got /\ r.source = q.source
        /\ r.max = q.max /\ r.since = q.since
    BY <1>2 DEF Requests
  <1> HIDE DEF r
  <1>4. RequestOK(r, unseen)
    BY <1>1, <1>2, <1>3 DEF RequestOK, Most, Meets, EvenPages, Midway
  <1> QED BY <1>1, <1>4, RequestSteps

\* What is left of a listing is no longer than it was.
LEMMA WrittenIs ==
  ASSUME NEW s \in Seq(Items)
  PROVE  Written(s) \in Seq(Items) /\ Len(Written(s)) <= Len(s) /\ Len(Written(s)) \in Nat
  BY KeepMembers, LenProperties DEF Written

\* The items of one route, which are no more than were asked for.
LEMMA FeedItemsAre ==
  ASSUME CollectionInv, NEW c \in Collects, NEW route \in 1..Len(Feeds)
  PROVE  /\ Listed(route) \in Seq(Items) /\ Listed(1) = ListedAt(unseen) /\ Listed(1) \in Seq(Items)
         /\ FeedItems(c, route) \in Seq(Items) /\ Len(FeedItems(c, route)) \in Nat
         /\ Len(FeedItems(c, route)) <= collecting[c].max
  <1>1. unseen \in Nat /\ collecting[c].max \in Nat
    BY DEF CollectionInv, Requests
  <1>2. Listed(1) = ListedAt(unseen) /\ Listed(1) \in Seq(Items)
    BY <1>1, ListedIs DEF Listed, ListedAt
  <1>3. Listed(route) \in Seq(Items)
    BY <1>2, FeedsAre DEF Listed
  <1> DEFINE first == FirstOf(Listed(route), collecting[c].max)
  <1>4. first \in Seq(Items) /\ Len(first) <= collecting[c].max /\ Len(first) \in Nat
    <2>1. /\ first \in Seq(Items)
          /\ Len(first) = IF collecting[c].max <= Len(Listed(route)) THEN collecting[c].max ELSE Len(Listed(route))
      BY <1>1, <1>3, FirstIs
    <2>2. Len(Listed(route)) \in Nat
      BY <1>3, LenProperties
    <2> QED BY <1>1, <2>1, <2>2
  <1> HIDE DEF first
  <1>5. Written(first) \in Seq(Items) /\ Len(Written(first)) <= Len(first) /\ Len(Written(first)) \in Nat
    BY <1>4, WrittenIs
  <1> QED BY <1>1, <1>2, <1>3, <1>4, <1>5 DEF FeedItems, first

\* The fetches that read one listing and are done.
LEMMA FetchOnceStep ==
  ASSUME CollectionInv, NEW c \in Collects, FetchFeed(c) \/ FetchWebPage(c) \/ CrawlPage(c)
  PROVE  CollectionInv'
  <1> DEFINE q == collecting[c]
  <1>1. PICK got \in {FeedItems(c, 1), FirstOf(Written(Listed(1)), q.max), Written(FirstOf(Listed(1), 1))} :
          Extracted(c, got)
    BY DEF FetchFeed, FetchWebPage, CrawlPage
  <1>2. q.pc = "fetching" /\ q.source \in {"rss", "web", "crawl4ai"} /\ unseen' = unseen
    BY DEF FetchFeed, FetchWebPage, CrawlPage, Fetching
  <1>3. q \in Requests /\ Most(q) \in Nat /\ q.max <= Most(q) /\ q.max \in Nat \ {0}
    <2>1. q \in Requests
      BY DEF CollectionInv
    <2> HIDE DEF q
    <2> QED BY <2>1, MostIs
  <1>4. 1 \in 1..Len(Feeds)
    BY FeedsAre
  <1>5. Listed(1) \in Seq(Items) /\ Len(Listed(1)) \in Nat
    BY <1>4, FeedItemsAre, LenProperties
  <1>6. FeedItems(c, 1) \in Seq(Items) /\ Len(FeedItems(c, 1)) <= q.max
    BY <1>4, FeedItemsAre
  <1>7. /\ FirstOf(Written(Listed(1)), q.max) \in Seq(Items)
        /\ Len(FirstOf(Written(Listed(1)), q.max)) <= q.max
    <2> HIDE DEF q
    <2>1. Written(Listed(1)) \in Seq(Items) /\ Len(Written(Listed(1))) \in Nat
      BY <1>5, WrittenIs
    <2>2. q.max \in Nat
      BY <1>3
    <2> DEFINE w == Written(Listed(1))
    <2>3. /\ FirstOf(w, q.max) \in Seq(Items)
          /\ Len(FirstOf(w, q.max)) = IF q.max <= Len(w) THEN q.max ELSE Len(w)
      BY <2>1, <2>2, FirstIs
    <2> HIDE DEF w
    <2> QED BY <2>1, <2>2, <2>3 DEF w
  <1>8. /\ Written(FirstOf(Listed(1), 1)) \in Seq(Items)
        /\ Len(Written(FirstOf(Listed(1), 1))) <= q.max
    <2> HIDE DEF q
    <2>1. /\ FirstOf(Listed(1), 1) \in Seq(Items)
          /\ Len(FirstOf(Listed(1), 1)) = IF 1 <= Len(Listed(1)) THEN 1 ELSE Len(Listed(1))
      BY <1>5, FirstIs
    <2> DEFINE f == FirstOf(Listed(1), 1)
    <2>2. Len(f) <= 1 /\ Len(f) \in Nat
      <3>1. Len(f) = IF 1 <= Len(Listed(1)) THEN 1 ELSE Len(Listed(1))
        BY <2>1
      <3> HIDE DEF f
      <3> QED BY <1>5, <3>1
    <2> HIDE DEF f
    <2>3. Written(f) \in Seq(Items) /\ Len(Written(f)) <= Len(f) /\ Len(Written(f)) \in Nat
      BY <2>1, WrittenIs DEF f
    <2> QED BY <1>3, <2>2, <2>3 DEF f
  <1>9. got \in Seq(Items) /\ Len(got) <= q.max
    BY <1>1, <1>6, <1>7, <1>8
  <1> HIDE DEF q
  <1>10. Len(got) \in Nat /\ Len(got) <= Most(q)
    BY <1>3, <1>9, LenProperties
  <1>11. Meets([q EXCEPT !.got = got], unseen)
    <2>1. [q EXCEPT !.got = got].source # "api"
      BY <1>2, <1>3 DEF Requests
    <2> QED BY <2>1 DEF Meets
  <1> QED BY <1>1, <1>2, <1>9, <1>10, <1>11, ExtractedStep DEF q

\* What fails adds nothing.
LEMMA FetchFailsStep ==
  ASSUME CollectionInv, NEW c \in Collects, FetchFails(c)
  PROVE  CollectionInv'
  BY ExtractFailedStep DEF FetchFails, Fetching

LEMMA PageFailsStep ==
  ASSUME CollectionInv, NEW c \in Collects, PageFails(c)
  PROVE  CollectionInv'
  <1> DEFINE q == collecting[c]
  <1>1. q.pc = "fetching" /\ unseen' = unseen /\ (Extracted(c, q.got) \/ ExtractFailed(c))
    BY DEF PageFails, Fetching
  <1>2. q \in Requests /\ RequestOK(q, unseen)
    BY DEF CollectionInv
  <1> HIDE DEF q
  <1>3. q.got \in Seq(Items) /\ [q EXCEPT !.got = q.got] = q
    BY <1>2 DEF Requests
  <1>4. Len(q.got) <= Most(q) /\ Meets([q EXCEPT !.got = q.got], unseen)
    BY <1>2, <1>3 DEF RequestOK
  <1> QED BY <1>1, <1>3, <1>4, ExtractedStep, ExtractFailedStep DEF q

\* A request for a list of pages or routes that goes on.
LEMMA GoesOn ==
  ASSUME NEW q \in Requests, NEW u, RequestOK(q, u), q.pc = "fetching", NEW got \in Seq(Items),
         NEW missed \in Nat, NEW r,
         r = [q EXCEPT !.got = got, !.missed = missed, !.turn = q.turn + 1],
         Meets([q EXCEPT !.got = got], u), Len(got) <= Most(q), Midway(r, u)
  PROVE  RequestOK(r, u)
  <1> DEFINE next == q.turn + 1
  <1>4. next \in Nat \ {0}
    BY DEF Requests
  <1> HIDE DEF next
  <1>1. /\ r \in Requests /\ r.pc = q.pc /\ r.got = got /\ r.source = q.source
        /\ r.max = q.max /\ r.since = q.since
    <2>1. r = [q EXCEPT !.got = got, !.missed = missed, !.turn = next]
      BY DEF next
    <2> QED BY <1>4, <2>1 DEF Requests
  <1>2. /\ [q EXCEPT !.got = got].source = q.source /\ [q EXCEPT !.got = got].max = q.max
        /\ [q EXCEPT !.got = got].since = q.since /\ [q EXCEPT !.got = got].got = got
    BY DEF Requests
  <1>3. Meets(r, u) /\ Most(r) = Most(q)
    BY ONLY <1>1, <1>2, Meets([q EXCEPT !.got = got], u) DEF Meets, EvenPages, Most
  <1> QED BY <1>1, <1>3 DEF RequestOK

\* One route more: each adds at most max_items.
LEMMA FetchRouteStep ==
  ASSUME CollectionInv, NEW c \in Collects, FetchRoute(c)
  PROVE  CollectionInv'
  <1> DEFINE q == collecting[c]
             route == q.turn
             gotOf(came) == IF came THEN q.got \o FeedItems(c, route) ELSE q.got
             missedOf(came) == q.missed + When(~came, 1)
             rOf(came) == [q EXCEPT !.got = gotOf(came), !.missed = missedOf(came), !.turn = route + 1]
  <1>1. PICK came \in BOOLEAN :
          IF route < Len(Feeds)
          THEN Becomes(c, rOf(came)) /\ UNCHANGED datastore
          ELSE IF gotOf(came) = <<>> /\ missedOf(came) > 0 THEN ExtractFailed(c) ELSE Extracted(c, gotOf(came))
    BY DEF FetchRoute
  <1> DEFINE got == gotOf(came)
             missed == missedOf(came)
             r == rOf(came)
  <1>2. q.pc = "fetching" /\ q.source = "rsshub" /\ unseen' = unseen /\ collecting[c].pc # "answered"
    BY DEF FetchRoute, Fetching
  <1>3. q \in Requests /\ RequestOK(q, unseen)
    BY DEF CollectionInv
  <1>4. Len(Feeds) \in Nat
    BY FeedsAre
  <1>5. /\ q.max \in Nat \ {0} /\ q.turn \in Nat \ {0} /\ q.missed \in Nat /\ q.got \in Seq(Items)
        /\ q.turn <= Len(Feeds) /\ Len(q.got) <= q.max * (q.turn - 1) /\ Len(q.got) \in Nat
    <2> HIDE DEF q
    <2>1. q.got \in Seq(Items)
      BY <1>3 DEF Requests
    <2> QED BY <1>2, <1>3, <2>1, LenProperties DEF RequestOK, Midway, Requests
  <1>6. FeedItems(c, route) \in Seq(Items) /\ Len(FeedItems(c, route)) <= q.max /\ Len(FeedItems(c, route)) \in Nat
    <2>1. route \in 1..Len(Feeds)
      BY <1>4, <1>5
    <2> HIDE DEF route
    <2> QED BY <2>1, FeedItemsAre
  <1>7. missed \in Nat
    BY <1>5 DEF When
  <1>8. got \in Seq(Items) /\ Len(got) \in Nat /\ Len(got) <= Len(q.got) + q.max
    <2>1. CASE came
      <3> DEFINE new == FeedItems(c, route)
      <3>1. new \in Seq(Items) /\ Len(new) <= q.max /\ Len(new) \in Nat
        BY <1>6
      <3>2. got = q.got \o new
        BY <2>1
      <3> HIDE DEF new, got, q
      <3>3. q.got \o new \in Seq(Items) /\ Len(q.got \o new) = Len(q.got) + Len(new)
        BY ONLY <1>5, <3>1, ConcatProperties
      <3> QED BY <1>5, <3>1, <3>2, <3>3
    <2>2. CASE ~came
      <3>1. got = q.got
        BY <2>2
      <3> HIDE DEF got, q
      <3> QED BY <1>5, <3>1
    <2> QED BY <2>1, <2>2
  <1>9. IF route < Len(Feeds) THEN Becomes(c, r) /\ UNCHANGED datastore
        ELSE ExtractFailed(c) \/ Extracted(c, got)
    BY <1>1
  <1>11. r = [q EXCEPT !.got = got, !.missed = missed, !.turn = q.turn + 1] /\ route = q.turn
    OBVIOUS
  <1> HIDE DEF got, missed, r, q, route
  <1>12. r.turn = q.turn + 1 /\ r.got = got /\ r.source = q.source /\ r.max = q.max
    BY <1>3, <1>11 DEF Requests
  <1>13. Len(got) <= q.max * q.turn /\ q.max * q.turn <= q.max * Len(Feeds) /\ Most(q) = q.max * Len(Feeds)
    <2>1. PICK m \in Nat, t \in Nat, l \in Nat : m = q.max /\ t = q.turn - 1 /\ l = Len(Feeds) /\ t + 1 <= l
      BY <1>4, <1>5
    <2>2. PICK k \in Nat : l = t + 1 + k
      <3>1. l - (t + 1) \in Nat /\ l = t + 1 + (l - (t + 1))
        BY <2>1
      <3> QED BY <3>1
    <2>3. m * (t + 1) = m * t + m /\ m * l = m * (t + 1) + m * k /\ m * k \in Nat /\ m * t \in Nat
      BY <2>2
    <2>4. Len(got) <= m * t + m
      <3>1. Len(q.got) <= m * t
        BY <1>5, <2>1
      <3>2. PICK p \in Nat : p = m * t
        OBVIOUS
      <3>3. Len(got) <= Len(q.got) + m /\ Len(q.got) <= p
        BY <1>8, <2>1, <3>1, <3>2
      <3>4. Len(got) <= p + m
        BY <1>5, <1>8, <3>3
      <3> QED BY <3>2, <3>4
    <2>5. q.turn = t + 1
      BY <1>5, <2>1
    <2>6. Most(q) = q.max * Len(Feeds)
      BY <1>2, <1>3, MostIs
    <2>7. Len(got) <= m * (t + 1) /\ m * (t + 1) <= m * l
      BY <1>8, <2>3, <2>4
    <2> QED BY <2>1, <2>5, <2>6, <2>7
  <1>14. Len(got) <= Most(q)
    <2>1. q.max * q.turn \in Nat /\ q.max * Len(Feeds) \in Nat
      BY <1>4, <1>5
    <2> QED BY <1>8, <1>13, <2>1
  <1>15. Meets([q EXCEPT !.got = got], unseen)
    <2>1. [q EXCEPT !.got = got].source = "rsshub"
      BY <1>2, <1>3 DEF Requests
    <2> QED BY <2>1 DEF Meets
  <1>16. CASE route < Len(Feeds)
    <2>1. Midway(r, unseen)
      <3>1. r.turn - 1 = q.turn /\ r.turn <= Len(Feeds)
        BY <1>4, <1>5, <1>11, <1>12, <1>16
      <3> QED BY <1>2, <1>12, <1>13, <3>1 DEF Midway
    <2>2. RequestOK(r, unseen)
      BY <1>2, <1>3, <1>7, <1>8, <1>11, <1>14, <1>15, <2>1, GoesOn
    <2> QED BY <1>2, <1>9, <1>16, <2>2, RequestSteps
  <1>17. CASE ~(route < Len(Feeds))
    <2>1. CASE ExtractFailed(c)
      BY <1>2, <2>1, ExtractFailedStep DEF q
    <2>2. CASE Extracted(c, got)
      BY <1>2, <1>8, <1>14, <1>15, <2>2, ExtractedStep DEF q
    <2> QED BY <1>9, <1>17, <2>1, <2>2
  <1> QED BY <1>16, <1>17

\* The size of a page, when the amount is a number of whole pages.
LEMMA WholePages ==
  ASSUME NEW m \in Nat, NEW s \in Nat \ {0}, m % s = 0, NEW t \in Nat, t * s < m
  PROVE  s <= m - t * s
  <1>1. PICK k \in Int : m = s * k
    <2>1. m = s * (m \div s) + (m % s) /\ m \div s \in Int
      OBVIOUS
    <2> QED BY <2>1
  <1>2. t < k
    <2> SUFFICES ASSUME k <= t PROVE FALSE
      BY <1>1
    <2>1. PICK d \in Nat : t = k + d
      BY <1>1
    <2>2. t * s = s * k + d * s /\ d * s \in Nat
      BY <1>1, <2>1
    <2> QED BY <1>1, <2>2
  <1>3. PICK d \in Nat : k = t + 1 + d
    BY <1>1, <1>2
  <1>4. s * k = t * s + s + d * s /\ d * s \in Nat
    BY <1>3
  <1> QED BY <1>1, <1>4

\* One page more: it follows the pages before when all have one size.
LEMMA FetchApiPageStep ==
  ASSUME CollectionInv, NEW c \in Collects, FetchApiPage(c)
  PROVE  CollectionInv'
  <1> DEFINE q == collecting[c]
             list == ListedAt(unseen)
             size == PerPage(c)
             page == PageRecords(c)
             got == q.got \o page
             r == [q EXCEPT !.got = got, !.turn = q.turn + 1]
  <1>1. \/ Extracted(c, got)
        \/ /\ ~(Len(page) < size) /\ ~(Len(got) >= q.max)
           /\ Becomes(c, r) /\ datastore' = datastore
    BY DEF FetchApiPage
  <1>2. q.pc = "fetching" /\ q.source = "api" /\ unseen' = unseen /\ collecting[c].pc # "answered"
    BY DEF FetchApiPage, Fetching
  <1>3. q \in Requests /\ RequestOK(q, unseen) /\ unseen \in Nat
    BY DEF CollectionInv
  <1>4. list \in Seq(Items) /\ Listed(1) = list
    BY <1>3, ListedIs DEF Listed, ListedAt
  <1>5. /\ q.max \in Nat \ {0} /\ q.turn \in Nat \ {0} /\ q.missed \in Nat /\ q.got \in Seq(Items)
        /\ Len(q.got) \in Nat /\ Len(q.got) < q.max
    <2> HIDE DEF q
    <2>1. q.got \in Seq(Items)
      BY <1>3 DEF Requests
    <2> QED BY <1>2, <1>3, <2>1, LenProperties DEF RequestOK, Midway, Requests
  <1>16. /\ Len(q.got) = (q.turn - 1) * PageSize /\ (q.max <= PageSize => q.turn = 1)
         /\ q.since = unseen => q.got = FirstOf(list, Len(q.got))
    <2> HIDE DEF q
    <2> QED BY <1>2, <1>3 DEF RequestOK, Midway
  <1>6. PageSize \in Nat \ {0}
    BY CollectionAssumption
  <1>7. /\ size = IF PageSize <= q.max - Len(q.got) THEN PageSize ELSE q.max - Len(q.got)
        /\ size \in Nat \ {0}
    <2>1. size = Min({PageSize, q.max - Len(q.got)})
      BY DEF PerPage
    <2>2. PageSize \in Int /\ q.max - Len(q.got) \in Int
      BY <1>5, <1>6
    <2> HIDE DEF size, q
    <2>3. size = IF PageSize <= q.max - Len(q.got) THEN PageSize ELSE q.max - Len(q.got)
      BY <2>1, <2>2, LeastOfTwo
    <2> QED BY <1>5, <1>6, <2>3
  <1>8. page = PageOf(list, q.turn, size)
    BY <1>4 DEF PageRecords, PageOf
  <1> HIDE DEF page, size, list, q
  <1>9. /\ page \in Seq(Items) /\ Len(page) \in Nat /\ Len(page) <= size
        /\ (q.got = FirstOf(list, Len(q.got)) /\ Len(q.got) = (q.turn - 1) * size =>
               got = FirstOf(list, Len(got)))
    <2>1. q.turn \in Nat \ {0} /\ size \in Nat \ {0} /\ list \in Seq(Items) /\ q.got \in Seq(Items)
      BY <1>4, <1>5, <1>7
    <2>2. PICK t \in Nat \ {0} : t = q.turn
      BY <2>1
    <2>3. page = PageOf(list, t, size)
      BY <1>8, <2>2
    <2>4. /\ PageOf(list, t, size) \in Seq(Items) /\ Len(PageOf(list, t, size)) \in Nat
          /\ Len(PageOf(list, t, size)) <= size /\ FollowsUp(Items, list, t, size)
      BY ONLY <2>1, t \in Nat \ {0}, PageIs
    <2>5. ASSUME q.got = FirstOf(list, Len(q.got)), Len(q.got) = (q.turn - 1) * size
          PROVE  got = FirstOf(list, Len(got))
      <3>1. Len(q.got) = (t - 1) * size
        BY <2>2, <2>5
      <3>2. q.got \o PageOf(list, t, size) = FirstOf(list, Len(q.got \o PageOf(list, t, size)))
        BY <2>1, <2>4, <2>5, <3>1 DEF FollowsUp
      <3> QED BY <2>3, <3>2
    <2> QED BY <2>3, <2>4, <2>5
  <1>10. got \in Seq(Items) /\ Len(got) = Len(q.got) + Len(page) /\ Len(got) \in Nat /\ Len(got) <= q.max
    <2>1. got \in Seq(Items) /\ Len(got) = Len(q.got) + Len(page)
      BY ONLY <1>5, <1>9, ConcatProperties
    <2> HIDE DEF got
    <2> QED BY <1>5, <1>6, <1>7, <1>9, <2>1
  <1> HIDE DEF got
  <1>11. Len(got) <= Most(q)
    BY <1>2, <1>3, <1>10, MostIs
  <1>12. size <= PageSize /\ size <= q.max /\ (EvenPages(q) => (q.turn - 1) * size = Len(q.got))
    <2>1. ASSUME q.max <= PageSize PROVE (q.turn - 1) * size = Len(q.got)
      <3>1. q.turn = 1 /\ 1 - 1 = 0 /\ 0 * size = 0 /\ 0 * PageSize = 0
        BY <1>6, <1>7, <1>16, <2>1
      <3> QED BY <1>16, <3>1
    <2>2. ASSUME q.max > PageSize, q.max % PageSize = 0 PROVE (q.turn - 1) * size = Len(q.got)
      <3>1. PICK t \in Nat : t = q.turn - 1
        BY <1>5
      <3> DEFINE m == q.max
      <3>2. m \in Nat /\ m % PageSize = 0 /\ t * PageSize < m
        BY <1>5, <1>16, <2>2, <3>1
      <3> HIDE DEF m
      <3>3. PageSize <= m - t * PageSize
        BY <1>6, <3>2, WholePages
      <3>4. size = PageSize
        BY <1>5, <1>7, <1>16, <3>1, <3>3 DEF m
      <3> QED BY <1>16, <3>4
    <2>3. size <= PageSize /\ size <= q.max
      BY <1>5, <1>6, <1>7
    <2> QED BY <1>5, <1>6, <2>1, <2>2, <2>3 DEF EvenPages
  <1>13. Meets([q EXCEPT !.got = got], unseen)
    <2>1. /\ [q EXCEPT !.got = got].source = q.source /\ [q EXCEPT !.got = got].max = q.max
          /\ [q EXCEPT !.got = got].since = q.since /\ [q EXCEPT !.got = got].got = got
      BY <1>3 DEF Requests
    <2>2. ASSUME q.since = unseen PROVE MetBy(got, list, EvenPages(q))
      <3> DEFINE even == EvenPages(q)
      <3>1. PICK t \in Nat \ {0} : t = q.turn
        BY <1>5
      <3>2. q.got \in Seq(Items) /\ q.got = FirstOf(list, Len(q.got)) /\ Len(q.got) = (t - 1) * PageSize
            /\ (even => (t - 1) * size = Len(q.got))
        BY <1>5, <1>12, <1>16, <2>2, <3>1
      <3>3. got = q.got \o PageOf(list, t, size)
        BY <1>8, <3>1 DEF got
      <3>4. size \in Nat \ {0} /\ size <= PageSize /\ list \in Seq(Items)
        BY <1>4, <1>7, <1>12
      <3> HIDE DEF even
      <3>5. MetBy(q.got \o PageOf(list, t, size), list, even)
        BY ONLY <1>6, <3>2, <3>4, PageMeets, t \in Nat \ {0}
      <3> QED BY <3>3, <3>5 DEF even
    <2>3. EvenPages([q EXCEPT !.got = got]) <=> EvenPages(q)
      BY <2>1 DEF EvenPages
    <2>4. ASSUME EvenPages([q EXCEPT !.got = got]) <=> EvenPages(q), MetBy(got, list, EvenPages(q))
          PROVE  MetBy(got, list, EvenPages([q EXCEPT !.got = got]))
      BY <2>4 DEF MetBy
    <2> QED BY <2>1, <2>2, <2>3, <2>4 DEF Meets, list
  <1>14. CASE Extracted(c, got)
    BY <1>2, <1>10, <1>11, <1>13, <1>14, ExtractedStep DEF q
  <1>15. CASE ~(Len(page) < size) /\ ~(Len(got) >= q.max) /\ Becomes(c, r) /\ datastore' = datastore
    <2>1. Len(page) = size /\ Len(got) < q.max
      BY <1>5, <1>7, <1>9, <1>10, <1>15
    <2>2. r = [q EXCEPT !.got = got, !.missed = q.missed, !.turn = q.turn + 1] /\ q.missed \in Nat
      BY <1>3 DEF Requests
    <2>3. r.turn = q.turn + 1 /\ r.got = got /\ r.source = q.source /\ r.max = q.max /\ r.since = q.since
      BY <1>3 DEF Requests
    <2>6. Becomes(c, r) /\ datastore' = datastore
      BY <1>15
    <2> HIDE DEF r
    <2>4. Midway(r, unseen)
      <3>1. size = PageSize /\ q.max > PageSize
        BY <1>5, <1>6, <1>7, <1>10, <2>1
      <3>2. Len(got) = q.turn * PageSize
        <4>1. q.turn * PageSize = (q.turn - 1) * PageSize + PageSize
          BY <1>5, <1>6
        <4> QED BY <1>5, <1>10, <1>16, <2>1, <3>1, <4>1
      <3>3. r.turn - 1 = q.turn /\ r.source = "api" /\ ~(r.max <= PageSize) /\ r.since = q.since
        BY <1>2, <1>5, <1>6, <2>3, <3>1
      <3>4. Len(r.got) < r.max
        BY <2>1, <2>3
      <3>5. q.since = unseen => got = FirstOf(list, Len(got))
        BY <1>9, <1>16, <3>1
      <3> QED BY <2>3, <3>2, <3>3, <3>4, <3>5 DEF Midway, list
    <2>5. RequestOK(r, unseen)
      BY <1>2, <1>3, <1>10, <1>11, <1>13, <2>2, <2>4, GoesOn
    <2> QED BY <1>2, <2>5, <2>6, RequestSteps
  <1> QED BY <1>1, <1>14, <1>15

\* Every step of the requests keeps the invariant.
LEMMA CollectionStep ==
  ASSUME CollectionInv, [CollectionNext]_collectionVars
  PROVE  CollectionInv'
  <1>1. CASE UNCHANGED collectionVars
    BY <1>1 DEF CollectionInv, collectionVars
  <1>2. CASE Publish
    BY <1>2, PublishStep
  <1>3. ASSUME NEW c \in Collects,
               \/ RequestCollect(c) \/ RefuseCollect(c)
               \/ FetchApiPage(c) \/ PageFails(c) \/ FetchFeed(c) \/ FetchWebPage(c) \/ CrawlPage(c)
               \/ RetryPage(c) \/ FetchFails(c) \/ FetchRoute(c)
        PROVE  CollectionInv'
    BY <1>3, RequestCollectStep, RefuseCollectStep, FetchApiPageStep, PageFailsStep, FetchOnceStep,
       RetryPageStep, FetchFailsStep, FetchRouteStep
  <1> QED BY <1>1, <1>2, <1>3 DEF CollectionNext

LEMMA CollectionStart == CollectionInit => CollectionInv
  <1> SUFFICES ASSUME CollectionInit PROVE CollectionInv
    OBVIOUS
  <1>1. unseen \in Nat
    BY FeedsAre, CollectionAssumption DEF CollectionInit
  <1>2. <<>> \in Seq(Items) /\ <<>> \in Seq(Datasets) /\ Len(<<>>) = 0
    BY EmptySeq
  <1>3. NewCollect \in Requests
    BY <1>2 DEF NewCollect, Requests, Entrances, Sources
  <1>4. RequestOK(NewCollect, unseen)
    <2>1. /\ NewCollect.pc = "new" /\ NewCollect.got = <<>> /\ NewCollect.turn = 1
      BY DEF NewCollect
    <2>2. \A even : MetBy(<<>>, ListedAt(unseen), even)
      BY <1>1, ListedIs, NothingMet
    <2>3. Len(NewCollect.got) <= Most(NewCollect)
      BY <1>2, <1>3, <2>1, MostIs
    <2> QED BY <1>2, <1>3, <2>1, <2>2, <2>3 DEF RequestOK, Meets
  <1>5. /\ collecting \in [Collects -> Requests] /\ \A c \in Collects : RequestOK(collecting[c], unseen)
        /\ datastore = <<>>
    BY <1>3, <1>4 DEF CollectionInit
  <1> QED BY <1>1, <1>2, <1>5 DEF CollectionInv

-----------------------------------------------------------------------------
(* What the datasets and the listings say.                                 *)

\* A dataset of the datastore, and the request it answers.
LEMMA DatasetIs ==
  ASSUME CollectionInv, NEW n \in 1..Len(datastore)
  PROVE  /\ datastore[n].by \in Collects
         /\ collecting[datastore[n].by].got \in Seq(Items)
         /\ datastore[n].items = Clean(collecting[datastore[n].by].got).items
         /\ datastore[n].report = Report(collecting[datastore[n].by].got)
         /\ collecting[datastore[n].by].count = Len(datastore[n].items)
  <1>1. datastore[n] \in Datasets /\ DatasetOK(datastore[n], collecting[datastore[n].by])
    BY ElementOfSeq DEF CollectionInv
  <1>2. datastore[n].by \in Collects
    BY <1>1 DEF Datasets, DatasetOf
  <1>3. collecting[datastore[n].by] \in Requests
    BY <1>2 DEF CollectionInv
  <1>4. collecting[datastore[n].by].got \in Seq(Items)
    BY <1>3 DEF Requests
  <1> QED BY <1>1, <1>2, <1>4 DEF DatasetOK

\* A dataset and its report are what cleaning makes of the items that came.
LEMMA DatasetsAre ==
  ASSUME CollectionInv
  PROVE  DatasetsSound /\ NumbersHidden
  <1>0. Len(datastore) \in Nat /\ DOMAIN datastore = 1..Len(datastore)
    BY LenProperties DEF CollectionInv
  <1>1. ASSUME NEW n \in 1..Len(datastore)
        PROVE  LET got == collecting[datastore[n].by].got
                   items == datastore[n].items
               IN  /\ {items[k].at : k \in DOMAIN items} = Kept(got)
                   /\ \A j, k \in DOMAIN items : j < k => items[j].at < items[k].at
                   /\ datastore[n].report.duplicates = Cardinality(Again(got))
                   /\ datastore[n].report.valid = Cardinality(Kept(got))
                   /\ StoredReport(n).total = datastore[n].report.valid
                   /\ StoredReport(n).masked <= datastore[n].report.masked
    <2> DEFINE got == collecting[datastore[n].by].got
               items == datastore[n].items
               report == datastore[n].report
    <2>1. got \in Seq(Items) /\ items = Clean(got).items /\ report = Report(got)
      BY DatasetIs
    <2>2. StoredReport(n).total = Len(items)
          /\ StoredReport(n).masked = Len(MaskedOf(items))
      BY DEF StoredReport, MaskedOf
    <2> HIDE DEF got, items, report
    <2>3. Accounted(got, items) /\ Report(got).valid = Len(items)
      BY <2>1, CleanFacts
    <2>4. /\ {items[k].at : k \in DOMAIN items} = Kept(got)
          /\ \A j, k \in DOMAIN items : j < k => items[j].at < items[k].at
          /\ report.duplicates = Cardinality(Again(got))
          /\ report.valid = Cardinality(Kept(got))
          /\ StoredReport(n).total = report.valid
          /\ StoredReport(n).masked <= report.masked
      BY <2>1, <2>2, <2>3 DEF Accounted
    <2> QED BY <2>4 DEF got, items, report
  <1>2. DatasetsSound
    BY <1>0, <1>1 DEF DatasetsSound, Kept, Again
  <1>3. ASSUME NEW n \in 1..Len(datastore), NEW k \in DOMAIN datastore[n].items
        PROVE  LET item == datastore[n].items[k]
                   came == collecting[datastore[n].by].got[item.at]
               IN  Conceals(item.number, About[came.content].number) /\ Conceals(item.title, came.title)
    <2> DEFINE got == collecting[datastore[n].by].got
               items == datastore[n].items
    <2>1. got \in Seq(Items) /\ items = Clean(got).items
      BY DatasetIs
    <2>2. k \in DOMAIN items
      OBVIOUS
    <2> HIDE DEF got, items
    <2>3. items \in Seq(StoredItems(got)) /\ DOMAIN items = 1..Len(items)
      BY <2>1, CleanFacts
    <2>4. items[k] \in StoredItems(got)
      BY <2>2, <2>3, ElementOfSeq
    <2>5. LET came == got[items[k].at]
          IN  Conceals(items[k].number, About[came.content].number) /\ Conceals(items[k].title, came.title)
      BY <2>1, <2>4, StoredHidden
    <2> QED BY <2>5 DEF got, items
  <1>4. NumbersHidden
    BY <1>0, <1>3 DEF NumbersHidden
  <1> QED BY <1>2, <1>4

\* What all datasets have together, and how much that is.
LEMMA AllItemsAre ==
  ASSUME CollectionInv
  PROVE  LET valid == SumOf([n \in DOMAIN datastore |-> datastore[n].report.valid])
             X == UNION {StoredItems(got) : got \in Seq(Items)}
         IN  AllItems \in Seq(X) /\ Len(AllItems) = valid /\ valid \in Nat
  <1> DEFINE X == UNION {StoredItems(got) : got \in Seq(Items)}
             ss == [n \in DOMAIN datastore |-> datastore[n].items]
             valids == [n \in DOMAIN datastore |-> datastore[n].report.valid]
  <1>0. Len(datastore) \in Nat /\ DOMAIN datastore = 1..Len(datastore)
    BY LenProperties DEF CollectionInv
  <1>1. ASSUME NEW n \in 1..Len(datastore)
        PROVE  datastore[n].items \in Seq(X) /\ datastore[n].report.valid = Len(datastore[n].items)
    <2> DEFINE got == collecting[datastore[n].by].got
               items == datastore[n].items
               report == datastore[n].report
    <2>1. got \in Seq(Items) /\ items = Clean(got).items /\ report = Report(got)
      BY DatasetIs
    <2> HIDE DEF got, items, report
    <2>2. items \in Seq(StoredItems(got)) /\ Report(got).valid = Len(items)
      BY <2>1, CleanFacts
    <2>3. StoredItems(got) \subseteq X
      BY <2>1
    <2> HIDE DEF X
    <2>4. items \in Seq(X)
      BY ONLY <2>2, <2>3, SeqMonotonic
    <2> QED BY <2>1, <2>2, <2>4 DEF items, report
  <1> HIDE DEF X
  <1>2. ss \in Seq(Seq(X)) /\ Len(ss) = Len(datastore)
    <2>1. ss \in [1..Len(datastore) -> Seq(X)]
      BY <1>0, <1>1
    <2> HIDE DEF ss
    <2> QED BY <1>0, <2>1, IsASeq, SeqDef, LenProperties
  <1>3. /\ JoinOf(ss) \in Seq(X)
        /\ Len(JoinOf(ss)) = SumOf([n \in 1..Len(ss) |-> Len(ss[n])])
    <2> HIDE DEF ss
    <2> QED BY <1>2, JoinedLength
  <1>4. [n \in 1..Len(ss) |-> Len(ss[n])] = valids
    <2>1. \A n \in 1..Len(datastore) : ss[n] = datastore[n].items
      BY <1>0
    <2> HIDE DEF ss
    <2> QED BY <1>0, <1>1, <1>2, <2>1
  <1>5. AllItems = JoinOf(ss)
    BY DEF AllItems
  <1>6. Len(AllItems) \in Nat
    BY <1>3, <1>5, LenProperties
  <1> QED BY <1>3, <1>4, <1>5, <1>6 DEF X

\* The reports count what all datasets have together.
LEMMA PortalShows ==
  ASSUME CollectionInv
  PROVE  PortalShowsStored
  <1> DEFINE valid == SumOf([n \in DOMAIN datastore |-> datastore[n].report.valid])
             X == UNION {StoredItems(got) : got \in Seq(Items)}
  <1>1. AllItems \in Seq(X) /\ Len(AllItems) = valid /\ valid \in Nat
    BY AllItemsAre
  <1> HIDE DEF valid, X
  <1>2. AllItems = <<>> <=> valid = 0
    BY <1>1, EmptySeq
  <1>3. CASE valid = 0
    BY <1>2, <1>3 DEF PortalShowsStored, Overview, ListItems, valid
  <1>4. CASE valid # 0
    <2>1. Overview = [items |-> valid, sources |-> Len(datastore)]
      BY <1>1, <1>2, <1>4 DEF Overview
    <2>2. Len(FirstOf(AllItems, 3)) = IF 3 <= valid THEN 3 ELSE valid
      BY <1>1, FirstIs
    <2>3. Min({3, valid}) = IF 3 <= valid THEN 3 ELSE valid
      BY <1>1, LeastOfTwo
    <2>4. ListItems(3) = FirstOf(AllItems, 3)
      BY <1>2, <1>4 DEF ListItems
    <2> QED BY <1>4, <2>1, <2>2, <2>3, <2>4 DEF PortalShowsStored, valid
  <1> QED BY <1>3, <1>4

\* The beginning of the listing, and no more than was asked for.
LEMMA AmountsAre ==
  ASSUME CollectionInv
  PROVE  PagesMeet /\ WithinWanted
  <1>0. Len(datastore) \in Nat /\ DOMAIN datastore = 1..Len(datastore)
    BY LenProperties DEF CollectionInv
  <1>1. \A c \in Collects : RequestOK(collecting[c], unseen)
    BY DEF CollectionInv
  <1>2. Listed(1) = ListedAt(unseen)
    BY DEF Listed, ListedAt
  <1>3. PagesMeet
    BY <1>1, <1>2 DEF PagesMeet, RequestOK, Meets, MetBy, EvenPages
  <1>4. \A n \in DOMAIN datastore : collecting[datastore[n].by].count = Len(datastore[n].items)
    BY <1>0, DatasetIs
  <1> QED BY <1>1, <1>3, <1>4 DEF WithinWanted, RequestOK, Most

\* Collections are sound, for any feeds, texts, page sizes and amounts asked for, any number of
\* requests, and whatever is published, fails or is tried again meanwhile; and the guard weighs
\* as it should, for any text.
THEOREM CollectionIsSound == CollectionSpec => []CollectionSound
<1>1. CollectionInit /\ GeoInit => CollectionInv /\ GeoInv
  BY CollectionStart, GeoStart
<1>2. CollectionInv /\ GeoInv
      /\ [\/ CollectionNext /\ UNCHANGED geoVars
          \/ GeoNext /\ UNCHANGED collectionVars]_<<collectionVars, geoVars>>
      => (CollectionInv /\ GeoInv)'
  BY CollectionStep, GeoStep
<1>3. CollectionInv /\ GeoInv => CollectionSound
  BY DatasetsAre, PortalShows, AmountsAre, GuardWeighs DEF CollectionSound
<1> QED BY <1>1, <1>2, <1>3, PTL DEF CollectionSpec
=============================================================================
