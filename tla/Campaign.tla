------------------------------ MODULE Campaign ------------------------------
(***************************************************************************)
(* Campaigns on customs data: buyers are put into segments, a client looks *)
(* at them and has one of them pushed over a channel                       *)
(* (customs_campaign_router.py, the connector and the pusher behind it,    *)
(* PushService), while ingests bring more shipments.  Of the four parts of *)
(* a segment's key the frequency stands for all.                           *)
(***************************************************************************)
EXTENDS Integers, FiniteSets, Sequences

CONSTANTS
    Pushes,         \* what a client lists and then asks of POST /push
    Consignees,     \* buyers that ingests bring
    Sanctioned,     \* those of them the guard finds on its list
    Mid, High,      \* shipments from which a frequency is mid and high
    SegmentFilters, \* the filters of clients
    MailRequests,   \* what a request says besides the segment
    DefaultLimit,   \* 200, buyers read when there is no filter
    MaxShipments    \* bound on the shipments of a buyer

Channels == {"email", "im", "webhook"}
MailKinds == {"free", "corporate"}
Consents == {"unsaid", "given", "refused"}

\* A filter: the buyers of its country, those among them its other fields let
\* pass, the shipments it asks for, and the buyers read.  A request: the email
\* the gate looks at, and the address that is written to.
ASSUME CampaignAssumption ==
    /\ IsFiniteSet(Consignees) /\ Sanctioned \subseteq Consignees
    /\ {Mid, High, MaxShipments, DefaultLimit} \subseteq Nat /\ Mid <= High
    /\ SegmentFilters \subseteq
          [country : SUBSET Consignees, passes : SUBSET Consignees, atLeast : Nat, limit : Nat]
    /\ MailRequests \subseteq
          [channel : Channels \union {"portal", "sms"}, address : MailKinds,
           email : MailKinds \union {"none"}, consent : Consents, unsubscribe : BOOLEAN]

VARIABLES
    known,      \* shipments of each buyer in the store
    pushing,    \* the clients
    deliveryLog \* results of PushService, oldest first

campaignVars == <<known, pushing, deliveryLog>>

NoFilter == [country |-> Consignees, passes |-> Consignees, atLeast |-> 0, limit |-> DefaultLimit]
NoSegment == [reach |-> {}, blocked |-> {}]

-----------------------------------------------------------------------------
(* Segments. *)

Frequency(count) ==
    IF count = 0 THEN "unknown" ELSE IF count >= High THEN "high"
    ELSE IF count >= Mid THEN "mid" ELSE "low"

Stored(country) == {b \in country : known[b] > 0}

\* The buyers with the largest totals; the values are not modelled, so that
\* any may be among them.
TopBuyers(country, limit) ==
    IF Cardinality(Stored(country)) <= limit THEN {Stored(country)}
    ELSE {S \in SUBSET Stored(country) : Cardinality(S) = limit}

\* The segment of a cell among the buyers a filter lets pass.
Segment(cell, top, filter) ==
    LET members == {b \in top \cap filter.passes :
                       known[b] >= filter.atLeast /\ Frequency(known[b]) = cell}
    IN  [reach |-> members \ Sanctioned, blocked |-> members \cap Sanctioned]

AllOf(segment) == segment.reach \union segment.blocked

SegmentExists(segment) == AllOf(segment) # {}

OutreachReady(segment) == segment.reach # {}

-----------------------------------------------------------------------------
(* The gate and the push. *)

\* A refusal counts even for a push that names no email; the email counts only
\* when it is given, and then a link to unsubscribe must be too.  The address
\* is not looked at.
MailAllowed(r) ==
    r.email # "none" => r.consent # "refused" /\ r.email # "free" /\ r.unsubscribe

\* From the segment to the call of the channel nothing is awaited.
Decision(r, segment) ==
    IF r.channel \notin Channels \union {"portal"} THEN "400"
    ELSE IF ~OutreachReady(segment) THEN "refused"
    ELSE IF r.channel = "email" /\ ~MailAllowed(r) THEN "refused" ELSE "sending"

\* Email and IM are stubs that succeed; a webhook (and a portal, which is
\* routed as one) may fail.
PushOutcomes(channel) == IF channel \in {"email", "im"} THEN {TRUE} ELSE BOOLEAN

CampaignInit ==
    /\ known = [b \in Consignees |-> 0]
    /\ pushing = [q \in Pushes |-> [pc |-> "new"]]
    /\ deliveryLog = <<>>

\* An ingest brings one more shipment of a buyer.
Collected(b) ==
    /\ known[b] < MaxShipments
    /\ known' = [known EXCEPT ![b] = @ + 1]
    /\ UNCHANGED <<pushing, deliveryLog>>

\* GET /segments: the client picks one of those shown.
ListSegments(q) ==
    /\ pushing[q].pc = "new"
    /\ \E filter \in SegmentFilters, cell \in {"low", "mid", "high"} :
          \E top \in TopBuyers(filter.country, filter.limit) :
             LET s == Segment(cell, top, filter)
             IN  /\ SegmentExists(s)
                 /\ pushing' = [pushing EXCEPT ![q] =
                       [pc |-> "listed", cell |-> cell, filter |-> filter, shown |-> AllOf(s)]]
    /\ UNCHANGED <<known, deliveryLog>>

\* POST /push of the segment the client picked, with the filter it had.
AskPush(q) ==
    /\ pushing[q].pc = "listed"
    /\ \E mail \in MailRequests :
          pushing' = [pushing EXCEPT ![q] =
             [pc |-> "filtered", cell |-> pushing[q].cell, filter |-> pushing[q].filter,
              shown |-> pushing[q].shown, mail |-> mail, segment |-> NoSegment]]
    /\ UNCHANGED <<known, deliveryLog>>

\* What a search finds is decided about at once; else `missing' comes next.
Search(q, filter, missing) ==
    /\ \E top \in TopBuyers(filter.country, filter.limit) :
          LET s == Segment(pushing[q].cell, top, filter)
          IN  pushing' = [pushing EXCEPT
                 ![q].pc = IF SegmentExists(s) THEN Decision(pushing[q].mail, s) ELSE missing,
                 ![q].segment = s]
    /\ UNCHANGED <<known, deliveryLog>>

\* Mutant of FindFiltered: the searches come in the other order.
FindUnfiltered(q) == pushing[q].pc = "filtered" /\ Search(q, NoFilter, "any")

\* The store is read with the filter first, then without: buyers the filter
\* leaves out are reached when nothing else is found.
FindFiltered(q) == pushing[q].pc = "filtered" /\ Search(q, pushing[q].filter, "any")

FindAny(q) == pushing[q].pc = "any" /\ Search(q, NoFilter, "404")

\* PushService.push: the channel, then the log.
DeliverPush(q) ==
    /\ pushing[q].pc = "sending"
    /\ \E ok \in PushOutcomes(pushing[q].mail.channel) :
          /\ pushing' = [pushing EXCEPT ![q].pc = IF ok THEN "sent" ELSE "failed"]
          /\ deliveryLog' = Append(deliveryLog, [by |-> q, to |-> pushing[q].mail.address, success |-> ok])
    /\ UNCHANGED known

CampaignNext ==
    \/ \E b \in Consignees : Collected(b)
    \/ \E q \in Pushes : ListSegments(q) \/ AskPush(q) \/ FindFiltered(q) \/ FindAny(q) \/ DeliverPush(q)

CampaignSpec == CampaignInit /\ [][CampaignNext]_campaignVars

-----------------------------------------------------------------------------
(* Properties. *)

\* Buyers a client was shown that are still in the cell it picked.
StillShown(q) == {b \in pushing[q].shown : Frequency(known[b]) = pushing[q].cell}

\* What is pushed is what the client was shown, whatever ingests did between
\* the listing, the two searches and the delivery: unless the filter's limit
\* hides some of the stored buyers, the segment has every buyer shown that is
\* still in its cell, and as long as there is one it has nobody that the
\* filter leaves out (_find_segment, customs_campaign_router.py:120).
PushedWasShown ==
    \A q \in Pushes : pushing[q].pc \in {"404", "400", "refused", "sending", "sent", "failed"} =>
        LET r == pushing[q]
        IN  Cardinality(Stored(r.filter.country)) <= r.filter.limit =>
                /\ StillShown(q) \subseteq AllOf(r.segment)
                /\ StillShown(q) # {} => AllOf(r.segment) \subseteq r.filter.passes
=============================================================================
