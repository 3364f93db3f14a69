----------------------------- MODULE MCBusiness -----------------------------
(* The customs store, the campaigns, the reports, the HR agent and the       *)
(* collection of intelligence for TLC.  They share no state, so a behaviour  *)
(* is of one of them: `focus' says which.                                    *)
EXTENDS CustomsStore, Campaign, Reports, HR, Collection, TLC

CONSTANTS b1, b2, c1, c2, c3, ShortHistory

VARIABLE focus

TwoManifests == {<<b1>>, <<b1, b2, Nameless, b1>>}

\* Filters that leave one buyer out, ask for more shipments, or read too few.
ListFilters ==
    {[NoFilter EXCEPT !.passes = {c1, c2}, !.limit = 3], [NoFilter EXCEPT !.atLeast = 2, !.limit = 3],
     [NoFilter EXCEPT !.country = {c2, c3}, !.limit = 1], [NoFilter EXCEPT !.country = {c1, c3}]}
Mail(channel, email, consent, link) ==
    [channel |-> channel, address |-> "free", email |-> email, consent |-> consent, unsubscribe |-> link]
SomeMail ==
    {Mail("email", "none", "unsaid", FALSE), Mail("email", "corporate", "given", TRUE),
     Mail("email", "corporate", "refused", TRUE), Mail("email", "free", "given", TRUE)}
    \union {Mail(channel, "none", "unsaid", FALSE) : channel \in {"im", "portal", "sms"}}

Employee(status, years, key, levels) ==
    [status |-> status, years |-> years, title |-> "t", key |-> key, flagged |-> ~key, salary |-> 600,
     levels |-> levels, reviews |-> <<>>]
\* Ten reviews of 70.0: the next one is the eleventh.
Veteran == [Employee("active", 9, TRUE, [c \in {"c", "d"} |-> 3])
              EXCEPT !.reviews = [n \in 1..10 |-> [score |-> 7000, met |-> TRUE]]]
Level3 == [c \in {"c", "d"} |-> 3]
Level2 == [c \in {"c", "d"} |-> 2]

\* Pairs who differ in what they can do, and pairs who differ in the rest.
Departments ==
    {"m" :> Employee("active", 1, FALSE, levels) @@ "n" :> Employee("active", 2, FALSE, Level3)
        : levels \in [{"c", "d"} -> {0, 2, 5}]}
    \union {"m" :> Employee(status, years, key, Level3) @@ "n" :> Employee("active", 2, FALSE, Level2)
        : status \in {"active", "probation"}, years \in {0, 5}, key \in BOOLEAN}
\* A third with the same title: pairs and holders are no longer as many.
    \union {"m" :> Employee("active", 2, FALSE, Level3) @@ "n" :> Employee("active", 2, FALSE, Level2)
        @@ "o" :> Employee("active", 3, FALSE, Level3)}
    \union {<<>>, "m" :> Veteran}
Requirement(level, weight) == [level |-> level, weight |-> weight]
Positions == [{"c", "d"} -> {Requirement(1, 2), Requirement(3, 1), Requirement(4, 0), Requirement(4, 2)}]

Shape(words, length, cites) == [words |-> words, length |-> length, cites |-> cites]
TextShapes ==
    {Shape(30, 190, "nothing"), Shape(80, 400, "doi"), Shape(200, 1200, "nothing"), Shape(200, 1200, "link")}
Host(rank) == [rank |-> rank, parts |-> 4, digits |-> TRUE, long |-> TRUE]
SomeHosts == {Host(rank) : rank \in {"high", "low", "none", "other", "public"}}
SomePatterns == {NothingFound, [marker |-> 3, transition |-> 2, injection |-> 1] @@ NothingFound}

\* A phone, an identity card that a phone is found in, one it is not, and one that ends in X.
Phone == <<1, 3, 8, 1, 2, 3, 4, 5, 6, 7, 8>>
IdCard == <<1, 1, 0, 1, 0, 1, 1, 9, 9, 0, 0, 1, 0, 1, 1, 2, 3, 4>>
OtherIdCard == <<3, 1, 0, 1, 0, 1, 2, 0, 0, 0, 0, 2, 0, 2, 0, 2, 3, 4>>
IdCardX == [OtherIdCard EXCEPT ![18] = CheckX]

Written30(found) == [shape |-> Shape(30, 190, "nothing"), host |-> Host("other"), found |-> found @@ NothingFound]
Polluted == Written30([marker |-> 3, transition |-> 2, even |-> 2, injection |-> 1, citation |-> 3])
Content(length, number, mail, text) == [length |-> length, number |-> number, mail |-> mail, text |-> text]
Contents ==
    [a |-> Content(60, Phone, FALSE, Written30(<<>>)), b |-> Content(20, IdCard, FALSE, Polluted),
     c |-> Content(170, IdCardX, TRUE, Polluted), empty |-> Content(0, <<>>, FALSE, Written30(<<>>))]
Listing(content, titled, fields) ==
    [content |-> content, titled |-> titled, title |-> <<>>, note |-> <<>>, fields |-> fields]
TwoFeeds ==
    <<<<Listing("c", TRUE, 0), Listing("b", FALSE, 1), [Listing("empty", TRUE, 3) EXCEPT !.note = Phone],
        Listing("a", FALSE, 0), Listing("b", TRUE, 5)>>,
      <<[Listing("empty", TRUE, 5) EXCEPT !.title = OtherIdCard], Listing("c", TRUE, 0),
        [Listing("a", TRUE, 2) EXCEPT !.note = IdCard], Listing("empty", TRUE, 5)>>>>

BusinessInit ==
    /\ CustomsInit /\ CampaignInit /\ ReportsInit /\ HRInit /\ CollectionInit /\ GeoInit
    /\ focus \in {"customs", "campaign", "reports", "hr", "collection", "geo"}
    /\ focus # "hr" => staff = <<>>
    /\ geo.more = IF focus = "geo" THEN MaxSignals ELSE 0
    /\ focus # "geo" => geo.found = NothingFound /\ geo.shape.words = 30 /\ geo.host.rank = "low"

\* Bounds.  Nobody but a veteran gets more than ShortHistory reviews.  No score
\* reads the simulated layoff, which is followed while there is at most one review.
Reviews == Sum([e \in Employees |-> Len(staff[e].reviews)])
Focus ==
    /\ plan # NoPlan => Reviews <= 1
    /\ (\A e \in Employees : staff[e].years < 9) => Reviews <= ShortHistory

BusinessNext ==
    /\ \/ focus = "customs" /\ CustomsNext /\ UNCHANGED <<campaignVars, reportVars, hrVars, collectionVars, geoVars>>
       \/ focus = "campaign" /\ CampaignNext /\ UNCHANGED <<customsVars, reportVars, hrVars, collectionVars, geoVars>>
       \/ focus = "reports" /\ ReportsNext /\ UNCHANGED <<customsVars, campaignVars, hrVars, collectionVars, geoVars>>
       \/ focus = "hr" /\ HRNext /\ Focus'
            /\ UNCHANGED <<customsVars, campaignVars, reportVars, collectionVars, geoVars>>
       \/ focus = "collection" /\ CollectionNext
            /\ UNCHANGED <<customsVars, campaignVars, reportVars, hrVars, geoVars>>
       \/ focus = "geo" /\ GeoNext /\ UNCHANGED <<customsVars, campaignVars, reportVars, hrVars, collectionVars>>
    /\ UNCHANGED focus

BusinessSpec ==
    /\ BusinessInit
    /\ [][BusinessNext]_<<customsVars, campaignVars, reportVars, hrVars, collectionVars, geoVars, focus>>

Symmetry == Permutations(Ingests)
=============================================================================
