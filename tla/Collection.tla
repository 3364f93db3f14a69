----------------------------- MODULE Collection -----------------------------
(***************************************************************************)
(* The collection of intelligence: a source is fetched (page by page, feed *)
(* by feed), what came is cleaned, and what is left becomes a dataset      *)
(* (data_agent/router.py, integration.py, pipeline.py, cleaning.py and the *)
(* scrapers).                                                              *)
(***************************************************************************)
EXTENDS GeoGuard, Filters

CONSTANTS
    Collects,       \* requests
    Feeds,          \* what the source lists, one sequence of items per route
    About,          \* of each content: a number in it, a mail address, its text, what is left of its length
    Wanted,         \* values of max_items
    PageSize,       \* per_page of the API scraper (50)
    MaxApiPages,    \* its max_pages (20)
    MaxRetries,     \* of the HTTP scraper (3)
    Newer           \* items published while the source is fetched

ASSUME CollectionAssumption ==
    /\ Wanted \subseteq Nat \ {0} /\ {PageSize, MaxApiPages} \subseteq Nat \ {0} /\ MaxRetries \in Nat
    /\ Feeds \in Seq(Range(Feeds)) /\ Feeds # <<>> /\ Newer \in 0..Len(Feeds[1])
    /\ \A n \in DOMAIN Feeds : /\ Feeds[n] \in Seq(Range(Feeds[n]))
                             /\ Range(Feeds[n]) \subseteq [content : DOMAIN About, titled : BOOLEAN,
                                    title : Seq(Numerals), note : Seq(Numerals), fields : Nat]
    /\ \A content \in DOMAIN About :
          About[content].number \in Seq(Numerals) /\ About[content].mail \in BOOLEAN

VARIABLES
    unseen,     \* items of the first feed that are not published yet
    collecting, \* the requests
    datastore   \* _datastore: the datasets, oldest first

collectionVars == <<unseen, collecting, datastore>>

Empty == "empty"
Sources == {"api", "rss", "rsshub", "web", "crawl4ai"}
Entrances == {"portal", "collectTool", "pipelineTool"}
NewCollect ==
    [pc |-> "new", via |-> "portal", source |-> "api", max |-> 1, since |-> 0,
     turn |-> 1, missed |-> 0, got |-> <<>>, success |-> FALSE, count |-> 0]

Becomes(c, r) == collecting' = [collecting EXCEPT ![c] = r]
Listed(route) == IF route = 1 THEN SubSeq(Feeds[1], unseen + 1, Len(Feeds[1])) ELSE Feeds[route]
FirstOf(s, n) == SubSeq(s, 1, Min({n, Len(s)}))
Written(s) == Keep(s, {item \in Range(s) : item.content # Empty})

-----------------------------------------------------------------------------
(* Cleaning. *)

\* Mutant of Seen: empty contents count as seen too.
SeenEmpty(seen, item) == item.content \in seen

\* Items are told apart before they are normalised; those without content never are.
Seen(seen, item) == item.content # Empty /\ item.content \in seen

QualityOf(item) == Assess(item.titled, About[item.content].length, item.fields)
Keeps(item) == GoodEnough(QualityOf(item), About[item.content].text)

NothingCleaned == [seen |-> {}, items |-> <<>>, duplicates |-> 0, masked |-> 0, flagged |-> 0]

\* One item more, the n-th.  What its metadata notes is stored as it came.
CleanItem(run, item, n) ==
    LET number == MaskPii(About[item.content].number)
        title == MaskPii(item.title)
        hides == number # About[item.content].number \/ About[item.content].mail \/ title # item.title
        marked == [run EXCEPT !.seen = @ \union {item.content}, !.masked = @ + When(hides, 1),
                              !.flagged = @ + When(Flagged(About[item.content].text), 1)]
    IN  IF Seen(run.seen, item) THEN [run EXCEPT !.duplicates = @ + 1]
        ELSE IF ~Keeps(item) THEN marked
        ELSE [marked EXCEPT !.items = Append(@, [at |-> n, number |-> number, title |-> title,
                                                 note |-> item.note, masked |-> hides])]

\* CleaningPipeline.run, after each of the items.
Cleaned(got) ==
    LET run[n \in 0..Len(got)] ==
          IF n = 0 THEN NothingCleaned
          ELSE LET before == run[n - 1] IN CleanItem(before, got[n], n)
    IN  run

Clean(got) == Cleaned(got)[Len(got)]

\* _build_quality_report: without items the masked ones are not counted.
Report(got) ==
    LET run == Clean(got)
    IN  [total |-> Len(got), valid |-> Len(run.items), duplicates |-> run.duplicates,
         flagged |-> run.flagged, masked |-> IF run.items = <<>> THEN 0 ELSE run.masked]

\* Whatever asks for items gets those of all datasets, or, until there is one, demo items.
AllItems == JoinOf([n \in DOMAIN datastore |-> datastore[n].items])
ListItems(limit) == IF AllItems = <<>> THEN "demo" ELSE FirstOf(AllItems, limit)
DemoOverview == [items |-> 30, sources |-> 5]
Overview == IF AllItems = <<>> THEN DemoOverview ELSE [items |-> Len(AllItems), sources |-> Len(datastore)]

\* The report of a stored dataset is made anew, from what is stored.
StoredReport(n) ==
    LET items == datastore[n].items
    IN  [total |-> Len(items), masked |-> Len(Keep(items, {item \in Range(items) : item.masked}))]

-----------------------------------------------------------------------------
(* What ends a request. *)

\* Nothing is stored of an extraction alone, nor of one that found nothing.
Load(c, got) ==
    datastore' =
        IF collecting[c].via = "collectTool" \/ got = <<>> THEN datastore
        ELSE Append(datastore, [by |-> c, items |-> Clean(got).items, report |-> Report(got)])

Extracted(c, got) ==
    /\ Becomes(c, [collecting[c] EXCEPT !.pc = "answered", !.got = got, !.success = TRUE,
            !.count = IF collecting[c].via = "collectTool" THEN Len(got) ELSE Len(Clean(got).items)])
    /\ Load(c, got)

\* ScrapingError.  The pipeline turns it into a result without items, which the
\* portal answers as a success; the collect tool does not catch it.
ExtractFailed(c) ==
    /\ Becomes(c, [collecting[c] EXCEPT !.pc = IF collecting[c].via = "collectTool" THEN "raised" ELSE "answered",
                                        !.success = collecting[c].via = "portal"])
    /\ UNCHANGED datastore

-----------------------------------------------------------------------------

CollectionInit ==
    /\ unseen = Newer
    /\ collecting = [c \in Collects |-> NewCollect]
    /\ datastore = <<>>

Publish == unseen > 0 /\ unseen' = unseen - 1 /\ UNCHANGED <<collecting, datastore>>

RequestCollect(c) ==
    /\ collecting[c].pc = "new"
    /\ \E via \in Entrances, source \in Sources, max \in Wanted :
        Becomes(c, [collecting[c] EXCEPT !.pc = "fetching", !.via = via, !.source = source, !.max = max,
                                         !.since = unseen])
    /\ UNCHANGED <<unseen, datastore>>

\* An unknown type, no url, or max_items outside its range.
RefuseCollect(c) ==
    /\ collecting[c].pc = "new"
    /\ Becomes(c, [collecting[c] EXCEPT !.pc = "refused"])
    /\ UNCHANGED <<unseen, datastore>>

Fetching(c, source) == collecting[c].pc = "fetching" /\ collecting[c].source = source

PerPage(c) == Min({PageSize, collecting[c].max - Len(collecting[c].got)})

\* The source cuts its listing by the page and per_page it is given.
PageRecords(c) ==
    LET last == collecting[c].turn * PerPage(c)
    IN  SubSeq(Listed(1), last - PerPage(c) + 1, Min({last, Len(Listed(1))}))

\* APIScraper.fetch, one page; the source may tell its total.
FetchApiPage(c) ==
    /\ Fetching(c, "api")
    /\ LET got == collecting[c].got \o PageRecords(c)
       IN  \E total \in {Len(Listed(1)), Len(got) + 1} :
            IF \/ Len(PageRecords(c)) < PerPage(c) \/ Len(got) >= total
               \/ Len(got) >= collecting[c].max \/ collecting[c].turn = MaxApiPages
            THEN Extracted(c, got)
            ELSE Becomes(c, [collecting[c] EXCEPT !.got = got, !.turn = @ + 1]) /\ UNCHANGED datastore
    /\ UNCHANGED unseen

\* A failed page ends the fetch with what there is; one that is not JSON loses it.
PageFails(c) ==
    /\ Fetching(c, "api")
    /\ \/ collecting[c].got # <<>> /\ Extracted(c, collecting[c].got)
       \/ ExtractFailed(c)
    /\ UNCHANGED unseen

FeedItems(c, route) == Written(FirstOf(Listed(route), collecting[c].max))

FetchFeed(c) == Fetching(c, "rss") /\ Extracted(c, FeedItems(c, 1)) /\ UNCHANGED unseen

\* The articles of a page are cut to max_items before or after those without a
\* text are left out: selectolax and the fallback differ.
FetchWebPage(c) ==
    /\ Fetching(c, "web")
    /\ \E got \in {FeedItems(c, 1), FirstOf(Written(Listed(1)), collecting[c].max)} : Extracted(c, got)
    /\ UNCHANGED unseen

\* A page becomes one item, with the browser or, where it is not installed,
\* without.  There is no fallback once the browser has failed: what
\* _fetch_crawl4ai raises is not what fetch catches.
CrawlPage(c) ==
    /\ Fetching(c, "crawl4ai")
    /\ Extracted(c, Written(FirstOf(Listed(1), 1)))
    /\ UNCHANGED unseen

\* retry_async: only a call that raised is repeated, a status is not.
RetryPage(c) ==
    /\ Fetching(c, "web") /\ collecting[c].turn <= MaxRetries
    /\ Becomes(c, [collecting[c] EXCEPT !.turn = @ + 1])
    /\ UNCHANGED <<unseen, datastore>>

FetchFails(c) ==
    /\ Fetching(c, "rss") \/ Fetching(c, "web") \/ Fetching(c, "crawl4ai")
    /\ ExtractFailed(c)
    /\ UNCHANGED unseen

\* RSSHubScraper.fetch: the routes one after the other, a failed one is left
\* out; max_items is the limit of each.
FetchRoute(c) ==
    /\ Fetching(c, "rsshub")
    /\ LET route == collecting[c].turn
       IN  \E came \in BOOLEAN :
            LET got == IF came THEN collecting[c].got \o FeedItems(c, route) ELSE collecting[c].got
                missed == collecting[c].missed + When(~came, 1)
            IN  IF route < Len(Feeds)
                THEN /\ Becomes(c, [collecting[c] EXCEPT !.got = got, !.missed = missed, !.turn = route + 1])
                     /\ UNCHANGED datastore
                ELSE IF got = <<>> /\ missed > 0 THEN ExtractFailed(c) ELSE Extracted(c, got)
    /\ UNCHANGED unseen

CollectionNext ==
    \/ Publish
    \/ \E c \in Collects :
        \/ RequestCollect(c) \/ RefuseCollect(c)
        \/ FetchApiPage(c) \/ PageFails(c) \/ FetchFeed(c) \/ FetchWebPage(c) \/ CrawlPage(c)
        \/ RetryPage(c) \/ FetchFails(c) \/ FetchRoute(c)

\* The guard keeps nothing: its walk over texts and the requests go on side by side.
CollectionSpec ==
    /\ CollectionInit /\ GeoInit
    /\ [][\/ CollectionNext /\ UNCHANGED geoVars
          \/ GeoNext /\ UNCHANGED collectionVars]_<<collectionVars, geoVars>>

-----------------------------------------------------------------------------
(* Properties. *)

Occurs(s, part) == \E n \in 0..(Len(s) - Len(part)) : SubSeq(s, n + 1, n + Len(part)) = part

(* A dataset has every item that came, in the order in which they came, but *)
(* for those whose content came before and those that are not good enough;  *)
(* its report accounts for all of them, and the report made anew from what  *)
(* is stored agrees, but for numbers masked in items that were not kept     *)
(* (cleaning.py:185-258, integration.py:163-199).                           *)
DatasetsSound ==
    \A n \in DOMAIN datastore :
        LET got == collecting[datastore[n].by].got
            again == {k \in DOMAIN got : \E j \in 1..(k - 1) :
                        got[j].content = got[k].content /\ got[k].content # Empty}
            kept == {k \in DOMAIN got \ again : Keeps(got[k])}
            items == datastore[n].items
        IN  /\ {items[k].at : k \in DOMAIN items} = kept
            /\ \A j, k \in DOMAIN items : j < k => items[j].at < items[k].at
            /\ datastore[n].report.duplicates = Cardinality(again)
            /\ datastore[n].report.valid = Cardinality(kept)
            /\ StoredReport(n).total = datastore[n].report.valid
            /\ StoredReport(n).masked <= datastore[n].report.masked

(* The portal counts the items of all reports and lists no others; a demo   *)
(* item is never among collected ones (router.py:155-236, 300-322).         *)
PortalShowsStored ==
    LET valid == SumOf([n \in DOMAIN datastore |-> datastore[n].report.valid])
    IN  IF valid = 0 THEN Overview = DemoOverview /\ ListItems(3) = "demo"
        ELSE Overview = [items |-> valid, sources |-> Len(datastore)] /\ Len(ListItems(3)) = Min({3, valid})

\* What stands alone is a phone, or an identity card.
Personal(number) == IsPhone(number) \/ IsIdCard(number)
Conceals(stored, number) == Personal(number) => ~Occurs(stored, number)

(* A phone or an identity card that stands alone in a text or a title is    *)
(* not found in what is stored of it, an identity card that was taken for a *)
(* phone first among them.  It is of these two only: of a longer run of     *)
(* digits a phone may be left (138123413912345678 leaves 13912345678), and  *)
(* what an item's metadata notes is stored as it came (cleaning.py:41-80,   *)
(* 209-217, 244).                                                           *)
NumbersHidden ==
    \A n \in DOMAIN datastore : \A k \in DOMAIN datastore[n].items :
        LET item == datastore[n].items[k]
            came == collecting[datastore[n].by].got[item.at]
        IN  Conceals(item.number, About[came.content].number) /\ Conceals(item.title, came.title)

\* The first m records of a list, and a page that repeats those behind the from-th, up to the to-th.
Overlapped(list, m, from, to) == SubSeq(list, 1, m) \o SubSeq(list, from + 1, to)

(* The pages of an API leave nothing out, if nothing is published           *)
(* meanwhile: what was fetched is the beginning of what the source lists,   *)
(* and at most a last page that begins before the end of it.  That page is  *)
(* asked for in another size than the ones before, so that it repeats       *)
(* records instead of bringing those that follow; with a max_items that is  *)
(* a number of whole pages there is no such page (api_scraper.py:81-83).    *)
PagesMeet ==
    \A c \in Collects :
        LET r == collecting[c]
        IN  r.source = "api" /\ r.since = unseen =>
            \E m \in 0..Len(Listed(1)) : \E from \in 0..m : \E to \in 0..Len(Listed(1)) :
                /\ r.got = Overlapped(Listed(1), m, from, to)
                /\ r.max <= PageSize \/ r.max % PageSize = 0 => from = m

(* A request gets at most what it asked for, of each of its routes          *)
(* (rsshub_scraper.py:121), and an answer counts what was stored for it.    *)
WithinWanted ==
    /\ \A c \in Collects :
        Len(collecting[c].got) <= collecting[c].max * (IF collecting[c].source = "rsshub" THEN Len(Feeds) ELSE 1)
    /\ \A n \in DOMAIN datastore : collecting[datastore[n].by].count = Len(datastore[n].items)

(* The whole of it: datasets, listings, masking, pages and amounts agree    *)
(* with what the sources listed, and the guard weighs as it should          *)
(* (pipeline.py:70-140).                                                    *)
CollectionSound ==
    DatasetsSound /\ PortalShowsStored /\ NumbersHidden /\ PagesMeet /\ WithinWanted /\ GuardOnlyWeighs /\ SignalsOnlyRaise
=============================================================================
