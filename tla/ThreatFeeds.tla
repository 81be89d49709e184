----------------------------- MODULE ThreatFeeds -----------------------------
(***************************************************************************)
(* Threat intelligence: workers.py's FeedRefresher and fetch_feed, the     *)
(* imports and switches of the dashboard, and threatintel.py's IOCMatcher. *)
(* A fetch or import looks every indicator up and inserts the new ones in  *)
(* one transaction; on PostgreSQL nothing keeps two of them apart, SQLite  *)
(* allows fewer interleavings.  What a feed's URL returns is external.     *)
(***************************************************************************)
EXTENDS Integers, Sequences, FiniteSets, FiniteSetsExt

CONSTANTS Fetchers,   \* dashboard processes: a refresher or a request each
          Indicators, \* (ioc_type, value_norm)
          FeedItems,  \* feed, 1..n in table order -> indicators in its text
          Rejected,   \* indicators the database refuses to store
          MaxEdits,   \* bound on imports, fetches on demand and switches
          MaxSlips    \* bound on failing downloads, errors and crashes
ASSUME FeedAssumption == /\ "free" \notin Fetchers /\ Rejected \subseteq Indicators
                         /\ FeedItems \in Seq(SUBSET Indicators)
                         /\ {MaxEdits, MaxSlips} \subseteq Nat

VARIABLES
  iocs,       \* indicator -> [on, off]: its enabled and disabled rows
  due,        \* feeds whose refresh interval has elapsed
  fetcher,    \* per process: [at, queue, todo, item, new]; a queue of feeds,
              \* {0} for an import
  refreshing, \* owner of the lease "feed-refresher", or "free"
  index,      \* the indicators the matcher has loaded
  hit,        \* the matcher: [at, todo, item]
  bare,       \* history: matches that have no alert
  edits, slips,
  overlap     \* history: two fetches or imports ran at once
feedVars == <<iocs, due, fetcher, refreshing, index, hit, bare,
              edits, slips, overlap>>

Feeds == DOMAIN FeedItems
NoFetch == [at |-> "idle", queue |-> {}, todo |-> {}, item |-> {}, new |-> {}]
NoMatch == [at |-> "idle", todo |-> {}, item |-> {}]
FeedInit ==
  /\ iocs = [i \in Indicators |-> [on |-> 0, off |-> 0]] /\ due \in {{}, Feeds}
  /\ fetcher = [p \in Fetchers |-> NoFetch] /\ refreshing = "free"
  /\ index = {} /\ hit = NoMatch
  /\ bare = 0 /\ edits = 0 /\ slips = 0 /\ overlap = FALSE

Step(p, f) == fetcher' = [fetcher EXCEPT ![p] = f]
Matching == <<index, hit, bare>>
Others(p) == \E q \in Fetchers \ {p} : fetcher[q].at \in {"select", "insert"}
Edit == edits < MaxEdits /\ edits' = edits + 1
Slip == slips < MaxSlips /\ slips' = slips + 1

IntervalEnds(f) ==
  /\ f \notin due /\ due' = due \cup {f}
  /\ UNCHANGED <<iocs, fetcher, refreshing, Matching, edits, slips, overlap>>
\* _cycle and the SELECT of run_once
Refresh(p) ==
  /\ fetcher[p].at = "idle" /\ refreshing \in {p, "free"} /\ due # {}
  /\ refreshing' = p /\ Step(p, [NoFetch EXCEPT !.at = "next", !.queue = due])
  /\ UNCHANGED <<iocs, due, Matching, edits, slips, overlap>>
\* POST /api/ioc-feeds/<id>/fetch
FetchNow(p, f) ==
  /\ fetcher[p].at = "idle" /\ Edit
  /\ Step(p, [NoFetch EXCEPT !.at = "next", !.queue = {f}])
  /\ UNCHANGED <<iocs, due, refreshing, Matching, slips, overlap>>
\* POST /api/iocs and /api/iocs/import
Import(p, items) ==
  /\ fetcher[p].at = "idle" /\ Edit /\ overlap' = (overlap \/ Others(p))
  /\ Step(p, [NoFetch EXCEPT !.at = "select", !.queue = {0}, !.todo = items])
  /\ UNCHANGED <<iocs, due, refreshing, Matching, slips>>

Feed(p) == Min(fetcher[p].queue)
Onward(p) == IF fetcher[p].queue = {Feed(p)} THEN NoFetch
             ELSE [NoFetch EXCEPT !.at = "next", !.queue = fetcher[p].queue \ {Feed(p)}]
Download(p) ==
  /\ fetcher[p].at = "next" /\ overlap' = (overlap \/ Others(p))
  /\ Step(p, [fetcher[p] EXCEPT !.at = "select", !.todo = FeedItems[Feed(p)]])
  /\ UNCHANGED <<iocs, due, refreshing, Matching, edits, slips>>
\* an error is stored with the time of the fetch
DownloadFails(p) ==
  /\ fetcher[p].at = "next" /\ Slip
  /\ due' = due \ {Feed(p)} /\ Step(p, Onward(p))
  /\ UNCHANGED <<iocs, refreshing, Matching, edits, overlap>>
\* the SELECT sees committed rows, enabled or not, and its own
Known(p, i) == iocs[i].on + iocs[i].off > 0 \/ i \in fetcher[p].new
LookUp(p) ==
  /\ fetcher[p].at = "select"
  /\ \E i \in fetcher[p].todo :
       Step(p, [fetcher[p] EXCEPT !.todo = @ \ {i}, !.item = {i},
                                  !.at = IF Known(p, i) THEN "select" ELSE "insert"])
  /\ UNCHANGED <<iocs, due, refreshing, Matching, edits, slips, overlap>>
\* an INSERT that raises ends the fetch, and the cycle with it
InsertIoc(p) ==
  LET f == fetcher[p] IN
  /\ f.at = "insert"
  /\ Step(p, IF f.item \subseteq Rejected THEN NoFetch
             ELSE [f EXCEPT !.at = "select", !.new = @ \cup f.item])
  /\ UNCHANGED <<iocs, due, refreshing, Matching, edits, slips, overlap>>
Store(i, new) == IF i \in new /\ iocs[i].on < 2 THEN [iocs[i] EXCEPT !.on = @ + 1] ELSE iocs[i]
CommitFeed(p) ==
  /\ fetcher[p].at = "select" /\ fetcher[p].todo = {}
  /\ iocs' = [i \in Indicators |-> Store(i, fetcher[p].new)]
  /\ due' = due \ {Feed(p)} /\ Step(p, Onward(p))
  /\ UNCHANGED <<refreshing, Matching, edits, slips, overlap>>
\* an error or a crash; the lease expires
Break(p) ==
  /\ fetcher[p].at # "idle" /\ Slip /\ Step(p, NoFetch)
  /\ UNCHANGED <<iocs, due, refreshing, Matching, edits, overlap>>
LeaseLapses ==
  /\ refreshing # "free" /\ refreshing' = "free"
  /\ \/ fetcher[refreshing].at = "idle" /\ UNCHANGED slips
     \/ Slip
  /\ UNCHANGED <<iocs, due, fetcher, Matching, edits, overlap>>

\* PUT and DELETE /api/iocs/<id>, POST /api/iocs/clear
Switch(i) ==
  /\ Edit
  /\ \/ iocs[i].on > 0 /\ iocs' = [iocs EXCEPT ![i] = [on |-> @.on - 1, off |-> @.off + 1]]
     \/ iocs[i].off > 0 /\ iocs' = [iocs EXCEPT ![i] = [on |-> @.on + 1, off |-> @.off - 1]]
     \/ iocs[i].on > 0 /\ iocs' = [iocs EXCEPT ![i].on = @ - 1]
     \/ iocs[i].off > 0 /\ iocs' = [iocs EXCEPT ![i].off = @ - 1]
  /\ UNCHANGED <<due, fetcher, refreshing, Matching, slips, overlap>>
ClearIocs ==
  /\ Edit /\ iocs' = [i \in Indicators |-> [on |-> 0, off |-> 0]]
  /\ UNCHANGED <<due, fetcher, refreshing, Matching, slips, overlap>>

Fetching == <<iocs, due, fetcher, refreshing, edits, overlap>>
Reload ==
  /\ index' = {i \in Indicators : iocs[i].on > 0}
  /\ UNCHANGED <<Fetching, hit, bare, slips>>
\* process(): an event that mentions some indicators
Check(mentioned) ==
  /\ hit.at = "idle" /\ mentioned \subseteq index /\ mentioned # {}
  /\ hit' = [at |-> "record", todo |-> mentioned, item |-> {}]
  /\ UNCHANGED <<Fetching, index, bare, slips>>
\* _record: the match is committed, then insert_alert is called
RecordedOnly(i) == [at |-> "record", todo |-> hit.todo \ {i}, item |-> {}]
Recorded(i) == [at |-> "warn", todo |-> hit.todo \ {i}, item |-> {i}]
Record ==
  \E i \in hit.todo :
    /\ hit.at = "record" /\ hit' = Recorded(i)
    /\ bare' = bare + 1
    /\ UNCHANGED <<Fetching, index, slips>>
Warn ==
  /\ hit.at = "warn"
  /\ bare' = bare - 1
  /\ hit' = IF hit.todo = {} THEN NoMatch ELSE [hit EXCEPT !.at = "record", !.item = {}]
  /\ UNCHANGED <<Fetching, index, slips>>
\* the database raises in between: the indicators left are not looked at
MatchRaises ==
  /\ hit.at # "idle" /\ Slip /\ hit' = NoMatch
  /\ UNCHANGED <<Fetching, index, bare>>

FetchStep(p) == \/ Refresh(p) \/ Download(p) \/ LookUp(p) \/ InsertIoc(p) \/ CommitFeed(p)
FeedNext ==
  \/ \E f \in Feeds : IntervalEnds(f) \/ \E p \in Fetchers : FetchNow(p, f)
  \/ \E p \in Fetchers : \/ FetchStep(p) \/ DownloadFails(p) \/ Break(p)
                         \/ \E items \in SUBSET Indicators : Import(p, items)
  \/ LeaseLapses \/ ClearIocs \/ \E i \in Indicators : Switch(i)
  \/ Reload \/ Record \/ Warn \/ MatchRaises
  \/ \E mentioned \in SUBSET Indicators : Check(mentioned)
FeedSpec == FeedInit /\ [][FeedNext]_feedVars
\* the loops go on, every ten minutes, and a lease expires
FeedFair == /\ WF_feedVars(\E p \in Fetchers : FetchStep(p))
            /\ WF_feedVars(LeaseLapses /\ UNCHANGED slips)

FeedTypeOK ==
  /\ \A i \in Indicators : iocs[i] \in [on : Nat, off : Nat]
  /\ due \subseteq Feeds /\ refreshing \in Fetchers \cup {"free"} /\ index \subseteq Indicators
  /\ \A p \in Fetchers : /\ fetcher[p].at \in {"idle", "next", "select", "insert"}
                         /\ fetcher[p].at = "idle" <=> fetcher[p].queue = {}
  /\ edits \in 0..MaxEdits /\ slips \in 0..MaxSlips

(* An indicator has one row, enabled or not, so that switching it off holds *)
(* against every later refresh, unless two fetches or imports overlapped.   *)
OneRowPerIndicator == ~overlap => \A i \in Indicators : iocs[i].on + iocs[i].off <= 1
(* Every match that was committed has its alert, but for those that an      *)
(* error cut off, one each; and no alert is without its match.              *)
MatchesAreWarned == bare - Cardinality(hit.item) \in 0..slips
(* An indicator is one row, a match one alert.                              *)
IndicatorsConsistent == OneRowPerIndicator /\ MatchesAreWarned
(* A feed that is due gets its turn, as long as no feed before it is one    *)
(* the database rejects.                                                    *)
Healthy(f) == \A g \in 1..f : FeedItems[g] \cap Rejected = {}
FeedsGetTheirTurn == \A f \in Feeds : Healthy(f) => []<>(f \notin due)
=============================================================================
