------------------------------ MODULE WebCrawl ------------------------------
(* The breadth-first crawler of zscripts/helpers/web_crawl: frontier, robots,      *)
(* rate limiter, retries, persistence, and the health it reports.  A site is a  *)
(* graph of urls; time is kept as what is left of every wait.                   *)
EXTENDS Integers, Sequences, FiniteSets, Sublists

CONSTANTS
    Urls, Root,         \* links as normalise_link leaves them
    LinksOf,            \* [Urls -> the links of the page, in order]
    External,           \* urls of another domain
    NotHtml,            \* urls that answer with another content type
    TextOf,             \* [Urls -> the text of the page]
    FinalUrl,           \* [Urls -> where a request for it ends up]
    CrawlConfigs,       \* some of ConfigSpace
    Interval,           \* of the rate limiter
    RetryAfters,        \* what a failing answer may demand; 0 is no header
    Delays,             \* from a slot to its request: the hook, a sleep that is too long
    Unlimited           \* no max_depth, no max_pages

\* What a crawler is made with: urls closed by robots.txt, whether it has a rate
\* limiter and passes by known texts, whether it crawls again, and its limits.
ConfigSpace ==
    [closed : SUBSET Urls, limited : BOOLEAN, dedupe : BOOLEAN, again : BOOLEAN,
     depth : Nat \cup {Unlimited}, pages : Nat \cup {Unlimited}, retries : Nat, delay : Nat]

ASSUME CrawlAssumption ==
    Root \in Urls /\ Interval \in Nat \ {0} /\ RetryAfters \subseteq Nat /\ Delays \subseteq Nat
ASSUME SiteAssumption == LinksOf \in [Urls -> Seq(Urls)] /\ FinalUrl \in [Urls -> Urls]
ASSUME ConfigAssumption == CrawlConfigs \subseteq ConfigSpace

VARIABLES
    config,
    work,       \* where the loop is: "top", "ready" to send, "fetching", "persisting",
                \* "page", or how it ended
    frontier, seen, results, hashes,
    current,    \* the url in hand: [url, depth, attempt, delay, written, path]
    limiter,    \* [next, gate] : time left until each
    since,      \* time since the last request was sent, up to Interval
    late,       \* time from the slot of the last request until it was sent
    quiet,      \* time left that an answer asked to be left alone
    skips,      \* what was skipped and why
    abandoned,  \* urls given up
    disk,       \* [text, meta, index : urls whose files are whole or which are listed,
                \*  over : urls whose files were written over]
    health      \* the status that is reported

crawlVars == <<config, work, frontier, seen, results, hashes, current, limiter, since, late, quiet, skips,
               abandoned, disk, health>>

Running == {"top", "ready", "fetching", "persisting", "page"}
Entry(url, depth) == [url |-> url, depth |-> depth]
Nowhere == [url |-> Root, depth |-> 0, attempt |-> 0, delay |-> 0, written |-> 0,
            path |-> FALSE]

CrawlInit ==
    /\ config \in CrawlConfigs
    /\ work = "top"
    /\ frontier = <<Entry(Root, 0)>> /\ seen = {} /\ results = <<>> /\ hashes = {}
    /\ current = Nowhere
    /\ limiter = [next |-> 0, gate |-> 0]
    /\ since = Interval /\ late = 0 /\ quiet = 0
    /\ skips = {} /\ abandoned = {}
    /\ disk = [text |-> {}, meta |-> {}, index |-> {}, over |-> {}]
    /\ health = "running"

-----------------------------------------------------------------------------
(* Time and the rate limiter.                                                  *)

Least(m, n) == IF m < n THEN m ELSE n
Most(m, n) == IF m < n THEN n ELSE m
Left(time, passed) == Most(0, time - passed)

\* delay_before_request: what to wait, and the slot taken.
SlotWait(l) == IF config.limited THEN Most(l.gate, l.next) ELSE 0
TakeSlot(l) == IF config.limited THEN [l EXCEPT !.next = SlotWait(l) + Interval] ELSE l

\* register_retry_after.
BugRegisterRetryAfter(l, wait) == l
RegisterRetryAfter(l, wait) ==
    IF ~config.limited \/ wait = 0 THEN l
    ELSE LET gate == Most(l.gate, wait) IN [gate |-> gate, next |-> Most(l.next, gate)]

\* The sleeps of one step: so much time has passed, the limiter is l.
Slept(time, l) ==
    /\ limiter' = [next |-> Left(l.next, time), gate |-> Left(l.gate, time)]
    /\ since' = Least(Interval, since + time)
    /\ quiet' = Left(quiet, time)

-----------------------------------------------------------------------------
(* Taking a url.                                                               *)

BugHead(q) == [head |-> q[Len(q)], rest |-> SubSeq(q, 1, Len(q) - 1)]
PopLeft(q) == [head |-> Head(q), rest |-> Tail(q)]

\* RobotsGate.
Allowed(url) == url \notin config.closed

Skip(url, reason) == skips' = skips \cup {<<url, reason>>}

TakeUrl ==
    /\ work = "top" /\ frontier # <<>>
    /\ LET popped == PopLeft(frontier)
           url == popped.head.url
       IN /\ frontier' = popped.rest
          /\ seen' = seen \cup {url}
          /\ IF url \in seen \/ ~Allowed(url)
             THEN /\ IF url \in seen THEN UNCHANGED skips ELSE Skip(url, "robots")
                  /\ UNCHANGED <<work, current, limiter, since, quiet>>
             ELSE /\ work' = "ready"
                  /\ current' = [url |-> url, depth |-> popped.head.depth, attempt |-> 0,
                                 delay |-> 1, written |-> 0, path |-> FALSE]
                  /\ Slept(SlotWait(limiter), TakeSlot(limiter))
                  /\ UNCHANGED skips
    /\ UNCHANGED <<config, results, hashes, late, abandoned, disk, health>>

\* The slot is taken; the hook runs, and only then is the page asked for.
Send(delay) ==
    /\ work = "ready"
    /\ work' = "fetching"
    /\ limiter' = [next |-> Left(limiter.next, delay), gate |-> Left(limiter.gate, delay)]
    /\ since' = 0 /\ late' = delay /\ quiet' = Left(quiet, delay)
    /\ UNCHANGED <<config, frontier, seen, results, hashes, current, skips, abandoned, disk, health>>

\* A request fails, perhaps with a Retry-After; the next attempt waits for its
\* back-off, for the header and then for a slot.  The last failure only registers
\* the header.
FailFetch(wait, jitter) ==
    /\ work = "fetching"
    /\ LET registered == RegisterRetryAfter(limiter, wait)
           pause == Most(current.delay + jitter, wait)
           after == [next |-> Left(registered.next, pause), gate |-> Left(registered.gate, pause)]
           asked == Most(quiet, wait)
       IN IF current.attempt >= config.retries
          THEN /\ work' = "top" /\ limiter' = registered /\ quiet' = asked
               /\ abandoned' = abandoned \cup {current.url}
               /\ health' = "degraded"
               /\ UNCHANGED <<current, since>>
          ELSE LET slot == SlotWait(after)
               IN /\ work' = "ready"
                  /\ current' = [current EXCEPT !.attempt = @ + 1, !.delay = 2 * @]
                  /\ limiter' = [next |-> Left(TakeSlot(after).next, slot), gate |-> Left(after.gate, slot)]
                  /\ since' = Least(Interval, since + pause + slot)
                  /\ quiet' = Left(asked, pause + slot)
                  /\ UNCHANGED <<abandoned, health>>
    /\ UNCHANGED <<config, frontier, seen, results, hashes, late, skips, disk>>

\* An answer is skipped for its type or, when asked for, for a text that is known;
\* its links are not followed then.
Refusal(url) ==
    IF FinalUrl[url] \in NotHtml THEN "content-type"
    ELSE IF config.dedupe /\ TextOf[FinalUrl[url]] \in hashes THEN "duplicate-content"
    ELSE "none"

Respond ==
    /\ work = "fetching"
    /\ LET url == current.url
       IN IF Refusal(url) # "none"
          THEN /\ work' = "top" /\ Skip(FinalUrl[url], Refusal(url))
               /\ UNCHANGED hashes
          ELSE /\ work' = "persisting"
               /\ hashes' = hashes \cup {TextOf[FinalUrl[url]]}
               /\ UNCHANGED skips
    /\ UNCHANGED <<config, frontier, seen, results, current, limiter, since, late, quiet,
                   abandoned, disk, health>>

-----------------------------------------------------------------------------
(* Keeping the page.                                                           *)

Files == <<"text", "text", "meta", "meta", "index">>

AfterWrite(d, url, n) ==
    CASE Files[n] = "index" -> [d EXCEPT !.index = @ \cup {url}]
      [] Files[n] # "index" /\ (n = 1 \/ Files[n] # Files[n - 1]) ->     \* opened
            [d EXCEPT ![Files[n]] = @ \ {url}, !.over = IF url \in d[Files[n]] THEN @ \cup {url} ELSE @]
      [] OTHER -> [d EXCEPT ![Files[n]] = @ \cup {url}]

Persist ==
    /\ work = "persisting"
    /\ LET n == current.written + 1
       IN /\ disk' = AfterWrite(disk, FinalUrl[current.url], n)
          /\ current' = [current EXCEPT !.written = n, !.path = n = Len(Files)]
          /\ work' = IF n = Len(Files) THEN "page" ELSE "persisting"
    /\ UNCHANGED <<config, frontier, seen, results, hashes, limiter, since, late, quiet, skips,
                   abandoned, health>>

\* Whatever fails there, the page is kept without a path.
PersistFails ==
    /\ work = "persisting"
    /\ work' = "page"
    /\ health' = "degraded"
    /\ UNCHANGED <<config, frontier, seen, results, hashes, current, limiter, since, late, quiet, skips,
                   abandoned, disk>>

Page == [url |-> FinalUrl[current.url], requested |-> current.url, depth |-> current.depth,
         stored |-> current.path]

\* Links of a page that are followed, and those that are not.
Followed(page) == Picked(LinksOf[page], {l \in Urls : l \notin External /\ Allowed(l)})
SkippedLinks(page) ==
    {<<l, IF l \in External THEN "external-domain" ELSE "robots">> :
        l \in {LinksOf[page][i] : i \in DOMAIN LinksOf[page]} \cap (External \cup config.closed)}

ReachedPages == config.pages # Unlimited /\ Len(results) + 1 >= config.pages
ReachedDepth == config.depth # Unlimited /\ current.depth >= config.depth

KeepPage ==
    /\ work = "page"
    /\ results' = Append(results, Page)
    /\ IF ReachedPages
       THEN /\ work' = "finished"
            /\ health' = "healthy"
            /\ UNCHANGED <<frontier, skips, limiter, since, quiet>>
       ELSE /\ work' = "top"
            /\ health' = "healthy"
            /\ IF ReachedDepth THEN UNCHANGED <<frontier, skips, limiter, since, quiet>>
               ELSE LET links == Picked(Followed(Page.url), Urls \ seen)
                    IN /\ frontier' = frontier \o [i \in DOMAIN links |-> Entry(links[i], current.depth + 1)]
                       /\ skips' = skips \cup SkippedLinks(Page.url)
                       /\ Slept(config.delay, limiter)
    /\ UNCHANGED <<config, seen, hashes, current, late, abandoned, disk>>

-----------------------------------------------------------------------------
(* The end.                                                                    *)

FinishCrawl ==
    /\ work = "top" /\ frontier = <<>>
    /\ work' = "finished"
    /\ health' = IF health = "degraded" THEN health ELSE "healthy"
    /\ UNCHANGED <<config, frontier, seen, results, hashes, current, limiter, since, late, quiet, skips,
                   abandoned, disk>>

\* An extension or the extraction of the text raises: nothing catches it but the
\* clean-up of crawl.
Raise ==
    /\ work \in {"top", "ready", "fetching", "page"}
    /\ work' = "raised"
    /\ results' = IF work = "page" THEN Append(results, Page) ELSE results
    /\ health' = "degraded"
    /\ UNCHANGED <<config, frontier, seen, hashes, current, limiter, since, late, quiet, skips,
                   abandoned, disk>>

CrawlerDies ==
    /\ work \in Running
    /\ work' = "dead"
    /\ UNCHANGED <<config, frontier, seen, results, hashes, current, limiter, since, late, quiet, skips,
                   abandoned, disk, health>>

\* A second crawl of the same crawler; the texts it has seen stay.
CrawlAgain ==
    /\ work = "finished" /\ config.again
    /\ config' = [config EXCEPT !.again = FALSE]
    /\ work' = "top"
    /\ frontier' = <<Entry(Root, 0)>> /\ seen' = {} /\ results' = <<>>
    /\ skips' = {} /\ abandoned' = {}
    /\ health' = "running"
    /\ UNCHANGED <<hashes, current, limiter, since, late, quiet, disk>>

CrawlNext ==
    \/ TakeUrl \/ Respond \/ Persist \/ PersistFails
    \/ KeepPage \/ FinishCrawl \/ Raise \/ CrawlerDies \/ CrawlAgain
    \/ \E delay \in Delays : Send(delay)
    \/ \E wait \in RetryAfters, jitter \in 0 .. 1 : FailFetch(wait, jitter)

-----------------------------------------------------------------------------
(* Properties.                                                                 *)

Pages == {results[i] : i \in DOMAIN results}
MayExpand(page) == config.depth = Unlimited \/ page.depth < config.depth
LinksTo(page, url) == \E i \in DOMAIN Followed(page.url) : Followed(page.url)[i] = url

\* A crawl that ends by itself has been everywhere it may go: the root and every
\* open link of every page it kept was taken, by the shortest way (or its own
\* links would be cut off by the depth), and is a page, skipped or given up.
CrawlIsComplete ==
    work = "finished" /\ (config.pages = Unlimited \/ Len(results) < config.pages) =>
        /\ seen = {Root} \cup {u \in Urls : \E p \in Pages : MayExpand(p) /\ LinksTo(p, u)}
        /\ \A u \in seen :
             \/ \E p \in Pages : p.requested = u
             \/ u \in abandoned
             \/ \E reason \in {"robots", "content-type", "duplicate-content"} :
                    <<IF reason = "robots" THEN u ELSE FinalUrl[u], reason>> \in skips
        /\ \A p, q \in Pages : MayExpand(p) /\ LinksTo(p, q.requested) => q.depth <= p.depth + 1

\* With a rate limiter the slot of a page, or of a retry, comes its interval after
\* the slot of the one before and not while an answer has asked to be left alone,
\* the last retry of a url included.  A request is sent some time after its slot
\* (the hook runs in between), so requests may be closer than the interval, but
\* only by what the first of them was late.  robots.txt is asked for without slots.
RequestsArePaced ==
    work = "ready" /\ config.limited => since + late >= Interval /\ quiet = 0

\* What the index lists can be read, and a page that names a file has one, wherever
\* the writing of another page failed or died.  The exception is a page that was
\* met twice under one final url: its files are written over in place.
IndexedPagesAreComplete ==
    /\ disk.index \ disk.over \subseteq disk.text \cap disk.meta
    /\ \A p \in Pages : p.stored => p.url \in disk.index

\* A crawl misses no page it may take and lists none it has not written.
CrawlsAreComplete == CrawlIsComplete /\ IndexedPagesAreComplete

=============================================================================
