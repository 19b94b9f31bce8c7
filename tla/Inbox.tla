--------------------------------- MODULE Inbox ------------------------------
(***************************************************************************)
(* The inbox of one signed-in user (apps/web: use-notifications.ts and the *)
(* bell and inbox page that mount it; apps/api: routes/notifications.ts).  *)
(* One cache of pages serves both surfaces.  A surface reports the rows it *)
(* has on display; the answer stamps the cache, and a refetch every minute *)
(* is what repairs a cache that came to disagree with the server.          *)
(***************************************************************************)
EXTENDS Naturals, Sequences, FiniteSets, SequencesExt

CONSTANTS
  FeedLimit,      \* FEED_LIMIT
  MaxNews,        \* bound: notifications that arrive
  MaxReports,     \* bound: reports on their way at once
  MaxLapses       \* bound: calls that fail or whose answer is lost

ASSUME InboxAssumption ==
  /\ FeedLimit \in Nat \ {0} /\ MaxNews \in Nat
  /\ MaxReports \in Nat \ {0} /\ MaxLapses \in Nat

VARIABLES
  news,       \* notifications 1 .. news have arrived
  readAt,     \* those the server has as read
  pages,      \* the query's data, <<>> while it has none
  fetching,   \* the fetch under way, or NoFetch
  reports,    \* the calls that mark rows as read, in the order they were made
  bell,       \* whether the popover is open, and what it has reported
  inbox,      \* whether the page is mounted, and what it has reported
  lapses,
  displayed,  \* history: rows some surface had on display
  lost        \* history: rows some report of which failed

inboxVars == <<news, readAt, pages, fetching, reports, bell, inbox, lapses, displayed, lost>>

NoFetch == [kind |-> "idle", old |-> <<>>, new |-> <<>>]
Rows == Seq([id : 1 .. MaxNews, read : BOOLEAN])

InboxTypeOK ==
  /\ news \in 0 .. MaxNews /\ readAt \subseteq 1 .. news
  /\ \A i \in DOMAIN pages :
       pages[i].items \in Rows /\ {pages[i].unread, pages[i].total} \subseteq 0 .. MaxNews
  /\ fetching.kind \in {"idle", "all", "next"}
  /\ Len(reports) <= MaxReports /\ lapses \in 0 .. MaxLapses
  /\ bell.sent \cup inbox.sent \cup displayed \cup lost \subseteq 1 .. news

InboxInit ==
  /\ news = 0 /\ readAt = {} /\ pages = <<>> /\ fetching = NoFetch /\ reports = <<>>
  /\ bell = [on |-> FALSE, sent |-> {}] /\ inbox = [on |-> FALSE, sent |-> {}]
  /\ lapses = 0 /\ displayed = {} /\ lost = {}

Lapse == lapses < MaxLapses /\ lapses' = lapses + 1

-----------------------------------------------------------------------------
\* The server's feed, newest first, by offset.

Feed(page) ==
  LET newest(k) == news - (page - 1) * FeedLimit - k + 1
      ids == SelectSeq([k \in 1 .. FeedLimit |-> IF newest(k) \in 1 .. news THEN newest(k) ELSE 0],
                       LAMBDA id : id # 0)
  IN  [k \in DOMAIN ids |-> [id |-> ids[k], read |-> ids[k] \in readAt]]

Unread == Cardinality((1 .. news) \ readAt)

-----------------------------------------------------------------------------
\* What the hook offers.

Items(ps) == FlattenSeq([i \in DOMAIN ps |-> ps[i].items])
FirstPage(ps) == IF ps = <<>> THEN <<>> ELSE ps[1].items
Badge(ps) == IF ps = <<>> THEN 0 ELSE Last(ps).unread
\* getNextPageParam
HasMore(ps) == ps # <<>> /\ Len(ps) * FeedLimit < Last(ps).total

\* useNotificationSeen: while it is active, every unread row on display is reported,
\* and reported once (a row on two pages is counted twice).
Fresh(items, s) ==
  LET unread == SelectSeq(items, LAMBDA n : ~n.read /\ n.id \notin s.sent)
  IN  [k \in DOMAIN unread |-> unread[k].id]

Report(ids) == IF ids = <<>> THEN <<>> ELSE <<[ids |-> ids, landed |-> FALSE]>>

\* The popover shows page 1 only, so only page 1 is ever reported seen.
BellShows(ps) == FirstPage(ps)
\* Faulty variant of BellReports: the bell reports what the hook has, not what the popover shows.
BellReportsAll(ps) == Items(ps)
BellReports(ps) == BellShows(ps)

\* The effects of the two surfaces after a render with these pages.
Reported(s, items) == [s EXCEPT !.sent = @ \cup ToSet(Fresh(items, s))]
Renders(ps, b, p) ==
  LET shownB == IF b.on THEN BellReports(ps) ELSE <<>>
      shownP == IF p.on THEN Items(ps) ELSE <<>>
      onShow == (IF b.on THEN BellShows(ps) ELSE <<>>) \o shownP
  IN  /\ bell' = Reported(b, shownB) /\ inbox' = Reported(p, shownP)
      /\ reports' = reports \o Report(Fresh(shownB, b)) \o Report(Fresh(shownP, p))
      /\ Len(reports') <= MaxReports
      /\ displayed' = displayed \cup {onShow[k].id : k \in DOMAIN onShow}

-----------------------------------------------------------------------------
\* The notifier writes a row (module Announcements).
Arrives ==
  /\ news < MaxNews /\ news' = news + 1
  /\ UNCHANGED <<readAt, pages, fetching, reports, bell, inbox, lapses, displayed, lost>>

\* The interval (or the window coming back into focus): nothing while a fetch runs.
Refetches ==
  /\ fetching = NoFetch /\ fetching' = [NoFetch EXCEPT !.kind = "all"]
  /\ UNCHANGED <<news, readAt, pages, reports, bell, inbox, lapses, displayed, lost>>

\* "Load older", on the page only; it cancels a refetch under way.  The page it
\* fetches will be put after the pages there are now.
LoadsOlder ==
  /\ inbox.on /\ HasMore(pages) /\ fetching.kind # "next"
  /\ fetching' = [NoFetch EXCEPT !.kind = "next", !.old = pages]
  /\ UNCHANGED <<news, readAt, pages, reports, bell, inbox, lapses, displayed, lost>>

\* A page comes with the counts of the whole inbox.  A refetch goes on for as many
\* pages as there were; then the data is replaced.
PageArrives ==
  /\ fetching # NoFetch
  /\ LET number == Len(fetching.old) + Len(fetching.new) + 1
         page == [items |-> Feed(number), unread |-> Unread, total |-> news]
         new == Append(fetching.new, page)
         more == fetching.kind = "all" /\ Len(new) < Len(pages) /\ HasMore(new)
     IN  IF more
         THEN /\ fetching' = [fetching EXCEPT !.new = new]
              /\ UNCHANGED <<pages, reports, bell, inbox, displayed>>
         ELSE /\ fetching' = NoFetch /\ pages' = fetching.old \o new
              /\ Renders(pages', bell, inbox)
  /\ UNCHANGED <<news, readAt, lapses, lost>>

\* The call and its retries fail: what there was stays.
FetchFails ==
  /\ fetching # NoFetch /\ Lapse /\ fetching' = NoFetch
  /\ UNCHANGED <<news, readAt, pages, reports, bell, inbox, displayed, lost>>

-----------------------------------------------------------------------------
\* POST /me/notifications/read: the ids that were named, and no others.
MarksRead(ids) == readAt \cup (ids \cap (1 .. news))

ReportLands(i) ==
  /\ ~reports[i].landed
  /\ readAt' = MarksRead(ToSet(reports[i].ids))
  /\ reports' = [reports EXCEPT ![i].landed = TRUE]
  /\ UNCHANGED <<news, pages, fetching, bell, inbox, lapses, displayed, lost>>

\* onSuccess stamps the rows and takes the length of the report off every count.
Stamped(ps, ids) ==
  [k \in DOMAIN ps |->
     [ps[k] EXCEPT !.unread = IF @ > Len(ids) THEN @ - Len(ids) ELSE 0,
                   !.items = [j \in DOMAIN @ |->
                                [@[j] EXCEPT !.read = @ \/ ps[k].items[j].id \in ToSet(ids)]]]]

ReportAnswered(i) ==
  /\ reports[i].landed
  /\ pages' = Stamped(pages, reports[i].ids)
  /\ reports' = RemoveAt(reports, i)
  /\ UNCHANGED <<news, readAt, fetching, bell, inbox, lapses, displayed, lost>>

\* Before it reached the server or after: nothing is stamped, and it is not sent again.
ReportFails(i) ==
  /\ Lapse /\ reports' = RemoveAt(reports, i)
  /\ lost' = lost \cup (ToSet(reports[i].ids) \ readAt)
  /\ UNCHANGED <<news, readAt, pages, fetching, bell, inbox, displayed>>

-----------------------------------------------------------------------------
\* The popover opens and closes; the page is opened and left.  What the bell has
\* reported it remembers as long as the masthead is there, the page forgets.

TogglesBell ==
  /\ Renders(pages, [bell EXCEPT !.on = ~@], inbox)
  /\ UNCHANGED <<news, readAt, pages, fetching, lapses, lost>>

OpensInbox ==
  /\ ~inbox.on
  \* A navigation closes the popover.
  /\ Renders(pages, [bell EXCEPT !.on = FALSE], [on |-> TRUE, sent |-> {}])
  /\ UNCHANGED <<news, readAt, pages, fetching, lapses, lost>>

LeavesInboxPage ==
  /\ inbox.on
  /\ Renders(pages, [bell EXCEPT !.on = FALSE], [on |-> FALSE, sent |-> {}])
  /\ UNCHANGED <<news, readAt, pages, fetching, lapses, lost>>

-----------------------------------------------------------------------------
Fetching == PageArrives \/ FetchFails
Reporting == \E i \in DOMAIN reports : ReportLands(i) \/ ReportAnswered(i) \/ ReportFails(i)
InboxNext ==
  \/ Arrives \/ Refetches \/ LoadsOlder \/ Fetching \/ Reporting
  \/ TogglesBell \/ OpensInbox \/ LeavesInboxPage

\* The timer fires and every call comes to an end.
InboxFairness ==
  WF_inboxVars(Refetches) /\ WF_inboxVars(Fetching) /\ WF_inboxVars(Reporting)

InboxSpec == InboxInit /\ [][InboxNext]_inboxVars /\ InboxFairness

-----------------------------------------------------------------------------
\* Properties.

\* Nothing is marked as read that no surface had on display.
OnlySeenIsRead == readAt \subseteq displayed

\* Whatever went wrong on the way, the badge comes to say how many are unread.
BadgeReconciles == <>[](Badge(pages) = Unread)

\* A row on the open popover or page is read in the end, unless its report failed or
\* the reader has moved on.
OnDisplay(n) ==
  \E i \in DOMAIN pages :
    /\ inbox.on \/ (bell.on /\ i = 1)
    /\ \E k \in DOMAIN pages[i].items : pages[i].items[k].id = n
WhatIsSeenIsRead ==
  \A n \in 1 .. MaxNews : OnDisplay(n) ~> (n \in readAt \cup lost)

\* What is read was seen, what is seen is read, and the badge counts the rest (and
\* the variables are of their types).
InboxIsHonest == [](InboxTypeOK /\ OnlySeenIsRead) /\ BadgeReconciles /\ WhatIsSeenIsRead

=============================================================================
