-------------------------------- MODULE Search --------------------------------
(* Searching messages: the panel (app/search.rs), the local worker that scans the   *)
(* cache and reconciles the answers of the server with what it was told meanwhile   *)
(* (search.rs, telegram/local.rs, cache/search.rs), and the network worker, which   *)
(* has one cloud search at a time (telegram/mod.rs, telegram/requests.rs).          *)
EXTENDS Naturals, Sequences

CONSTANTS
    Hit,            \* messages that match
    Query,          \* what is asked: a text, its filters and its scope
    NoHit,
    MaxVersion,     \* bound: versions of a message; the one after is its deletion
    MaxAsked,       \* bound: request identifiers
    MaxPages,       \* bound: pages of results
    MaxGapsFound    \* bound: histories that are invalidated

VARIABLES
    panel,          \* App.search: open, source, query, position, request, loading, target
    page,           \* State.page: NoPage, or what it answers and its hits
    toLocal,        \* commands to the local worker
    toTerminal,     \* events to the terminal
    waiting,        \* pending: commands for the network worker
    scans,          \* search::Worker: the job, its flag and what it read; the next one
    rows,           \* the messages in the database
    told,           \* those plus the changes of the batch: what the terminal is told
    cloud,          \* Store.search_revision: the request, and what changed after it
    flight,         \* WorkerCache.cloud_search and its answer, if it has one
    stream,         \* events from the network worker to the local one
    server,         \* the messages on the server
    pushed,         \* changes the network worker has not received
    knows,          \* ghost: the last version the terminal handled
    gapsFound

panelVars == <<panel, page>>
localVars == <<toLocal, toTerminal, waiting, scans, rows, told, cloud>>
networkVars == <<flight, stream, server, pushed>>
searchVars == <<panelVars, localVars, networkVars, knows, gapsFound>>

Erased == MaxVersion + 1    \* a deleted message, a tombstone in the cache
NoPage == [asked |-> <<>>, hits |-> <<>>]
NoJob == [request |-> 0, asked |-> <<>>, cancelled |-> FALSE, hits |-> <<>>, read |-> FALSE]
NoFlight == [request |-> 0, asked |-> <<>>, target |-> NoHit, hits |-> <<>>, read |-> FALSE]
Messages(versions) == [m \in {h \in Hit : versions[h] \in 1..MaxVersion} |-> versions[m]]

ASSUME SearchAssumption ==
    /\ NoHit \notin Hit
    /\ MaxVersion \in Nat /\ MaxAsked \in Nat /\ MaxPages \in Nat \ {0}
    /\ Query # {}

SearchInit ==
    /\ panel = [open |-> FALSE, source |-> "local", query |-> CHOOSE q \in Query : TRUE,
                position |-> 1, request |-> 0, loading |-> FALSE, target |-> NoHit]
    /\ page = NoPage
    /\ toLocal = <<>> /\ toTerminal = <<>> /\ waiting = <<>>
    /\ scans = [job |-> NoJob, queued |-> NoJob]
    /\ rows = [h \in Hit |-> 1] /\ told = rows /\ server = rows /\ knows = rows
    /\ cloud = [request |-> 0, changed |-> {}]
    /\ flight = NoFlight /\ stream = <<>> /\ pushed = <<>>
    /\ gapsFound = 0

-------------------------------------------------------------------------------
(* The panel. *)

Asked == <<panel.source, panel.query, panel.position>>
Command(kind, request, asked, target) ==
    [kind |-> kind, request |-> request, asked |-> asked, target |-> target]

\* What every change of the search does: a new request identifier, and a command.
Asks(next, command) ==
    /\ panel.request < MaxAsked
    /\ panel' = [next EXCEPT !.request = panel.request + 1]
    /\ toLocal' = Append(toLocal, [command EXCEPT !.request = panel.request + 1])
    /\ UNCHANGED <<toTerminal, waiting, scans, rows, told, cloud, networkVars, knows, gapsFound>>

Cancelling == Command("cancel", 0, <<>>, NoHit)

\* search_submit, fresh or at another position, by the source of the search.
Submits(next) ==
    /\ page' = NoPage
    /\ Asks([next EXCEPT !.open = TRUE, !.loading = TRUE, !.target = NoHit],
            Command(next.source, 0, <<next.source, next.query, next.position>>, NoHit))

\* start_local_search, start_cloud_search, start_mentions and "open" in the editor.
Submit == \E source \in {"local", "cloud"}, query \in Query :
    Submits([panel EXCEPT !.source = source, !.query = query, !.position = 1])

\* search_more and search_previous.
Turns == \E position \in 1..MaxPages :
    /\ panel.open /\ ~panel.loading /\ page # NoPage
    /\ position \in {panel.position - 1, panel.position + 1}
    /\ Submits([panel EXCEPT !.position = position])

\* A cloud search without a connection: an error, and the running one is cancelled.
SubmitOffline == \E query \in Query :
    /\ page' = NoPage
    /\ Asks([panel EXCEPT !.open = TRUE, !.source = "cloud", !.query = query,
                          !.position = 1, !.loading = FALSE, !.target = NoHit], Cancelling)

\* search_edited, search_scope: the page is for a query that is no longer there.
EditQuery == \E query \in Query \ {panel.query} :
    /\ panel.open
    /\ page' = NoPage
    /\ Asks([panel EXCEPT !.query = query, !.loading = FALSE], Cancelling)

\* "cancel": the page is kept for the next time.
CloseSearch ==
    /\ panel.open
    /\ Asks([panel EXCEPT !.open = FALSE, !.loading = FALSE], Cancelling)
    /\ UNCHANGED page

\* open_search
ReopenSearch ==
    /\ ~panel.open
    /\ panel' = [panel EXCEPT !.open = TRUE]
    /\ UNCHANGED <<page, localVars, networkVars, knows, gapsFound>>

\* open_search_result
OpenHit == \E hit \in DOMAIN page.hits :
    /\ panel.open /\ ~panel.loading
    /\ Asks([panel EXCEPT !.loading = TRUE, !.target = hit],
            Command(IF panel.source = "cloud" THEN "cloudContext" ELSE "context", 0,
                    Asked, hit))
    /\ UNCHANGED page

\* Mutant: an answer is for whatever is asked now.
FinishAnySearch(event) == panel.open

\* The guard of finish_search and open_search_context.
Finishes(event) == panel.request = event.request /\ panel.open

SearchResults(event) ==
    /\ event.kind \in {"local", "cloud"}
    /\ IF Finishes(event)
       THEN /\ panel' = [panel EXCEPT !.loading = FALSE]
            /\ page' = [asked |-> event.asked, hits |-> event.hits]
       ELSE UNCHANGED panelVars
    /\ UNCHANGED knows

SearchFailed(event) ==
    /\ event.kind = "failed"
    /\ panel' = IF Finishes(event) THEN [panel EXCEPT !.loading = FALSE] ELSE panel
    /\ UNCHANGED <<page, knows>>

\* Mutant: the panel closes on whatever the context holds.
OpenUnseen(event) == TRUE

\* open_search_context revalidates the hit.
StillThere(event) == panel.target \in DOMAIN event.hits

OpenSearchContext(event) ==
    /\ event.kind = "context"
    /\ panel' = IF ~Finishes(event) \/ panel.target # event.target THEN panel
                ELSE IF StillThere(event)
                THEN [panel EXCEPT !.loading = FALSE, !.target = NoHit, !.open = FALSE]
                ELSE [panel EXCEPT !.loading = FALSE, !.target = NoHit]
    /\ UNCHANGED <<page, knows>>

\* Mutant: a live edit is not followed.
IgnoreChange(event) == page

\* observe_search: edits replace a hit, deletions remove it.
FollowChange(event) ==
    IF event.target \notin DOMAIN page.hits THEN page
    ELSE IF event.version = Erased
    THEN [page EXCEPT !.hits = [m \in DOMAIN @ \ {event.target} |-> @[m]]]
    ELSE [page EXCEPT !.hits[event.target] = event.version]

ObserveChange(event) ==
    /\ event.kind = "change"
    /\ page' = FollowChange(event)
    /\ knows' = [knows EXCEPT ![event.target] = event.version]
    /\ UNCHANGED panel

\* CacheInvalidated, in the scope of the search: history is resyncing.
ObserveInvalidation(event) ==
    /\ event.kind = "invalidated"
    /\ panel' = [panel EXCEPT !.request = @ + 1, !.loading = FALSE, !.target = NoHit]
    /\ page' = NoPage
    /\ UNCHANGED knows

HandleSearchEvent ==
    /\ toTerminal # <<>>
    /\ toTerminal' = Tail(toTerminal)
    /\ LET event == Head(toTerminal) IN
        \/ SearchResults(event)
        \/ SearchFailed(event)
        \/ OpenSearchContext(event)
        \/ ObserveChange(event)
        \/ ObserveInvalidation(event)
    /\ UNCHANGED <<toLocal, waiting, scans, rows, told, cloud, networkVars, gapsFound>>

-------------------------------------------------------------------------------
(* The local worker. *)

Event(kind, request, asked, target, hits) ==
    [kind |-> kind, request |-> request, asked |-> asked, target |-> target, hits |-> hits,
     version |-> 0]
Cloudy(command) == command.kind \in {"cloud", "cloudContext"}

\* The flag of the scan that runs, if one does.
Flagged(job) == IF job = NoJob THEN NoJob ELSE [job EXCEPT !.cancelled = TRUE]

\* Mutant: a search that is replaced is forgotten with the flag of the running scan.
QueueBehind(command) == [job |-> Flagged(scans.job), queued |-> scans.queued]

\* Worker.queue
Queue(command) ==
    [job |-> Flagged(scans.job),
     queued |-> [NoJob EXCEPT !.request = command.request, !.asked = command.asked]]

CancelScan == [job |-> Flagged(scans.job), queued |-> NoJob]

\* A command for the network worker takes the place of the searches and cancellations
\* that wait for it (pending holds no others here), or fails when other commands have
\* filled the queue.
Passes(command) ==
    \/ waiting' = <<command>> /\ UNCHANGED toTerminal
    \/ /\ waiting' = <<>>
       /\ toTerminal' = IF Cloudy(command)
                        THEN Append(toTerminal,
                                    Event("failed", command.request, <<>>, NoHit, <<>>))
                        ELSE toTerminal

\* serve_cached and what comes before it; the batch is applied before the cache is read.
TakeSearchCommand ==
    /\ toLocal # <<>>
    /\ toLocal' = Tail(toLocal)
    /\ LET command == Head(toLocal) IN
        \/ /\ command.kind = "local"
           /\ scans' = Queue(command)
           /\ waiting' = <<Cancelling>>
           /\ rows' = told
           /\ UNCHANGED toTerminal
        \/ /\ command.kind = "cancel" \/ Cloudy(command)
           /\ scans' = CancelScan
           /\ Passes(command)
           /\ UNCHANGED rows
        \/ /\ command.kind = "context"
           /\ rows' = told
           /\ toTerminal' = Append(toTerminal,
                Event("context", command.request, <<>>, command.target, Messages(told)))
           /\ UNCHANGED <<scans, waiting>>
    /\ UNCHANGED <<panelVars, told, cloud, networkVars, knows, gapsFound>>

\* start_pending: one scan at a time, with a flag of its own.
StartPending ==
    /\ scans.job = NoJob /\ scans.queued # NoJob
    /\ scans' = [job |-> scans.queued, queued |-> NoJob]
    /\ UNCHANGED <<panelVars, toLocal, toTerminal, waiting, rows, told, cloud,
                   networkVars, knows, gapsFound>>

Scan ==
    /\ scans.job # NoJob /\ ~scans.job.read
    /\ scans' = [scans EXCEPT !.job.read = TRUE, !.job.hits = Messages(rows)]
    /\ UNCHANGED <<panelVars, toLocal, toTerminal, waiting, rows, told, cloud,
                   networkVars, knows, gapsFound>>

\* Worker.next; the scan may have failed.
ScanEnds ==
    /\ scans.job.read
    /\ scans' = [scans EXCEPT !.job = NoJob]
    /\ \/ scans.job.cancelled /\ UNCHANGED toTerminal
       \/ /\ ~scans.job.cancelled
          /\ toTerminal' \in
                {Append(toTerminal, Event("local", scans.job.request, scans.job.asked, NoHit,
                                          scans.job.hits)),
                 Append(toTerminal, Event("failed", scans.job.request, <<>>, NoHit, <<>>))}
    /\ UNCHANGED <<panelVars, toLocal, waiting, rows, told, cloud, networkVars, knows,
                   gapsFound>>

FlushBatch ==
    /\ rows # told /\ rows' = told
    /\ UNCHANGED <<panelVars, toLocal, toTerminal, waiting, scans, told, cloud,
                   networkVars, knows, gapsFound>>

\* Mutant: the answer is newer than anything that was told.
KeepAnswer(hits) == hits

\* reconcile_cloud_search: deleted messages go, those that changed are the cache's.
ReconcileHits(hits) ==
    [m \in {h \in DOMAIN hits : told[h] # Erased} |->
        IF m \in cloud.changed THEN told[m] ELSE hits[m]]

TellsChange(event) ==
    /\ event.kind = "change"
    /\ told' = [told EXCEPT ![event.target] = event.version]
    /\ cloud' = [cloud EXCEPT !.changed = @ \cup {event.target}]
    /\ toTerminal' = Append(toTerminal, event)
    /\ UNCHANGED rows

TellsLoading(event) ==
    /\ event.kind = "loading"
    /\ cloud' = [request |-> event.request, changed |-> {}]
    /\ UNCHANGED <<told, toTerminal, rows>>

TellsCancelled(event) ==
    /\ event.kind = "cancelled"
    /\ cloud' = IF cloud.request = event.request THEN [cloud EXCEPT !.request = 0] ELSE cloud
    /\ UNCHANGED <<told, toTerminal, rows>>

\* CloudSearchResults and CloudSearchContext, applied to the database at once.
TellsAnswer(event) ==
    /\ event.kind \in {"cloud", "context"}
    /\ IF cloud.request # event.request
       THEN /\ toTerminal' = Append(toTerminal, Event("failed", event.request, <<>>, NoHit, <<>>))
            /\ UNCHANGED <<told, cloud, rows>>
       ELSE LET hits == ReconcileHits(event.hits) IN
            /\ toTerminal' = Append(toTerminal, [event EXCEPT !.hits = hits])
            /\ told' = [m \in Hit |-> IF m \in DOMAIN hits THEN hits[m] ELSE told[m]]
            /\ rows' = told'
            /\ cloud' = [cloud EXCEPT !.request = 0]

TellsFailure(event) ==
    /\ event.kind = "failed"
    /\ cloud' = IF cloud.request = event.request THEN [cloud EXCEPT !.request = 0] ELSE cloud
    /\ toTerminal' = Append(toTerminal, event)
    /\ UNCHANGED <<told, rows>>

\* CacheInvalidated drops the messages and the search that runs.
TellsInvalidation(event) ==
    /\ event.kind = "invalidated"
    /\ told' = [m \in Hit |-> 0]
    /\ cloud' = [request |-> 0, changed |-> {}]
    /\ toTerminal' = Append(toTerminal, event)
    /\ UNCHANGED rows

TakeStream ==
    /\ stream # <<>> /\ stream' = Tail(stream)
    /\ LET event == Head(stream) IN
        \/ TellsChange(event)
        \/ TellsLoading(event)
        \/ TellsCancelled(event)
        \/ TellsAnswer(event)
        \/ TellsFailure(event)
        \/ TellsInvalidation(event)
    /\ UNCHANGED <<panelVars, toLocal, waiting, scans, flight, server, pushed, knows, gapsFound>>

-------------------------------------------------------------------------------
(* The network worker and the server. *)

\* A new search, or CancelSearch, aborts the one under way.
HandleSearch ==
    /\ waiting # <<>> /\ waiting' = Tail(waiting)
    /\ LET command == Head(waiting)
           aborted == IF flight = NoFlight THEN <<>>
                      ELSE <<Event("cancelled", flight.request, <<>>, NoHit, <<>>)>>
           loading == IF Cloudy(command)
                      THEN <<Event("loading", command.request, <<>>, NoHit, <<>>)>>
                      ELSE <<>> IN
        /\ stream' = stream \o aborted \o loading
        /\ flight' = IF ~Cloudy(command) THEN NoFlight
                     ELSE [NoFlight EXCEPT !.request = command.request, !.asked = command.asked,
                                           !.target = command.target]
    /\ UNCHANGED <<panelVars, toLocal, toTerminal, scans, rows, told, cloud, server, pushed,
                   knows, gapsFound>>

Answers ==
    /\ flight # NoFlight /\ ~flight.read
    /\ flight' = [flight EXCEPT !.read = TRUE, !.hits = Messages(server)]
    /\ UNCHANGED <<panelVars, localVars, stream, server, pushed, knows, gapsFound>>

\* complete; the RPC may have failed.
Complete ==
    /\ flight.read
    /\ LET kind == IF flight.target = NoHit THEN "cloud" ELSE "context" IN
        stream' \in
            {Append(stream, Event(kind, flight.request, flight.asked, flight.target, flight.hits)),
             Append(stream, Event("failed", flight.request, <<>>, NoHit, <<>>))}
    /\ flight' = NoFlight
    /\ UNCHANGED <<panelVars, localVars, server, pushed, knows, gapsFound>>

\* Somebody edits or deletes a message.
Changes(m) ==
    /\ server[m] < Erased
    /\ \E version \in {server[m] + 1, Erased} :
        /\ server' = [server EXCEPT ![m] = version]
        /\ pushed' = Append(pushed, [Event("change", 0, <<>>, m, <<>>) EXCEPT !.version = version])
    /\ UNCHANGED <<panelVars, localVars, flight, stream, knows, gapsFound>>

ReceivesChange ==
    /\ pushed # <<>> /\ pushed' = Tail(pushed)
    /\ stream' = Append(stream, Head(pushed))
    /\ UNCHANGED <<panelVars, localVars, flight, server, knows, gapsFound>>

\* The difference is too long: the changes in it are never received.
FindsGap ==
    /\ gapsFound < MaxGapsFound /\ gapsFound' = gapsFound + 1
    /\ pushed' = <<>>
    /\ stream' = Append(stream, Event("invalidated", 0, <<>>, NoHit, <<>>))
    /\ UNCHANGED <<panelVars, localVars, flight, server, knows>>

SearchNext ==
    \/ Submit
    \/ Turns
    \/ SubmitOffline
    \/ EditQuery
    \/ CloseSearch
    \/ ReopenSearch
    \/ OpenHit
    \/ HandleSearchEvent
    \/ TakeSearchCommand
    \/ StartPending
    \/ Scan
    \/ ScanEnds
    \/ FlushBatch
    \/ TakeStream
    \/ HandleSearch
    \/ Answers
    \/ Complete
    \/ (\E m \in Hit : Changes(m))
    \/ ReceivesChange
    \/ FindsGap

SearchSpec == SearchInit /\ [][SearchNext]_searchVars

-------------------------------------------------------------------------------
(* Properties. *)

Listed == [Hit -> 0..Erased]

SearchType ==
    /\ panel.request \in Nat /\ panel.position \in 1..MaxPages
    /\ DOMAIN page.hits \subseteq Hit
    /\ rows \in Listed /\ told \in Listed /\ server \in Listed

\* The page that is shown answers the query, the source and the position shown with it,
\* though answers of every search before it may still arrive (finish_search).
ShownIsAsked ==
    panel.open /\ page # NoPage => page.asked = Asked

\* A page of the server never shows a message older than the terminal was told, nor a
\* deleted one, whenever the answer was read (cache/search.rs:40).
CloudHitsAreCurrent ==
    page # NoPage /\ page.asked[1] = "cloud" =>
        \A m \in DOMAIN page.hits : page.hits[m] >= knows[m]

\* A search that is under way is somewhere: no cancellation of another search loses it.
SearchIsServed ==
    panel.loading =>
        \/ \E i \in DOMAIN toLocal : toLocal[i].request = panel.request
        \/ \E i \in DOMAIN waiting : waiting[i].request = panel.request
        \/ \E i \in DOMAIN stream : stream[i].request = panel.request
        \/ \E i \in DOMAIN toTerminal : toTerminal[i].request = panel.request
        \/ flight.request = panel.request
        \/ scans.queued.request = panel.request
        \/ scans.job.request = panel.request /\ ~scans.job.cancelled
        \/ \E i \in DOMAIN toTerminal : toTerminal[i].kind = "invalidated"
        \/ \E i \in DOMAIN stream : stream[i].kind = "invalidated"

\* A hit is opened only if it exists as far as the terminal was told
\* (docs/wiki/en/Search.md:29).
OpensWhatExists ==
    [][panel.target # NoHit /\ panel.open /\ ~panel'.open /\ panel'.request = panel.request
       => knows[panel.target] # Erased]_searchVars

\* The page of a search answers the search shown with it and holds what is known of its
\* messages, and a search under way is on its way to its answer.
SearchHolds == ShownIsAsked /\ CloudHitsAreCurrent /\ SearchIsServed
================================================================================
