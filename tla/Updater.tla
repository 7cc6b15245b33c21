------------------------------ MODULE Updater ------------------------------
(***************************************************************************)
(* The lists of servers: update-subscriptions.sh fetches the repository    *)
(* and the user's subscription, keeps a last-good copy of each, and        *)
(* rank-nodes.sh publishes the servers that answer.  The panel adds and    *)
(* removes the subscription meanwhile, and the power may go at any time.   *)
(*                                                                         *)
(* A list is the set of its compatible servers.  A subscription stands for *)
(* its URL and for its server.  One update runs at a time (the lock is     *)
(* NamedLock's); one that is started but has no lock yet is `starting'.    *)
(* The files YouTube checks leave for the panel and the Trojan feed, which *)
(* nothing reads, are left out.                                            *)
(***************************************************************************)
EXTENDS Naturals, FiniteSets

CONSTANTS
  Repo,           \* servers of the repository
  Subscriptions,  \* the user's links, one server each
  Requests,       \* requests of the panel at a time
  StartingMax     \* updates started at a time, before their lock

ASSUME UpdaterAssumption ==
  /\ Repo \cap Subscriptions = {}
  /\ "none" \notin Subscriptions /\ "free" \notin Requests
  /\ StartingMax \in Nat

VARIABLES
  url,       \* private/subscription.url
  work,      \* cache/<list>: the copies that are ranked
  good,      \* cache/<list>.last-good
  confs,     \* servers with a whole nodes/<id>.conf
  selected,  \* state/selected.tsv: the published servers
  starting,  \* updates before mkdir of their lock
  at,        \* step of the update that has the lock, "idle" without one
  temp,      \* the servers it has in hand: fetched, to rank, to publish
  left,      \* those of them whose nodes/<id>.conf is still to be copied
  request,   \* what each request is about: <<step, subscription>>
  control,   \* the control lock
  fetched,   \* history: the repository has been fetched once
  gone,      \* history: subscriptions removed, and not added again
  overlap,   \* history: an update ran during the removal
  asked      \* history: there has been a URL since the update began

files == <<url, work, good, confs, selected>>
update == <<starting, at, temp, left>>
panel == <<request, control>>
history == <<fetched, gone, overlap, asked>>
vars == <<files, update, panel, history>>

Servers == Repo \cup Subscriptions
Sources == {"repo", "crunch"}
NoFile == [servers |-> {}, state |-> "none"]
Whole(S) == [servers |-> S, state |-> "whole"]
Files == {NoFile} \cup [servers : SUBSET Servers, state : {"whole", "cut"}]

\* What a copy cut short leaves: fewer servers, or nothing.
Cuts(file) == {NoFile} \cup [servers : (SUBSET file.servers) \ {file.servers}, state : {"cut"}]

Places == {"idle", "repo", "repo_work", "repo_good", "crunch", "crunch_fetch", "crunch_work",
           "crunch_good", "merge", "rank", "confs", "extra"}
Stages == {"idle", "save", "refresh", "gate", "lock", "remove", "work", "good", "last"}

TypeOK ==
  /\ url \in Subscriptions \cup {"none"}
  /\ work \in [Sources -> Files] /\ good \in [Sources -> Files]
  /\ confs \in SUBSET Servers /\ selected \in SUBSET Servers
  /\ temp \in SUBSET Servers /\ left \in SUBSET Servers
  /\ starting \in 0..StartingMax /\ at \in Places
  /\ request \in [Requests -> Stages \X (Subscriptions \cup {"none"})]
  /\ control \in Requests \cup {"free"}
  /\ gone \in SUBSET Subscriptions
  /\ fetched \in BOOLEAN /\ overlap \in BOOLEAN /\ asked \in BOOLEAN

Init ==
  /\ url = "none" /\ work = [s \in Sources |-> NoFile] /\ good = work
  /\ confs = {} /\ selected = {}
  /\ starting = 0 /\ at = "idle" /\ temp = {} /\ left = {}
  /\ request = [r \in Requests |-> <<"idle", "none">>] /\ control = "free"
  /\ fetched = FALSE /\ gone = {} /\ overlap = FALSE /\ asked = FALSE

Running == at # "idle"
Updating == Running \/ starting > 0

-----------------------------------------------------------------------------
(* update-subscriptions.sh                                                 *)

Step(from, to) == at = from /\ at' = to
\* exit: the trap frees the lock.
Exit(from) ==
  /\ Step(from, "idle") /\ temp' = {} /\ left' = {} /\ asked' = FALSE
  /\ UNCHANGED <<files, starting, panel, fetched, gone, overlap>>

\* mkdir of the lock: a second update ends at once.
Begin ==
  /\ starting > 0 /\ starting' = starting - 1
  /\ IF Running THEN UNCHANGED <<at, asked>> ELSE at' = "repo" /\ asked' = (url # "none")
  /\ UNCHANGED <<files, temp, left, panel, fetched, gone, overlap>>

\* A mirror sends a list that validate() accepts, perhaps with no server this
\* engine can use ...
FetchRepo ==
  /\ Step("repo", "repo_work")
  /\ \E list \in SUBSET Repo : temp' = list
  /\ UNCHANGED <<files, starting, left, panel, history>>

\* ... and is put in place by a rename; a copy that fails ends the update.
PutWork(source, from, to) ==
  /\ Step(from, to)
  /\ work' = [work EXCEPT ![source] = Whole(temp)]
  /\ UNCHANGED <<url, good, confs, selected, starting, temp, left, panel, history>>

\* A mutant: the copy goes straight to its place.
PutGood_Direct(source, from, to) ==
  /\ Step(from, to)
  /\ \E copy \in Cuts(work[source]) \cup {work[source]} : good' = [good EXCEPT ![source] = copy]
  /\ fetched' = (fetched \/ source = "repo")
  /\ temp' = {}
  /\ UNCHANGED <<url, work, confs, selected, starting, left, panel, gone, overlap, asked>>

PutGood(source, from, to) ==
  /\ work[source] # NoFile
  /\ Step(from, to)
  /\ good' = [good EXCEPT ![source] = work[source]]
  /\ fetched' = (fetched \/ source = "repo")
  /\ temp' = {}
  /\ UNCHANGED <<url, work, confs, selected, starting, left, panel, gone, overlap, asked>>

\* No mirror answers: the last good copy, by a cp whose failure is ignored.
FallBack(source, from, to) ==
  /\ good[source] # NoFile
  /\ Step(from, to)
  /\ \E copy \in Cuts(good[source]) \cup {good[source]} : work' = [work EXCEPT ![source] = copy]
  /\ UNCHANGED <<url, good, confs, selected, starting, temp, left, panel, history>>

RepoList ==
  \/ FetchRepo \/ Exit("repo")    \* also without a clock, or a last good copy
  \/ PutWork("repo", "repo_work", "repo_good") \/ Exit("repo_work")
  \/ PutGood("repo", "repo_good", "crunch") \/ Exit("repo_good")
  \/ FallBack("repo", "repo", "crunch")

\* There is a URL.  The panel may remove or replace it from here on.
Subscribed ==
  /\ url # "none"
  /\ Step("crunch", "crunch_fetch")
  /\ UNCHANGED <<files, starting, temp, left, panel, history>>

\* The engine reads the URL from its file and fetches the list.
FetchCrunch ==
  /\ url # "none"
  /\ Step("crunch_fetch", "crunch_work")
  /\ \E list \in {{}, {url}} : temp' = list
  /\ UNCHANGED <<files, starting, left, panel, history>>

NoCrunch ==
  /\ \/ url = "none" /\ Step("crunch", "merge")
     \/ good["crunch"] = NoFile /\ Step("crunch_fetch", "merge")
  /\ UNCHANGED <<files, starting, temp, left, panel, history>>

CrunchList ==
  \/ Subscribed \/ FetchCrunch \/ NoCrunch
  \/ PutWork("crunch", "crunch_work", "crunch_good") \/ Exit("crunch_work")
  \/ PutGood("crunch", "crunch_good", "merge") \/ Exit("crunch_good")
  \/ FallBack("crunch", "crunch_fetch", "merge")

\* Mutants: a cache without its URL is merged; or one cut short.
Merged_NoUrl == work["crunch"].state = "whole"

\* A JSON text cut short does not parse.
Merged == url # "none" /\ work["crunch"].state = "whole"

\* rank-nodes.sh reads its input once.
Merge ==
  /\ Step("merge", "rank")
  /\ temp' = work["repo"].servers \cup (IF Merged THEN work["crunch"].servers ELSE {})
  /\ UNCHANGED <<files, starting, left, panel, history>>

\* Without a reachable server, selected.tsv stays.
Rank ==
  /\ Step("rank", "confs")
  /\ \E reachable \in (SUBSET temp) \ {{}} : temp' = reachable /\ left' = reachable
  /\ UNCHANGED <<files, starting, panel, history>>

PublishConf ==
  /\ at = "confs"
  /\ \E s \in left : confs' = confs \cup {s} /\ left' = left \ {s}
  /\ UNCHANGED <<url, work, good, selected, starting, at, temp, panel, history>>

\* A mutant: the list first.
PublishSelected_First ==
  /\ at = "confs" /\ selected # temp /\ at' = at
  /\ selected' = temp
  /\ UNCHANGED <<url, work, good, confs, starting, temp, left, panel, history>>

PublishSelected ==
  /\ left = {} /\ Step("confs", "extra")
  /\ selected' = temp /\ temp' = {}
  /\ UNCHANGED <<url, work, good, confs, starting, left, panel, history>>

Publish == Rank \/ PublishConf \/ PublishSelected \/ \E s \in {"merge", "rank", "confs", "extra"} : Exit(s)

-----------------------------------------------------------------------------
(* The panel.                                                              *)

Goes(r, from, to) == request[r][1] = from /\ request' = [request EXCEPT ![r][1] = to]
Ends(r, from) ==
  request[r][1] = from /\ request' = [request EXCEPT ![r] = <<"idle", "none">>]

Asks(r) ==
  /\ request[r][1] = "idle"
  /\ \E what \in {<<"refresh", "none">>, <<"gate", "none">>} \cup ({"save"} \X Subscriptions) :
       request' = [request EXCEPT ![r] = what]
  /\ UNCHANGED <<files, update, control, history>>

\* save_subscription_url(): the URL is replaced by a rename.
Save(r) ==
  /\ Goes(r, "save", "refresh")
  /\ url' = request[r][2]
  /\ gone' = gone \ {url'}
  /\ asked' = Running
  /\ UNCHANGED <<work, good, confs, selected, update, control, fetched, overlap>>

\* `refresh' looks at the locks, and starts an update, which has no lock yet.
Refresh(r) ==
  /\ Ends(r, "refresh")
  /\ \/ Running /\ UNCHANGED <<starting, overlap>>
     \/ /\ ~Running /\ starting < StartingMax
        /\ starting' = starting + 1
        /\ overlap' = (overlap \/ control # "free")
  /\ UNCHANGED <<files, at, temp, left, control, fetched, gone, asked>>

\* remove-subscription: the gate, the control lock, the mode, which is the
\* Controller's and may refuse the request.
Gate(r) ==
  /\ IF Running THEN Ends(r, "gate") ELSE Goes(r, "gate", "lock")
  /\ UNCHANGED <<files, update, control, history>>

Refuse(r) == Ends(r, "lock") /\ UNCHANGED <<files, update, control, history>>

Lock(r) ==
  /\ control = "free" /\ control' = r
  /\ Goes(r, "lock", "remove")
  /\ overlap' = Updating
  /\ UNCHANGED <<files, update, fetched, gone, asked>>

\* rm of the URL, then of the caches, then an update.
RemoveUrl(r) ==
  /\ Goes(r, "remove", "work")
  /\ url' = "none"
  /\ UNCHANGED <<work, good, confs, selected, update, control, history>>

RemoveWork(r) ==
  /\ Goes(r, "work", "good")
  /\ work' = [work EXCEPT !["crunch"] = NoFile]
  /\ UNCHANGED <<url, good, confs, selected, update, control, history>>

\* A mutant: the last good copy stays.
RemoveGood_Kept(r) == Goes(r, "good", "last") /\ UNCHANGED <<files, update, control, history>>

RemoveGood(r) ==
  /\ Goes(r, "good", "last")
  /\ good' = [good EXCEPT !["crunch"] = NoFile]
  /\ UNCHANGED <<url, work, confs, selected, update, control, history>>

Removed(r) ==
  /\ starting < StartingMax
  /\ Ends(r, "last")
  /\ starting' = starting + 1 /\ control' = "free" /\ overlap' = FALSE
  /\ gone' = (IF overlap THEN gone ELSE Subscriptions \ {url})
  /\ UNCHANGED <<files, at, temp, left, fetched, asked>>

Panel ==
  \E r \in Requests :
    \/ Asks(r) \/ Save(r) \/ Refresh(r)
    \/ Gate(r) \/ Refuse(r) \/ Lock(r) \/ RemoveUrl(r) \/ RemoveWork(r) \/ RemoveGood(r) \/ Removed(r)

\* The stick keeps what was written, in the order it was written.
PowerCut ==
  /\ starting' = 0 /\ at' = "idle" /\ temp' = {} /\ left' = {}
  /\ request' = [r \in Requests |-> <<"idle", "none">>] /\ control' = "free"
  /\ overlap' = FALSE /\ asked' = FALSE
  /\ UNCHANGED <<files, fetched, gone>>

Next == Begin \/ RepoList \/ CrunchList \/ Merge \/ Publish \/ Panel \/ PowerCut

Spec == Init /\ [][Next]_vars

-----------------------------------------------------------------------------
(* Properties.                                                             *)

\* A server of the published list has its configuration, whole, whenever the
\* power went: rank-nodes.sh copies the configurations first.
PublishedHaveConf == selected \subseteq confs

\* Once the repository has been fetched there is a last good list, and it is
\* whole, so no later update ends for want of one.
LastGoodSurvives == fetched => good["repo"].state = "whole"

\* The servers of a subscription that was removed, with no update running
\* meanwhile, are not published again, though another subscription is added
\* and its site fails, or the removal was cut short before and done again.
RemovedIsForgotten ==
  [][selected' # selected => selected' \cap gone = {}]_vars

\* An update that saw no URL publishes no server of a subscription, though a
\* removal cut short left its list in the cache.
UrlBeforeServers ==
  [][selected' # selected /\ ~asked => selected' \cap Subscriptions = {}]_vars
=============================================================================
