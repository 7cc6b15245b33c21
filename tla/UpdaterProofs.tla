--------------------------- MODULE UpdaterProofs ---------------------------
(***************************************************************************)
(* Theorems about Updater: what is published has its configuration, the    *)
(* last good list survives, and what was removed stays removed, for any    *)
(* servers, subscriptions and requests.                                    *)
(***************************************************************************)
EXTENDS Updater, TLAPS

\* What has been copied so far is in place, the list as published too.
ConfsInv == (at = "confs" => temp \ left \subseteq confs) /\ PublishedHaveConf

\* The copy that becomes the last good one is whole.
GoodInv == (at = "repo_good" => work["repo"].state = "whole") /\ LastGoodSurvives

\* Lists of the repository name no subscription.
RepoInv ==
  /\ work["repo"].servers \subseteq Repo /\ good["repo"].servers \subseteq Repo
  /\ at \in {"repo_work", "repo_good"} => temp \subseteq Repo

\* Nothing of a removed subscription is left in files or in hand.
Forgotten ==
  \A s \in gone :
    /\ s # url /\ s \notin temp
    /\ s \notin work["crunch"].servers /\ s \notin good["crunch"].servers

\* A removal holds the control lock, and what it has removed stays so while
\* no update runs.
RemovalInv ==
  /\ \A r \in Requests : request[r][1] \in {"remove", "work", "good", "last"} => control = r
  /\ control # "free" /\ ~overlap => ~Updating
  /\ \A r \in Requests : ~overlap =>
       /\ request[r][1] \in {"good", "last"} => work["crunch"] = NoFile
       /\ request[r][1] = "last" => good["crunch"] = NoFile

\* Without a URL there is nothing of a subscription in hand.
AskedInv ==
  /\ ~Running => temp = {}
  /\ Running /\ ~asked => url = "none" /\ temp \subseteq Repo

IInv ==
  TypeOK /\ ConfsInv /\ GoodInv /\ RepoInv /\ Forgotten /\ RemovalInv /\ AskedInv

-----------------------------------------------------------------------------
LEMMA FileTypes ==
  /\ NoFile \in Files
  /\ \A S \in SUBSET Servers : Whole(S) \in Files
  /\ \A f \in Files : Cuts(f) \subseteq Files
<1>1. \A S \in SUBSET Servers : Whole(S) \in Files
  BY DEF Whole, Files
<1>2. ASSUME NEW f \in Files, NEW c \in Cuts(f) PROVE c \in Files
  <2>1. CASE c = NoFile
    BY <2>1 DEF Files
  <2>2. CASE c # NoFile
    <3>1. f.servers \subseteq Servers
      BY DEF Files, NoFile
    <3>2. c \in [servers : SUBSET f.servers, state : {"cut"}]
      BY <2>2 DEF Cuts
    <3> QED
      BY <3>1, <3>2 DEF Files
  <2> QED
    BY <2>1, <2>2
<1> QED
  BY <1>1, <1>2 DEF Files

LEMMA IdleTypes ==
  [r \in Requests |-> <<"idle", "none">>] \in [Requests -> Stages \X (Subscriptions \cup {"none"})]
BY DEF Stages

LEMMA InitInv == Init => IInv
<1> SUFFICES ASSUME Init PROVE IInv
  OBVIOUS
<1> USE UpdaterAssumption, FileTypes DEF Init
<1>1. TypeOK
  <2>1. request \in [Requests -> Stages \X (Subscriptions \cup {"none"})]
    BY IdleTypes
  <2>2. work \in [Sources -> Files] /\ good \in [Sources -> Files]
    OBVIOUS
  <2>3. fetched \in BOOLEAN /\ overlap \in BOOLEAN /\ asked \in BOOLEAN
    OBVIOUS
  <2> QED
    BY <2>1, <2>2, <2>3 DEF TypeOK, Places
<1>2. ConfsInv /\ AskedInv
  BY DEF ConfsInv, PublishedHaveConf, AskedInv, Running
<1>3. GoodInv /\ RepoInv /\ Forgotten
  BY DEF GoodInv, LastGoodSurvives, RepoInv, Forgotten, NoFile, Sources
<1>4. RemovalInv
  BY DEF RemovalInv
<1> QED
  BY <1>1, <1>2, <1>3, <1>4 DEF IInv

\* Every action keeps the types.
LEMMA TypeStep == TypeOK /\ [Next]_vars => TypeOK'
<1> SUFFICES ASSUME TypeOK, [Next]_vars PROVE TypeOK'
  OBVIOUS
<1> USE UpdaterAssumption
    DEF TypeOK, Places, files, update, panel, history, Step
<1>0. <<"idle", "none">> \in Stages \X (Subscriptions \cup {"none"})
  BY DEF Stages
<1>1. CASE Begin
  <2>1. asked' \in BOOLEAN
    BY <1>1 DEF Begin
  <2> QED
    BY <1>1, <2>1 DEF Begin
<1>2. ASSUME NEW p \in Places, Exit(p) PROVE TypeOK'
  BY <1>2 DEF Exit
<1>3. CASE FetchRepo
  BY <1>3 DEF FetchRepo, Servers
<1>4. ASSUME NEW s \in Sources, NEW p \in Places, NEW q \in Places, PutWork(s, p, q)
      PROVE  TypeOK'
  BY <1>4, FileTypes DEF PutWork
<1>5. ASSUME NEW s \in Sources, NEW p \in Places, NEW q \in Places, PutGood(s, p, q)
      PROVE  TypeOK'
  BY <1>5, FileTypes DEF PutGood
<1>6. ASSUME NEW s \in Sources, NEW p \in Places, NEW q \in Places, FallBack(s, p, q)
      PROVE  TypeOK'
  BY <1>6, FileTypes DEF FallBack
<1>7. CASE RepoList
  BY <1>2, <1>3, <1>4, <1>5, <1>6, <1>7 DEF RepoList, Sources
<1>8. CASE Subscribed \/ NoCrunch
  BY <1>8 DEF Subscribed, NoCrunch
<1>9. CASE FetchCrunch
  BY <1>9 DEF FetchCrunch, Servers
<1>10. CASE CrunchList
  BY <1>2, <1>4, <1>5, <1>6, <1>8, <1>9, <1>10 DEF CrunchList, Sources
<1>11. CASE Merge
  <2>1. \A f \in Files : f.servers \subseteq Servers
    BY DEF Files, NoFile
  <2> QED
    BY <1>11, <2>1 DEF Merge, Sources
<1>12. CASE Rank
  BY <1>12 DEF Rank
<1>13. CASE PublishConf
  BY <1>13 DEF PublishConf
<1>14. CASE PublishSelected
  BY <1>14 DEF PublishSelected
<1>15. CASE Publish
  BY <1>2, <1>12, <1>13, <1>14, <1>15 DEF Publish
<1>16. ASSUME NEW r \in Requests, Asks(r) PROVE TypeOK'
  BY <1>16 DEF Asks, Stages
<1>17. ASSUME NEW r \in Requests, Save(r) PROVE TypeOK'
  BY <1>17 DEF Save, Goes, Stages, Running
<1>18. ASSUME NEW r \in Requests, Refresh(r) PROVE TypeOK'
  <2>1. overlap' \in BOOLEAN
    BY <1>18 DEF Refresh
  <2> QED
    BY <1>0, <1>18, <2>1 DEF Refresh, Ends
<1>19. ASSUME NEW r \in Requests, Gate(r) \/ Refuse(r) \/ Lock(r) PROVE TypeOK'
  <2>1. overlap' \in BOOLEAN
    BY <1>19 DEF Gate, Refuse, Lock, Updating, Running
  <2>2. request' \in [Requests -> Stages \X (Subscriptions \cup {"none"})]
    BY <1>0, <1>19 DEF Gate, Refuse, Lock, Goes, Ends, Stages
  <2> QED
    BY <1>19, <2>1, <2>2 DEF Gate, Refuse, Lock
<1>20. ASSUME NEW r \in Requests, RemoveUrl(r) \/ RemoveWork(r) \/ RemoveGood(r) PROVE TypeOK'
  BY <1>20, FileTypes DEF RemoveUrl, RemoveWork, RemoveGood, Goes, Stages
<1>21. ASSUME NEW r \in Requests, Removed(r) PROVE TypeOK'
  <2>1. gone' \in SUBSET Subscriptions
    BY <1>21 DEF Removed
  <2>2. request' \in [Requests -> Stages \X (Subscriptions \cup {"none"})]
    BY <1>0, <1>21 DEF Removed, Ends
  <2>3. starting' \in 0..StartingMax
    BY <1>21 DEF Removed
  <2>4. overlap' \in BOOLEAN /\ fetched' \in BOOLEAN /\ asked' \in BOOLEAN
    BY <1>21 DEF Removed
  <2> QED
    BY <1>21, <2>1, <2>2, <2>3, <2>4 DEF Removed
<1>22. CASE PowerCut
  <2>1. request' = [r \in Requests |-> <<"idle", "none">>]
    BY <1>22 DEF PowerCut
  <2>2. request' \in [Requests -> Stages \X (Subscriptions \cup {"none"})]
    BY <2>1, IdleTypes, Zenon
  <2>3. overlap' \in BOOLEAN /\ asked' \in BOOLEAN /\ fetched' \in BOOLEAN
    BY <1>22 DEF PowerCut
  <2> QED
    BY <1>22, <2>2, <2>3 DEF PowerCut
<1>23. CASE UNCHANGED vars
  BY <1>23 DEF vars
<1> QED
  BY <1>1, <1>7, <1>10, <1>11, <1>15, <1>16, <1>17, <1>18, <1>19, <1>20, <1>21, <1>22, <1>23
  DEF Next, Panel

\* What the panel leaves alone.
LEMMA PanelFrame ==
  ASSUME TypeOK, Panel
  PROVE  /\ UNCHANGED <<at, temp, left, confs, selected, fetched>>
         /\ work'["repo"] = work["repo"] /\ good'["repo"] = good["repo"]
<1> USE DEF files, update, panel, history
<1>1. PICK r \in Requests :
        \/ Asks(r) \/ Save(r) \/ Refresh(r) \/ Gate(r) \/ Refuse(r) \/ Lock(r) \/ Removed(r)
        \/ RemoveUrl(r) \/ RemoveWork(r) \/ RemoveGood(r)
  BY DEF Panel
<1>2. CASE Asks(r) \/ Save(r) \/ Refresh(r) \/ Gate(r) \/ Refuse(r) \/ Lock(r) \/ Removed(r)
  BY <1>2 DEF Asks, Save, Refresh, Gate, Refuse, Lock, Removed
<1>3. CASE RemoveUrl(r) \/ RemoveWork(r) \/ RemoveGood(r)
  BY <1>3 DEF RemoveUrl, RemoveWork, RemoveGood, TypeOK, Sources
<1> QED
  BY <1>1, <1>2, <1>3

\* What fetching and merging leave alone.
LEMMA FetchFrame ==
  ASSUME RepoList \/ CrunchList \/ Merge
  PROVE  /\ UNCHANGED <<url, confs, selected, starting, panel, gone, overlap>>
         /\ at # "idle" /\ at' # "confs"
BY DEF RepoList, CrunchList, Merge, Exit, FetchRepo, PutWork, PutGood, FallBack, Subscribed,
       FetchCrunch, NoCrunch, Step, files, update, panel, history

LEMMA ConfsStep == TypeOK /\ ConfsInv /\ [Next]_vars => ConfsInv'
<1> SUFFICES ASSUME TypeOK, ConfsInv, [Next]_vars PROVE ConfsInv'
  OBVIOUS
<1> USE DEF ConfsInv, PublishedHaveConf, files, update, panel, history
<1>1. CASE Begin
  BY <1>1 DEF Begin, Running
<1>2. CASE RepoList \/ CrunchList \/ Merge
  BY <1>2, FetchFrame
<1>3. CASE Publish
  <2>1. CASE Rank
    BY <2>1 DEF Rank, Step
  <2>2. CASE PublishConf
    BY <2>2 DEF PublishConf
  <2>3. CASE PublishSelected
    BY <2>3 DEF PublishSelected, Step
  <2>4. CASE \E p \in {"merge", "rank", "confs", "extra"} : Exit(p)
    BY <2>4 DEF Exit, Step
  <2> QED
    BY <1>3, <2>1, <2>2, <2>3, <2>4 DEF Publish
<1>4. CASE Panel
  BY <1>4, PanelFrame
<1>5. CASE PowerCut
  BY <1>5 DEF PowerCut
<1>6. CASE UNCHANGED vars
  BY <1>6 DEF vars
<1> QED
  BY <1>1, <1>2, <1>3, <1>4, <1>5, <1>6 DEF Next

LEMMA GoodStep == TypeOK /\ GoodInv /\ [Next]_vars => GoodInv'
<1> SUFFICES ASSUME TypeOK, GoodInv, [Next]_vars PROVE GoodInv'
  OBVIOUS
<1> USE DEF GoodInv, LastGoodSurvives, files, update, panel, history
<1>1. CASE Begin
  BY <1>1 DEF Begin
<1>2. ASSUME NEW p \in Places, Exit(p) PROVE GoodInv'
  BY <1>2 DEF Exit, Step
<1>3. CASE RepoList
  <2>1. CASE FetchRepo
    BY <2>1 DEF FetchRepo, Step
  <2>2. CASE PutWork("repo", "repo_work", "repo_good")
    BY <2>2 DEF PutWork, Whole, TypeOK, Sources
  <2>3. CASE PutGood("repo", "repo_good", "crunch")
    BY <2>3 DEF PutGood, Step, TypeOK, Sources
  <2>4. CASE FallBack("repo", "repo", "crunch")
    BY <2>4 DEF FallBack, Step
  <2> QED
    BY <1>2, <1>3, <2>1, <2>2, <2>3, <2>4 DEF RepoList, Places
<1>4. CASE CrunchList
  <2>1. CASE Subscribed \/ FetchCrunch \/ NoCrunch
    BY <2>1 DEF Subscribed, FetchCrunch, NoCrunch, Step
  <2>2. CASE PutWork("crunch", "crunch_work", "crunch_good")
    BY <2>2 DEF PutWork, Step, TypeOK, Sources
  <2>3. CASE PutGood("crunch", "crunch_good", "merge")
    BY <2>3 DEF PutGood, Step, TypeOK, Sources
  <2>4. CASE FallBack("crunch", "crunch_fetch", "merge")
    BY <2>4 DEF FallBack, Step
  <2> QED
    BY <1>2, <1>4, <2>1, <2>2, <2>3, <2>4 DEF CrunchList, Places
<1>5. CASE Merge
  BY <1>5 DEF Merge, Step
<1>6. CASE Publish
  BY <1>2, <1>6 DEF Publish, Rank, PublishConf, PublishSelected, Step, Places
<1>7. CASE Panel
  BY <1>7, PanelFrame
<1>8. CASE PowerCut
  BY <1>8 DEF PowerCut
<1>9. CASE UNCHANGED vars
  BY <1>9 DEF vars
<1> QED
  BY <1>1, <1>3, <1>4, <1>5, <1>6, <1>7, <1>8, <1>9 DEF Next

\* A copy, whole or cut, names no server its original does not.
LEMMA CopyNames ==
  ASSUME NEW file, NEW copy \in Cuts(file) \cup {file}
  PROVE  copy.servers \subseteq file.servers
<1>1. NoFile.servers = {}
  BY DEF NoFile
<1>2. \A c \in [servers : (SUBSET file.servers) \ {file.servers}, state : {"cut"}] :
        c.servers \subseteq file.servers
  OBVIOUS
<1> QED
  BY <1>1, <1>2 DEF Cuts

LEMMA RepoStep == TypeOK /\ RepoInv /\ [Next]_vars => RepoInv'
<1> SUFFICES ASSUME TypeOK, RepoInv, [Next]_vars PROVE RepoInv'
  OBVIOUS
<1> USE DEF RepoInv, files, update, panel, history
<1>1. CASE Begin
  BY <1>1 DEF Begin
<1>2. ASSUME NEW p \in Places, Exit(p) PROVE RepoInv'
  BY <1>2 DEF Exit, Step
<1>3. CASE RepoList
  <2>1. CASE FetchRepo
    BY <2>1 DEF FetchRepo, Step
  <2>2. CASE PutWork("repo", "repo_work", "repo_good")
    BY <2>2 DEF PutWork, Step, Whole, TypeOK, Sources
  <2>3. CASE PutGood("repo", "repo_good", "crunch")
    BY <2>3 DEF PutGood, Step, TypeOK, Sources
  <2>4. CASE FallBack("repo", "repo", "crunch")
    BY <2>4, CopyNames DEF FallBack, Step, TypeOK, Sources
  <2> QED
    BY <1>2, <1>3, <2>1, <2>2, <2>3, <2>4 DEF RepoList, Places
<1>4. CASE CrunchList
  <2>1. CASE Subscribed \/ FetchCrunch \/ NoCrunch
    BY <2>1 DEF Subscribed, FetchCrunch, NoCrunch, Step
  <2>2. CASE PutWork("crunch", "crunch_work", "crunch_good")
    BY <2>2 DEF PutWork, Step, TypeOK, Sources
  <2>3. CASE PutGood("crunch", "crunch_good", "merge")
    BY <2>3 DEF PutGood, Step, TypeOK, Sources
  <2>4. CASE FallBack("crunch", "crunch_fetch", "merge")
    BY <2>4 DEF FallBack, Step, TypeOK, Sources
  <2> QED
    BY <1>2, <1>4, <2>1, <2>2, <2>3, <2>4 DEF CrunchList, Places
<1>5. CASE Merge
  BY <1>5 DEF Merge, Step
<1>6. CASE Publish
  BY <1>2, <1>6 DEF Publish, Rank, PublishConf, PublishSelected, Step, Places
<1>7. CASE Panel
  BY <1>7, PanelFrame
<1>8. CASE PowerCut
  BY <1>8 DEF PowerCut
<1>9. CASE UNCHANGED vars
  BY <1>9 DEF vars
<1> QED
  BY <1>1, <1>3, <1>4, <1>5, <1>6, <1>7, <1>8, <1>9 DEF Next

LEMMA AskedStep == TypeOK /\ RepoInv /\ AskedInv /\ [Next]_vars => AskedInv'
<1> SUFFICES ASSUME TypeOK, RepoInv, AskedInv, [Next]_vars PROVE AskedInv'
  OBVIOUS
<1> USE DEF AskedInv, Running, files, update, panel, history
<1>1. CASE Begin
  BY <1>1 DEF Begin
<1>2. ASSUME NEW p \in Places, Exit(p) PROVE AskedInv'
  BY <1>2 DEF Exit, Step
<1>3. ASSUME NEW s, NEW from \in Places \ {"idle"}, NEW to \in Places \ {"idle"},
             PutWork(s, from, to) \/ PutGood(s, from, to) \/ FallBack(s, from, to)
      PROVE  AskedInv'
  BY <1>3 DEF PutWork, PutGood, FallBack, Step, Places
<1>4. CASE FetchRepo
  BY <1>4 DEF FetchRepo, Step
<1>5. CASE RepoList
  BY <1>2, <1>3, <1>4, <1>5 DEF RepoList, Places
<1>6. CASE Subscribed \/ FetchCrunch \/ NoCrunch
  BY <1>6 DEF Subscribed, FetchCrunch, NoCrunch, Step
<1>7. CASE CrunchList
  BY <1>2, <1>3, <1>6, <1>7 DEF CrunchList, Places
<1>8. CASE Merge
  BY <1>8 DEF Merge, Merged, Step, RepoInv
<1>9. CASE Publish
  <2>1. CASE Rank
    BY <2>1 DEF Rank, Step
  <2>2. CASE PublishConf
    BY <2>2 DEF PublishConf
  <2>3. CASE PublishSelected
    BY <2>3 DEF PublishSelected, Step
  <2> QED
    BY <1>2, <1>9, <2>1, <2>2, <2>3 DEF Publish, Places
<1>10. CASE Panel
  <2>1. PICK r \in Requests :
          \/ Asks(r) \/ Refresh(r) \/ Gate(r) \/ Refuse(r) \/ Lock(r) \/ Removed(r)
          \/ RemoveUrl(r) \/ RemoveWork(r) \/ RemoveGood(r) \/ Save(r)
    BY <1>10 DEF Panel
  <2>2. CASE Save(r)
    BY <2>2 DEF Save
  <2>3. CASE RemoveUrl(r)
    BY <2>3 DEF RemoveUrl
  <2>4. CASE ~Save(r) /\ ~RemoveUrl(r)
    BY <2>1, <2>4 DEF Asks, Refresh, Gate, Refuse, Lock, Removed, RemoveWork, RemoveGood
  <2> QED
    BY <2>2, <2>3, <2>4
<1>11. CASE PowerCut
  BY <1>11 DEF PowerCut
<1>12. CASE UNCHANGED vars
  BY <1>12 DEF vars
<1> QED
  BY <1>1, <1>5, <1>7, <1>8, <1>9, <1>10, <1>11, <1>12 DEF Next

LEMMA ForgottenStep ==
  TypeOK /\ RepoInv /\ Forgotten /\ RemovalInv /\ AskedInv /\ [Next]_vars => Forgotten'
<1> SUFFICES ASSUME TypeOK, RepoInv, Forgotten, RemovalInv, AskedInv, [Next]_vars
             PROVE  Forgotten'
  OBVIOUS
<1> USE UpdaterAssumption DEF Forgotten, files, update, panel, history
<1>1. CASE Begin
  BY <1>1 DEF Begin
<1>2. ASSUME NEW p, Exit(p) PROVE Forgotten'
  BY <1>2 DEF Exit
<1>3. CASE RepoList
  <2>1. CASE FetchRepo
    BY <2>1 DEF FetchRepo, TypeOK
  <2>2. CASE PutWork("repo", "repo_work", "repo_good")
    BY <2>2 DEF PutWork, TypeOK, Sources
  <2>3. CASE PutGood("repo", "repo_good", "crunch")
    BY <2>3 DEF PutGood, TypeOK, Sources
  <2>4. CASE FallBack("repo", "repo", "crunch")
    BY <2>4 DEF FallBack, TypeOK, Sources
  <2> QED
    BY <1>2, <1>3, <2>1, <2>2, <2>3, <2>4 DEF RepoList
<1>4. CASE CrunchList
  <2>1. CASE Subscribed \/ NoCrunch
    BY <2>1 DEF Subscribed, NoCrunch
  <2>2. CASE FetchCrunch
    BY <2>2 DEF FetchCrunch
  <2>3. CASE PutWork("crunch", "crunch_work", "crunch_good")
    BY <2>3 DEF PutWork, Whole, TypeOK, Sources
  <2>4. CASE PutGood("crunch", "crunch_good", "merge")
    BY <2>4 DEF PutGood, TypeOK, Sources
  <2>5. CASE FallBack("crunch", "crunch_fetch", "merge")
    BY <2>5, CopyNames DEF FallBack, TypeOK, Sources
  <2> QED
    BY <1>2, <1>4, <2>1, <2>2, <2>3, <2>4, <2>5 DEF CrunchList
<1>5. CASE Merge
  BY <1>5 DEF Merge, RepoInv, TypeOK
<1>6. CASE Publish
  <2>1. CASE Rank
    BY <2>1 DEF Rank
  <2>2. CASE PublishConf
    BY <2>2 DEF PublishConf
  <2>3. CASE PublishSelected
    BY <2>3 DEF PublishSelected
  <2> QED
    BY <1>2, <1>6, <2>1, <2>2, <2>3 DEF Publish
<1>7. CASE Panel
  <2>1. PICK r \in Requests :
          \/ Asks(r) \/ Refresh(r) \/ Gate(r) \/ Refuse(r) \/ Lock(r)
          \/ Save(r) \/ RemoveUrl(r) \/ RemoveWork(r) \/ RemoveGood(r) \/ Removed(r)
    BY <1>7 DEF Panel
  <2>2. CASE Asks(r) \/ Refresh(r) \/ Gate(r) \/ Refuse(r) \/ Lock(r)
    BY <2>2 DEF Asks, Refresh, Gate, Refuse, Lock
  <2>3. CASE Save(r)
    BY <2>3 DEF Save
  <2>4. CASE RemoveUrl(r)
    BY <2>4 DEF RemoveUrl, TypeOK
  <2>5. CASE RemoveWork(r)
    BY <2>5 DEF RemoveWork, TypeOK, Sources, NoFile
  <2>6. CASE RemoveGood(r)
    BY <2>6 DEF RemoveGood, TypeOK, Sources, NoFile
  <2>7. CASE Removed(r)
    <3>1. CASE overlap
      BY <2>7, <3>1 DEF Removed
    <3>2. CASE ~overlap
      <4>1. request[r][1] = "last" /\ control = r
        BY <2>7 DEF Removed, Ends, RemovalInv
      <4>2. temp = {}
        BY <3>2, <4>1 DEF RemovalInv, Updating, AskedInv
      <4>3. work["crunch"] = NoFile /\ good["crunch"] = NoFile
        BY <3>2, <4>1 DEF RemovalInv
      <4> QED
        BY <2>7, <3>2, <4>2, <4>3 DEF Removed, NoFile
    <3> QED
      BY <3>1, <3>2
  <2> QED
    BY <2>1, <2>2, <2>3, <2>4, <2>5, <2>6, <2>7
<1>8. CASE PowerCut
  BY <1>8 DEF PowerCut
<1>9. CASE UNCHANGED vars
  BY <1>9 DEF vars
<1> QED
  BY <1>1, <1>3, <1>4, <1>5, <1>6, <1>7, <1>8, <1>9 DEF Next

\* A request goes from one stage to another, the others stay at theirs.
LEMMA Moves ==
  ASSUME TypeOK, NEW r \in Requests
  PROVE  /\ \A from, to \in Stages : Goes(r, from, to) =>
              /\ request[r][1] = from /\ request'[r][1] = to
              /\ \A q \in Requests \ {r} : request'[q] = request[q]
         /\ \A from \in Stages : Ends(r, from) =>
              /\ request[r][1] = from /\ request'[r][1] = "idle"
              /\ \A q \in Requests \ {r} : request'[q] = request[q]
BY DEF TypeOK, Goes, Ends

LEMMA RemovalStep == TypeOK /\ RemovalInv /\ [Next]_vars => RemovalInv'
<1> SUFFICES ASSUME TypeOK, RemovalInv, [Next]_vars PROVE RemovalInv'
  OBVIOUS
<1> USE UpdaterAssumption DEF RemovalInv, Updating, Running, files, update, panel, history
<1>1. CASE Begin
  BY <1>1 DEF Begin, TypeOK
<1>2. CASE RepoList \/ CrunchList \/ Merge
  <2>1. UNCHANGED <<request, control, overlap>> /\ Running
    BY <1>2, FetchFrame
  <2>2. control # "free" => overlap
    BY <2>1
  <2> QED
    BY <2>1, <2>2
<1>3. CASE Publish
  BY <1>3 DEF Publish, Rank, PublishConf, PublishSelected, Exit, Step
<1>4. CASE Panel
  <2>1. PICK r \in Requests :
          \/ Asks(r) \/ Save(r) \/ Refresh(r) \/ Gate(r) \/ Refuse(r) \/ Lock(r)
          \/ RemoveUrl(r) \/ RemoveWork(r) \/ RemoveGood(r) \/ Removed(r)
    BY <1>4 DEF Panel
  <2> USE Moves DEF Stages
  <2>2. CASE Asks(r)
    <3>1. request'[r][1] \in {"refresh", "gate", "save"}
      BY <2>2 DEF Asks, TypeOK
    <3>2. \A q \in Requests \ {r} : request'[q] = request[q]
      BY <2>2 DEF Asks, TypeOK
    <3> QED
      BY <2>2, <3>1, <3>2 DEF Asks
  <2>3. CASE Save(r)
    BY <2>3 DEF Save
  <2>4. CASE Refresh(r)
    <3>1. request'[r][1] = "idle" /\ \A q \in Requests \ {r} : request'[q] = request[q]
      BY <2>4 DEF Refresh
    <3>2. UNCHANGED <<work, good, control, at>>
      BY <2>4 DEF Refresh
    <3>3. control # "free" => overlap'
      <4>1. CASE Running /\ overlap' = overlap
        BY <4>1
      <4>2. CASE overlap' = (overlap \/ control # "free")
        BY <4>2, Zenon
      <4> QED
        BY <2>4, <4>1, <4>2 DEF Refresh
    <3> QED
      BY <3>1, <3>2, <3>3
  <2>5. CASE Gate(r) \/ Refuse(r)
    <3>1. /\ request'[r][1] \in {"idle", "lock"}
          /\ \A q \in Requests \ {r} : request'[q] = request[q]
      BY <2>5 DEF Gate, Refuse
    <3>2. UNCHANGED <<files, update, control, history>>
      BY <2>5 DEF Gate, Refuse
    <3> QED
      BY <3>1, <3>2
  <2>6. CASE Lock(r)
    <3>1. request'[r][1] = "remove" /\ \A q \in Requests \ {r} : request'[q] = request[q]
      BY <2>6 DEF Lock
    <3>2. \A q \in Requests : request[q][1] \notin {"remove", "work", "good", "last"}
      BY <2>6 DEF Lock
    <3>3. control' = r /\ UNCHANGED <<at, starting>>
      BY <2>6 DEF Lock
    <3>4. overlap' = Updating
      BY <2>6 DEF Lock
    <3>5. ~overlap' => ~Updating'
      BY <3>3, <3>4
    <3> QED
      BY <3>1, <3>2, <3>3, <3>5
  <2>7. CASE RemoveUrl(r)
    BY <2>7 DEF RemoveUrl
  <2>8. CASE RemoveWork(r)
    <3>1. work'["crunch"] = NoFile
      BY <2>8 DEF RemoveWork, TypeOK, Sources
    <3> QED
      BY <2>8, <3>1 DEF RemoveWork
  <2>9. CASE RemoveGood(r)
    <3>1. good'["crunch"] = NoFile
      BY <2>9 DEF RemoveGood, TypeOK, Sources
    <3> QED
      BY <2>9, <3>1 DEF RemoveGood
  <2>10. CASE Removed(r)
    BY <2>10 DEF Removed
  <2> QED
    BY <2>1, <2>2, <2>3, <2>4, <2>5, <2>6, <2>7, <2>8, <2>9, <2>10
<1>5. CASE PowerCut
  BY <1>5 DEF PowerCut
<1>6. CASE UNCHANGED vars
  BY <1>6 DEF vars
<1> QED
  BY <1>1, <1>2, <1>3, <1>4, <1>5, <1>6 DEF Next

-----------------------------------------------------------------------------
LEMMA Inductive == Spec => []IInv
<1>1. IInv /\ [Next]_vars => IInv'
  BY TypeStep, ConfsStep, GoodStep, RepoStep, ForgottenStep, RemovalStep, AskedStep DEF IInv
<1> QED
  BY InitInv, <1>1, PTL DEF Spec

\* Only the last step of a publication changes the published list, to what
\* the update has in hand.
LEMMA PublishesWhatItHas ==
  ASSUME TypeOK, [Next]_vars, selected' # selected
  PROVE  PublishSelected
<1> USE DEF files, update, panel, history
<1>1. ~(RepoList \/ CrunchList \/ Merge)
  BY FetchFrame
<1>2. ~Panel
  BY PanelFrame
<1>3. ~(Begin \/ PowerCut \/ UNCHANGED vars)
  BY DEF Begin, PowerCut, vars
<1> QED
  BY <1>1, <1>2, <1>3 DEF Next, Publish, Rank, PublishConf, Exit

\* Type correctness of the updater, for any servers and requests.
THEOREM TypeCorrect == Spec => []TypeOK
BY Inductive, PTL DEF IInv

\* Every published server has its whole configuration file, whenever the
\* power goes: rank-nodes.sh copies the configurations first and the list last.
THEOREM PublishedServersHaveConf == Spec => []PublishedHaveConf
BY Inductive, PTL DEF IInv, ConfsInv

\* Once the repository was fetched, its last good list is there, and whole:
\* update-subscriptions.sh replaces it by a rename, from a whole copy only.
THEOREM LastGoodStays == Spec => []LastGoodSurvives
BY Inductive, PTL DEF IInv, GoodInv

\* The servers of a removed subscription are not published again: neither the
\* caches nor the update that runs have them.
THEOREM RemovedStaysRemoved == Spec => RemovedIsForgotten
<1>1. IInv /\ [Next]_vars => [selected' # selected => selected' \cap gone = {}]_vars
  <2> SUFFICES ASSUME IInv, [Next]_vars, selected' # selected PROVE selected' \cap gone = {}
    OBVIOUS
  <2> QED
    BY PublishesWhatItHas DEF IInv, Forgotten, PublishSelected
<1> QED
  BY Inductive, <1>1, PTL DEF Spec, RemovedIsForgotten

\* An update that saw no URL publishes servers of the repository only.
THEOREM NoUrlNoServers == Spec => UrlBeforeServers
<1>1. IInv /\ [Next]_vars =>
        [selected' # selected /\ ~asked => selected' \cap Subscriptions = {}]_vars
  <2> SUFFICES ASSUME IInv, [Next]_vars, selected' # selected, ~asked
               PROVE  selected' \cap Subscriptions = {}
    OBVIOUS
  <2>1. PublishSelected
    BY PublishesWhatItHas DEF IInv
  <2>2. temp \subseteq Repo
    BY <2>1 DEF IInv, AskedInv, PublishSelected, Step, Running
  <2> QED
    BY <2>1, <2>2, UpdaterAssumption DEF PublishSelected
<1> QED
  BY Inductive, <1>1, PTL DEF Spec, UrlBeforeServers
=============================================================================
