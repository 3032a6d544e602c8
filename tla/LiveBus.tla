------------------------------- MODULE LiveBus -------------------------------
(***************************************************************************)
(* Live queries of the web front end.  Whoever commits a change appends    *)
(* its topic to the stream of changes.  Every Service Worker reads that    *)
(* stream through a consumer group of its own (QueryRuntime) and rings the *)
(* subscriptions of its worker (Bus); a subscription never carries data:   *)
(* when its bell rings, the request that holds it queries its channels     *)
(* again and writes what has changed.                                      *)
(*                                                                         *)
(* One worker and one request.  A command of the reader to Redis is a step *)
(* of its own and may fail, before or after its effect; after a blocking   *)
(* read whose connection broke the server may still execute that read.     *)
(* The worker is one event loop: a query is where others get their turn,   *)
(* ringing a bell is not.  A new process has a new group and no            *)
(* subscription, so a restart is a fresh behaviour; trimming the stream    *)
(* (100000 entries) is left out.                                           *)
(***************************************************************************)
EXTENDS Integers, Sequences, FiniteSets

CONSTANTS
  Area,        \* topics under which changes are announced
  Channel,     \* topics of the channels a request may serve
  ReadCount,   \* COUNT of the group reads (256 in the code)
  MaxEdits,    \* bound on the changes
  MaxBroken,   \* bound on failures of the reader's commands
  MaxMisses    \* bound on failing queries

ASSUME LiveConstants ==
  /\ ReadCount \in Nat \ {0}
  /\ MaxEdits \in Nat /\ MaxBroken \in Nat /\ MaxMisses \in Nat

VARIABLES
  truth,       \* version of the committed data of each area
  unannounced, \* areas whose change is committed and not in the stream yet
  changes,     \* the stream: topic, and version of the data it announces
  handed,      \* last-delivered entry of the group
  unacked,     \* pending entries of the group
  reader,      \* where QueryRuntime::run is, with the entries it handles
  stray,       \* a broken blocking read may still be executed
  session,     \* where the request is, and the loop that serves it
  bell,        \* the channel of capacity one holds a notification
  changed,     \* Subscription::changedTopics
  todo,        \* channels still to query in this turn
  view,        \* the payload last written to each channel
  failing,     \* channels whose payload is an error
  broken, misses

storeVars == <<truth, unannounced, changes>>
groupVars == <<handed, unacked, stray>>
viewVars == <<todo, view, failing, misses>>
bellVars == <<bell, changed>>
liveVars == <<storeVars, groupVars, reader, session, bellVars, viewVars,
              broken>>

\* Pairs of a watched topic and a topic that changes what it shows.
Feeds ==
  ({"command"} \X {"device", "protocol"})
  \cup ({"device.realtime"} \X {"device", "protocol", "link", "edge"})
  \cup ({"device"} \X {"protocol", "link", "edge"})
  \cup ({"access"} \X {"device.realtime", "device", "protocol", "alert"})
  \cup ({"edge"} \X {"device", "link", "protocol"})
  \cup ({"alert"} \X {"protocol", "device"})
  \cup ({"vpn"} \X {"edge"})

Affects(target, topic) ==
  \/ topic \in {"*", "auth", target}
  \/ <<target, topic>> \in Feeds

\* What the query of a channel reads.
Reads(c) == {a \in Area : Affects(c, a)}

\* serveSnapshots watches one topic; serveSnapshotChannels any number of them.
InitLive ==
  /\ truth = [a \in Area |-> 0] /\ unannounced = {} /\ changes = <<>>
  /\ handed = 0 /\ unacked = {} /\ stray = FALSE
  /\ reader = [at |-> "recovering", recovers |-> TRUE, batch |-> {}]
  /\ \/ session = [at |-> "none", channels |-> Channel, single |-> FALSE]
     \/ \E c \in Channel :
          session = [at |-> "none", channels |-> {c}, single |-> TRUE]
  /\ bell = FALSE /\ changed = {}
  /\ todo = {} /\ failing = {}
  /\ view = [c \in Channel |-> [a \in Reads(c) |-> 0]]
  /\ broken = 0 /\ misses = 0

-----------------------------------------------------------------------------
\* The writers, outside of this module.

Edit(a) ==
  /\ a \notin unannounced /\ Len(changes) + Cardinality(unannounced) < MaxEdits
  /\ truth' = [truth EXCEPT ![a] = @ + 1]
  /\ unannounced' = unannounced \cup {a}
  /\ UNCHANGED <<changes, groupVars, reader, session, bellVars, viewVars,
                 broken>>

\* live::publish, after the commit.
Announce(a) ==
  /\ a \in unannounced
  /\ unannounced' = unannounced \ {a}
  /\ changes' = Append(changes, [topic |-> a, version |-> truth[a]])
  /\ UNCHANGED <<truth, groupVars, reader, session, bellVars, viewVars, broken>>

-----------------------------------------------------------------------------
\* Bus.

BugSubscribesAfterFirstQuery == session.at \in {"waiting", "querying"}
Subscribed == session.at \in {"opening", "waiting", "querying"}

\* Bus::publish rings the subscriptions they affect; a bell that has rung
\* already stays rung.  A single subscription keeps no set of changed topics.
Ring(topics) ==
  LET heard == {c \in session.channels : \E t \in topics : Affects(c, t)}
      kept == changed \cup heard
  IN IF ~Subscribed THEN UNCHANGED bellVars
     ELSE IF session.single
     THEN bell' = (bell \/ heard # {}) /\ UNCHANGED changed
     ELSE changed' = kept /\ bell' = (bell \/ kept # {})

-----------------------------------------------------------------------------
\* QueryRuntime::run.

ReaderGoes(stage, ids) ==
  reader' = [at |-> stage, recovers |-> reader.recovers, batch |-> ids]

\* The entries a read of new entries gives out.
Unread == {i \in DOMAIN changes : i > handed /\ i <= handed + ReadCount}

GiveOut ==
  /\ Unread # {}
  /\ unacked' = unacked \cup Unread
  /\ handed' = handed + Cardinality(Unread)

BugRecoversSilently == UNCHANGED bellVars
RingEverything == Ring({"*"})

\* ensureGroup, then every local subscription is rebuilt.
Rebuild ==
  /\ reader.at = "recovering"
  /\ RingEverything
  /\ ReaderGoes("listing", {})
  /\ UNCHANGED <<storeVars, groupVars, session, viewVars, broken>>

\* The pending entries; there is nothing to tell about them any more.
ListPending ==
  /\ reader.at = "listing"
  /\ IF unacked = {}
     THEN reader' = [at |-> "reading", recovers |-> FALSE, batch |-> {}]
     ELSE \E ids \in SUBSET unacked :
            /\ \A i \in ids, j \in unacked \ ids : i < j
            /\ Cardinality(ids) = IF Cardinality(unacked) < ReadCount
                                  THEN Cardinality(unacked) ELSE ReadCount
            /\ ReaderGoes("acking", ids)
  /\ UNCHANGED <<storeVars, groupVars, session, bellVars, viewVars, broken>>

ReadChanges ==
  /\ reader.at = "reading"
  /\ GiveOut
  /\ ReaderGoes("heard", Unread)
  /\ UNCHANGED <<storeVars, stray, session, bellVars, viewVars, broken>>

Fanout ==
  /\ reader.at = "heard"
  /\ Ring({changes[i].topic : i \in reader.batch})
  /\ ReaderGoes("acking", reader.batch)
  /\ UNCHANGED <<storeVars, groupVars, session, viewVars, broken>>

\* One XACK after the other.  After a page of pending entries the recovery
\* begins again, with another rebuilding.
Oldest == CHOOSE i \in reader.batch : \A j \in reader.batch : i <= j

AckChange ==
  /\ reader.at = "acking"
  /\ unacked' = unacked \ {Oldest}
  /\ ReaderGoes(IF reader.batch # {Oldest} THEN "acking"
                ELSE IF reader.recovers THEN "recovering" ELSE "reading",
                reader.batch \ {Oldest})
  /\ UNCHANGED <<storeVars, handed, stray, session, bellVars, viewVars, broken>>

\* A command fails: the reader sleeps and recovers.  The answer of a read may
\* be lost (the step before has had its effect then), an acknowledgement may
\* have been executed, and a blocking read may be executed later on.
ReaderFails ==
  /\ reader.at # "asleep"
  /\ broken < MaxBroken /\ broken' = broken + 1
  /\ reader' = [at |-> "asleep", recovers |-> TRUE, batch |-> {}]
  /\ IF reader.at = "acking" THEN unacked' \in {unacked, unacked \ {Oldest}}
                             ELSE UNCHANGED unacked
  /\ IF reader.at = "reading" THEN stray' \in {stray, TRUE}
                              ELSE UNCHANGED stray
  /\ UNCHANGED <<storeVars, handed, session, bellVars, viewVars>>

ReaderWakes ==
  /\ reader.at = "asleep"
  /\ ReaderGoes("recovering", {})
  /\ UNCHANGED <<storeVars, groupVars, session, bellVars, viewVars, broken>>

\* The server executes the read of the broken connection, or finds it broken.
StrayRead ==
  /\ stray /\ stray' = FALSE
  /\ GiveOut \/ UNCHANGED <<handed, unacked>>
  /\ UNCHANGED <<storeVars, reader, session, bellVars, viewVars, broken>>

-----------------------------------------------------------------------------
\* serveSnapshotChannels and serveSnapshots.

SessionGoes(stage) ==
  session' = [at |-> stage, channels |-> session.channels, single |-> session.single]

\* The subscription is made, then everything is queried.
OpenPage ==
  /\ session.at = "none"
  /\ SessionGoes("opening")
  /\ todo' = session.channels
  /\ UNCHANGED <<storeVars, groupVars, reader, bellVars, view, failing, misses,
                 broken>>

\* The bell has rung: what has changed is taken, then queried.  A turn after
\* 15 s without a bell only writes a sign of life.
TakeChanged ==
  /\ changed' = {}
  /\ todo' = IF session.single THEN session.channels ELSE changed

TurnEnds == IF todo' = {} THEN SessionGoes("waiting") ELSE UNCHANGED session

Wake ==
  /\ session.at = "waiting" /\ bell
  /\ bell' = FALSE
  /\ TakeChanged
  /\ IF todo' = {} THEN UNCHANGED session ELSE SessionGoes("querying")
  /\ UNCHANGED <<storeVars, groupVars, reader, view, failing, misses, broken>>

\* The query of a channel, in any order of the channels.  A query that fails
\* ends a single stream; one of several channels shows the error instead.
Query(c) ==
  /\ session.at \in {"opening", "querying"} /\ c \in todo
  /\ \/ /\ todo' = todo \ {c}
        /\ view' = [view EXCEPT ![c] = [a \in Reads(c) |-> truth[a]]]
        /\ failing' = failing \ {c}
        /\ TurnEnds
        /\ UNCHANGED misses
     \/ /\ misses < MaxMisses /\ misses' = misses + 1
        /\ todo' = todo \ {c}
        /\ IF session.single
           THEN SessionGoes("closed") /\ UNCHANGED failing
           ELSE failing' = failing \cup {c} /\ TurnEnds
        /\ UNCHANGED view
  /\ UNCHANGED <<storeVars, groupVars, reader, bellVars, broken>>

\* The client goes away, its token is no longer good, or the worker stops.
ClosePage ==
  /\ session.at \in {"opening", "waiting", "querying"}
  /\ SessionGoes("closed")
  /\ UNCHANGED <<storeVars, groupVars, reader, bellVars, viewVars, broken>>

-----------------------------------------------------------------------------

ReaderStep == \/ Rebuild \/ ListPending \/ ReadChanges \/ Fanout \/ AckChange
              \/ ReaderWakes
SessionStep == Wake \/ \E c \in Channel : Query(c)

NextLive ==
  \/ \E a \in Area : Edit(a) \/ Announce(a)
  \/ ReaderStep \/ ReaderFails \/ StrayRead
  \/ OpenPage \/ SessionStep \/ ClosePage

\* Announcements follow their commits (the writers see to that), commands and
\* queries end, and a coroutine that can go on is resumed.
FairLive ==
  /\ \A a \in Area : WF_liveVars(Announce(a))
  /\ WF_liveVars(ReaderStep) /\ WF_liveVars(SessionStep)

SpecLive == InitLive /\ [][NextLive]_liveVars /\ FairLive

-----------------------------------------------------------------------------

LiveTypeOK ==
  /\ truth \in [Area -> Nat] /\ unannounced \subseteq Area
  /\ changes \in Seq([topic : Area, version : Nat])
  /\ handed \in 0 .. Len(changes) /\ unacked \subseteq 1 .. handed
  /\ stray \in BOOLEAN /\ bell \in BOOLEAN
  /\ reader.at \in {"recovering", "listing", "reading", "heard", "acking",
                    "asleep"}
  /\ reader.recovers \in BOOLEAN /\ reader.batch \subseteq 1 .. handed
  /\ session.at \in {"none", "opening", "waiting", "querying", "closed"}
  /\ session.channels \subseteq Channel /\ session.single \in BOOLEAN
  /\ changed \subseteq session.channels /\ todo \subseteq session.channels
  /\ failing \subseteq session.channels
  /\ DOMAIN view = Channel
  /\ \A c \in Channel : view[c] \in [Reads(c) -> Nat]
  /\ broken \in Nat /\ misses \in Nat

Shows(i) ==
  \A c \in session.channels \ failing :
    changes[i].topic \in Reads(c)
      => view[c][changes[i].topic] >= changes[i].version

\* Outside of a recovery, whatever has been acknowledged for this worker is on
\* the page of a request that waits for its bell, whether the change came
\* before the first query, during one, together with others or while the reader
\* had lost its connection; and no changed channel waits without a bell.
AcknowledgedIsShown ==
  session.at = "waiting" /\ ~bell
    => /\ changed = {}
       /\ ~reader.recovers => \A i \in 1 .. handed : i \in unacked \/ Shows(i)

LiveSafety == LiveTypeOK /\ AcknowledgedIsShown

\* Entries that a broken read has taken after the recovery had listed the
\* pending ones: nobody looks at them before the next recovery.
Unheard == ~reader.recovers /\ \E i \in unacked : i \notin reader.batch

\* Once the changes stop, an open page shows all of them, on every channel whose
\* last query was answered, unless a broken read has swallowed an entry.
LiveCatchesUp ==
  <>[](\/ session.at \in {"none", "closed"}
       \/ Unheard
       \/ \A c \in session.channels \ failing :
            \A a \in Reads(c) : view[c][a] = truth[a])
=============================================================================
