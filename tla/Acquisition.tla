------------------------------ MODULE Acquisition ------------------------------
(***************************************************************************)
(* From a search to a file: data/provider_tools.py, and the adapters of    *)
(* data/adapters/ with the registry that makes them.  Clients run at the   *)
(* same time, each one operation at a time, on threads of their own.       *)
(* Handlers are runs of the search and download tools: every call takes a  *)
(* new adapter from the registry, so that what an adapter remembers, the   *)
(* time of its latest request and its cache, lasts no longer than a call.  *)
(* Keepers use the adapters' own API and keep theirs; only tests do.  Time *)
(* is in ticks, and what matters of it is how many an adapter has to wait; *)
(* providers answer or fail at any time.                                   *)
(***************************************************************************)
EXTENDS Catalog

CONSTANTS
  Handlers,    \* threads that run tool calls
  Keepers,     \* threads that keep their adapter
  Places,      \* search strings the charset and length checks accept
  BadPlaces,   \* others
  Queries,     \* Overpass queries: tags and box
  Answers,     \* Overpass answers: sequences of elements
  Items,       \* assets as STAC items describe them, None: there is none
  Bodies,      \* sizes of the files that arrive
  Archives,    \* archives that may be extracted: sequences of members
  Gap,         \* ticks in 1 / nominatim_req_per_s
  MaxBytes, MaxMembers, MaxUnpacked, MaxRatio   \* limits

ASSUME GapAssumption == Gap \in Nat
ASSUME ThreadsAssumption == Handlers \cap Keepers = {}
ASSUME SizesAssumption ==
  /\ MaxBytes \in Nat /\ MaxUnpacked \in Nat /\ Bodies \subseteq Nat
  /\ \A members \in Archives :
       /\ members \in Seq(ToSet(members))
       /\ \A i \in DOMAIN members : members[i].declared \in Nat /\ members[i].real \in Nat
\* Queries are records of tags and a box; tags are keys with values, which are sequences.
ASSUME QueriesAssumption ==
  \A query \in Queries :
    /\ query = [tags |-> query.tags, box |-> query.box]
    /\ query.tags \in Seq(ToSet(query.tags))
    /\ \A i \in DOMAIN query.tags :
         LET tag == query.tags[i]
         IN tag = [key |-> tag.key, value |-> tag.value] /\ tag.value \in Seq(ToSet(tag.value))
ASSUME AnswersAssumption ==
  \A answer \in Answers : \A i \in DOMAIN answer : answer[i].refs \in Seq(ToSet(answer[i].refs))

Clients == Handlers \cup Keepers

VARIABLES
  adapter,   \* NominatimAdapter of each client: how long it has to wait, and its cache
  task,      \* what each client is at
  result,    \* what its latest operation returned
  saved      \* what that operation left on disk

vars == <<adapter, task, result, saved>>

Idle == [at |-> "idle"]
Fresh == [wait |-> 0, cache |-> <<>>]
Refused == [ok |-> FALSE, of |-> None]
Accepted == [ok |-> TRUE, of |-> None]

\* Mutant: the registry hands out one adapter per thread for ever.
KeptAdapter(c) == adapter[c]

\* registry.get makes a new adapter for every tool call.
Adapter(c) == IF c \in Handlers THEN Fresh ELSE adapter[c]

Begin(c, stage) ==
  /\ task[c] = Idle
  /\ task' = [task EXCEPT ![c] = stage]
  /\ result' = [result EXCEPT ![c] = Refused]
  /\ saved' = [saved EXCEPT ![c] = None]

Return(c, r, file) ==
  /\ task' = [task EXCEPT ![c] = Idle]
  /\ result' = [result EXCEPT ![c] = r]
  /\ saved' = [saved EXCEPT ![c] = file]

\* A check before the first request: the operation goes on, or is refused at once.
Checked(c, accepted, stage) ==
  IF accepted THEN Begin(c, stage) ELSE task[c] = Idle /\ Return(c, Refused, None)

-------------------------------------------------------------------------------
(* Nominatim                                                                 *)

LookupInvalid(c) ==
  /\ BadPlaces # {}
  /\ Checked(c, FALSE, Idle)
  /\ adapter' = [adapter EXCEPT ![c] = Adapter(c)]

\* An answer in the cache is returned, a failure as well, however old it is.
LookupCached(c, place) ==
  /\ task[c] = Idle
  /\ place \in DOMAIN Adapter(c).cache
  /\ adapter' = [adapter EXCEPT ![c] = Adapter(c)]
  /\ Return(c, Adapter(c).cache[place], None)

Lookup(c, place) ==
  /\ place \notin DOMAIN Adapter(c).cache
  /\ Begin(c, [at |-> "throttle", place |-> place])
  /\ adapter' = [adapter EXCEPT ![c] = Adapter(c)]

\* Sleeps until the gap since this adapter's previous request has passed, and asks.
Throttle(c) ==
  /\ task[c].at = "throttle"
  /\ adapter[c].wait = 0
  /\ adapter' = [adapter EXCEPT ![c].wait = Gap]
  /\ task' = [task EXCEPT ![c].at = "lookup"]
  /\ UNCHANGED <<result, saved>>

Cached(cache, place, answer) ==
  [p \in DOMAIN cache \cup {place} |-> IF p = place THEN answer ELSE cache[p]]

\* An answer, or any failure: offline, not JSON, not a list.  Both are cached.
LookupDone(c) ==
  /\ task[c].at = "lookup"
  /\ \E ok \in BOOLEAN :
       LET answer == [ok |-> ok, of |-> task[c].place] IN
       /\ Return(c, answer, None)
       /\ adapter' = [adapter EXCEPT ![c].cache = Cached(@, task[c].place, answer)]

-------------------------------------------------------------------------------
(* Overpass                                                                  *)

Tags(c, q) ==
  /\ Checked(c, QueryBuilt(q.tags, q.box), [at |-> "search", query |-> q])
  /\ UNCHANGED adapter

\* One result, whose id records the query.
TagsDone(c) ==
  /\ task[c].at = "search"
  /\ \/ Return(c, [ok |-> TRUE, of |-> task[c].query,
                   id |-> EncodeDatasetId(task[c].query.tags, task[c].query.box)], None)
     \/ Return(c, Refused, None)
  /\ UNCHANGED adapter

\* Download of what was found, if it has an asset: the id is decoded, its query built
\* again and sent.  searched is history: the query the id was made from.
Refetch(c) ==
  /\ "id" \in DOMAIN result[c]
  /\ HasAsset(result[c].id)
  /\ LET query == DecodeDatasetId(result[c].id) IN
       Checked(c, QueryBuilt(query.tags, query.box),
               [at |-> "refetch", query |-> query, searched |-> result[c].of])
  /\ UNCHANGED adapter

RefetchDone(c) ==
  /\ task[c].at = "refetch"
  /\ \/ Return(c, Refused, None)
     \/ \E answer \in Answers :
          Return(c, Accepted, [from |-> answer, features |-> Converted(answer), bytes |-> 0, cap |-> 0])
  /\ UNCHANGED adapter

-------------------------------------------------------------------------------
(* STAC: the item is fetched for every download, and the file after it; the  *)
(* server may describe one file and send another.                            *)

AssetHref(c, item) ==
  /\ Checked(c, AssetAccepted(item, MaxBytes), [at |-> "body"])
  /\ UNCHANGED adapter

\* Bytes on disk, and the cap for them (history).
File(bytes, cap) == [from |-> <<>>, features |-> <<>>, bytes |-> bytes, cap |-> cap]

\* What arrives is counted, whatever the item declared, and written when it is complete;
\* a write that fails leaves a part.
Body(c, bytes) ==
  /\ task[c].at = "body"
  /\ bytes <= MaxBytes
  /\ \/ Return(c, Accepted, File(bytes, MaxBytes))
     \/ \E part \in 0 .. bytes : Return(c, Refused, File(part, MaxBytes))
  /\ UNCHANGED adapter

\* Any fetch may fail: offline, a status, cancelled, too long.
FetchFails(c) ==
  /\ task[c].at = "body"
  /\ Return(c, Refused, None)
  /\ UNCHANGED adapter

-------------------------------------------------------------------------------
(* Archives: used through the transport's API only                           *)

\* After some members an error may end the extraction, within a member or before it;
\* what was written stays.
Extract(c, members) ==
  /\ task[c] = Idle
  /\ IF ~ArchiveAccepted(members, MaxMembers, MaxUnpacked, MaxRatio)
     THEN Return(c, Refused, None)
     ELSE \E done \in 0 .. Len(members) :
            LET whole == Total([i \in 1 .. done |-> Written(members[i])]) IN
            \/ done = Len(members) /\ Return(c, Accepted, File(whole, MaxUnpacked))
            \/ /\ done < Len(members)
               /\ \E part \in 0 .. Written(members[done + 1]) : Return(c, Refused, File(whole + part, MaxUnpacked))
  /\ UNCHANGED adapter

-------------------------------------------------------------------------------

Less(ticks) == IF ticks = 0 THEN 0 ELSE ticks - 1

Tick ==
  /\ \E c \in Clients : adapter[c].wait > 0
  /\ adapter' = [c \in Clients |-> [adapter[c] EXCEPT !.wait = Less(@)]]
  /\ UNCHANGED <<task, result, saved>>

Init ==
  /\ adapter = [c \in Clients |-> Fresh]
  /\ task = [c \in Clients |-> Idle]
  /\ result = [c \in Clients |-> Refused]
  /\ saved = [c \in Clients |-> None]

\* The adapters of Overpass and STAC keep nothing, so that it does not matter who has
\* them: handlers call them here.
Next ==
  \/ Tick
  \/ \E c \in Clients :
       \/ LookupInvalid(c) \/ Throttle(c) \/ LookupDone(c)
       \/ \E place \in Places : Lookup(c, place) \/ LookupCached(c, place)
  \/ \E c \in Handlers :
       \/ \E q \in Queries : Tags(c, q)
       \/ TagsDone(c) \/ Refetch(c) \/ RefetchDone(c)
       \/ \E item \in Items : AssetHref(c, item)
       \/ \E bytes \in Bodies : Body(c, bytes)
       \/ FetchFails(c)
  \/ \E c \in Keepers, archive \in Archives : Extract(c, archive)

Spec == Init /\ [][Next]_vars

-------------------------------------------------------------------------------
(* Properties                                                               *)

\* A tool call never reports a failure that is older than itself: a user who tries again
\* reaches the provider, although adapters cache failures like answers (osm.py:441, registry.py:48-53).
NoStaleFailure ==
  [][\A c \in Handlers : result'[c] # result[c] /\ ~result'[c].ok => task[c] # Idle \/ result'[c] = Refused]_vars

\* Tags whose values no separator can break.
Plain(tags) ==
  \A i \in DOMAIN tags :
    /\ tags[i].value # <<>>
    /\ ~Contains(tags[i].value, TagMark) /\ ~Contains(tags[i].value, BBoxMark)

\* The download fetches the very query that was searched, and what was found can be
\* downloaded: the id carries the query there and back, if no value has a separator
\* in it (osm.py:103-143).
RefetchIsTheSearch ==
  \A c \in Clients :
    /\ task[c].at = "refetch" /\ Plain(task[c].searched.tags) => task[c].query = task[c].searched
    /\ "id" \in DOMAIN result[c] /\ Plain(result[c].of.tags) =>
         /\ HasAsset(result[c].id)
         /\ LET query == DecodeDatasetId(result[c].id) IN QueryBuilt(query.tags, query.box)

\* A way in a downloaded file has every point, if the answer has a node for each of
\* them, before or after the way, and a way of fewer than two points is left out
\* (osm.py:146-216).
WaysAreWhole ==
  \A c \in Clients : saved[c] # None =>
    \A i \in DOMAIN saved[c].from :
      LET elements == saved[c].from
          features == saved[c].features
          refs == elements[i].refs
      IN /\ elements[i].kind = "way" /\ elements[i].ok /\ elements[i].inline = <<>>
         /\ \A k \in DOMAIN refs : \E n \in DOMAIN elements :
              elements[n].kind = "node" /\ elements[n].ok /\ elements[n].id = refs[k]
         => IF Len(refs) >= 2 THEN i \in DOMAIN features /\ features[i].line = refs
            ELSE i \notin DOMAIN features

\* What a download or an extraction leaves on disk is within the caps, whatever sizes an
\* item or an archive declares, and whichever step fails (transport.py:217-253, 346-425).
SavedWithinCaps == \A c \in Clients : saved[c] # None => saved[c].bytes <= saved[c].cap
================================================================================
