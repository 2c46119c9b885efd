------------------------------ MODULE CacheAside ------------------------------
(***************************************************************************)
(* CacheService and the way the services use it: a reader looks its key up, *)
(* on a miss computes the answer from the rows, stores it and files its key *)
(* under each tag; a writer changes the rows and then deletes keys and      *)
(* everything filed under its tags.  A tag's list is read and written back  *)
(* in two calls, and lives 60 s longer than the entry that was filed last.  *)
(* A behaviour is about two readers (or a reader and a cache warmer) and    *)
(* one writer, chosen in CacheInit.  Their calls follow one another: of      *)
(* overlapping calls the code promises nothing, a stale answer may be stored *)
(* after the invalidation and a key may be lost from a list.  Likewise it    *)
(* is followed no further than an outage that cut an invalidation short.     *)
(***************************************************************************)
EXTENDS CachedViews, FiniteSets, SequencesExt

CONSTANT MaxWrites    \* bound: writes of the writer

VARIABLES asks,       \* rigid: for each reader its view and its question
          writer,     \* rigid: the writer
          version,    \* number of the last write
          cache,      \* key -> entry or None
          tagged,     \* tag -> its list of keys and the ttl it was last written with, or None
          reader,     \* where each reader is
          wr,         \* where the writer is
          up,         \* RedisService.isAvailable
          quiet,      \* history: no call was cut short by Redis, no list expired early
          answer      \* history: how the last answer of each reader was

cacheVars == <<asks, writer, version, cache, tagged, reader, wr, up, quiet, answer>>

None == [none |-> TRUE]
Readers == 1..2
Idle == [pc |-> "idle"]
NoWriter == Writer("none", "none", {}, {}, <<>>)

KeyOf(i) == KeyFor(asks[i].view, asks[i].question)
Keys == {KeyOf(i) : i \in Readers}
TagsOf(i) == asks[i].view.tags
Ask(v, q) == [view |-> v, question |-> q]

CacheInit ==
    /\ \/ \E v \in Managed : \E u \in Managed : \E w \in Writers :
              /\ w.tables \cap v.tables # {}
              /\ u = v \/ Range(u.tags) \cap Range(v.tags) # {}
              /\ asks = <<Ask(v, {}), Ask(u, {})>>
              /\ writer = w
       \/ \E v \in Views : \E u \in Views : \E q \in {{}} \cup {{p} : p \in v.asks} :
              /\ u.key.prefix = v.key.prefix /\ (u # v \/ q # {})
              /\ asks = <<Ask(v, q), Ask(u, {})>>
              /\ writer = NoWriter
    /\ version = 0
    /\ cache = [k \in Keys |-> None]
    /\ tagged = [t \in Range(TagsOf(1)) \cup Range(TagsOf(2)) |-> None]
    /\ reader = [i \in Readers |-> Idle]
    /\ wr = Idle
    /\ up = TRUE /\ quiet = TRUE
    /\ answer = [i \in Readers |-> "none"]

Calm == wr = Idle /\ \A i \in Readers : reader[i] = Idle
Stale(i, e) == e.version # version /\ writer.tables \cap asks[i].view.tables # {}

(***************************************************************************)
(* A reader.                                                               *)
(***************************************************************************)
\* How the answer e is, to the question reader i asks.
Judge(i, e) == IF asks[e.by].view # asks[i].view THEN "other view"
               ELSE IF e.question # asks[i].question THEN "other question"
               ELSE IF Stale(i, e) THEN "stale" ELSE "right"

Lookup(i) ==
    /\ Calm /\ quiet
    /\ LET e == cache[KeyOf(i)]
           hit == up /\ e # None /\ asks[i].view \notin Warmers
       IN  /\ answer' = IF hit THEN [answer EXCEPT ![i] = Judge(i, e)] ELSE answer
           /\ reader' = IF hit THEN reader ELSE [reader EXCEPT ![i] = [pc |-> "compute"]]
    /\ UNCHANGED <<asks, writer, version, cache, tagged, wr, up, quiet>>

Compute(i) ==
    /\ reader[i].pc = "compute"
    /\ reader' = [reader EXCEPT ![i] = [pc |-> "store", version |-> version]]
    /\ answer' = [answer EXCEPT ![i] = "right"]
    /\ UNCHANGED <<asks, writer, version, cache, tagged, wr, up, quiet>>

AtTag_SkipsLast(i, k) == IF k >= Len(TagsOf(i)) THEN Idle ELSE [pc |-> "tag", k |-> k]

AtTag(i, k) == IF k > Len(TagsOf(i)) THEN Idle ELSE [pc |-> "tag", k |-> k]

Set(i) ==
    /\ reader[i].pc = "store"
    /\ cache' = IF up THEN [cache EXCEPT ![KeyOf(i)] =
                                [question |-> asks[i].question, version |-> reader[i].version,
                                 ttl |-> asks[i].view.ttl, by |-> i]]
                ELSE cache
    /\ reader' = [reader EXCEPT ![i] = IF up THEN AtTag(i, 1) ELSE Idle]
    /\ UNCHANGED <<asks, writer, version, tagged, wr, up, quiet, answer>>

\* The list under a tag, empty when there is none or Redis cannot be asked.
ListUnder(t) == IF up /\ tagged[t] # None THEN tagged[t].keys ELSE {}

AssociateTagsRead(i) ==
    /\ reader[i].pc = "tag"
    /\ reader' = [reader EXCEPT ![i] = [pc |-> "file", k |-> reader[i].k,
                                        keys |-> ListUnder(TagsOf(i)[reader[i].k])]]
    /\ UNCHANGED <<asks, writer, version, cache, tagged, wr, up, quiet, answer>>

AssociateTagsWrite(i) ==
    /\ reader[i].pc = "file"
    /\ tagged' = IF up THEN [tagged EXCEPT ![TagsOf(i)[reader[i].k]] =
                                 [keys |-> reader[i].keys \cup {KeyOf(i)}, ttl |-> asks[i].view.ttl]]
                 ELSE tagged
    /\ reader' = [reader EXCEPT ![i] = AtTag(i, reader[i].k + 1)]
    /\ UNCHANGED <<asks, writer, version, cache, wr, up, quiet, answer>>

(***************************************************************************)
(* The writer.                                                             *)
(***************************************************************************)
Without(drop) == [k \in Keys |-> IF up /\ k \in drop THEN None ELSE cache[k]]
AtDrop(k) == IF k > Len(writer.tags) THEN Idle ELSE [pc |-> "list", k |-> k]

WriteRows ==
    /\ Calm /\ quiet /\ writer # NoWriter /\ version < MaxWrites
    /\ version' = version + 1
    /\ wr' = [pc |-> "keys"]
    /\ quiet' = up
    /\ UNCHANGED <<asks, writer, cache, tagged, reader, up, answer>>

Delete ==
    /\ wr.pc = "keys"
    /\ cache' = Without(writer.keys)
    /\ wr' = AtDrop(1)
    /\ UNCHANGED <<asks, writer, version, tagged, reader, up, quiet, answer>>

InvalidateByTagsRead ==
    /\ wr.pc = "list"
    /\ LET t == writer.tags[wr.k]
           keys == IF t \in DOMAIN tagged THEN ListUnder(t) ELSE {}
       IN  wr' = IF keys = {} THEN AtDrop(wr.k + 1) ELSE [pc |-> "drop", k |-> wr.k, keys |-> keys]
    /\ UNCHANGED <<asks, writer, version, cache, tagged, reader, up, quiet, answer>>

InvalidateByTagsDrop ==
    /\ wr.pc = "drop"
    /\ cache' = Without(wr.keys)
    /\ wr' = [pc |-> "untag", k |-> wr.k]
    /\ UNCHANGED <<asks, writer, version, tagged, reader, up, quiet, answer>>

InvalidateByTagsUntag ==
    /\ wr.pc = "untag"
    /\ tagged' = IF up THEN [tagged EXCEPT ![writer.tags[wr.k]] = None] ELSE tagged
    /\ wr' = AtDrop(wr.k + 1)
    /\ UNCHANGED <<asks, writer, version, cache, reader, up, quiet, answer>>

(***************************************************************************)
(* Time and Redis.                                                         *)
(***************************************************************************)
Expire(k) ==
    /\ cache[k] # None /\ quiet
    /\ cache' = [cache EXCEPT ![k] = None]
    /\ UNCHANGED <<asks, writer, version, tagged, reader, wr, up, quiet, answer>>

\* Entries filed under t that are still there.
Filed(t) == {k \in Keys : cache[k] # None /\ t \in Range(TagsOf(cache[k].by))}

\* A list written with a shorter-lived entry goes before the longer-lived ones filed under it.
ExpireTag(t) ==
    /\ tagged[t] # None /\ quiet
    /\ \A k \in Filed(t) : cache[k].ttl > tagged[t].ttl + 60
    /\ tagged' = [tagged EXCEPT ![t] = None]
    /\ quiet' = (Filed(t) = {})
    /\ UNCHANGED <<asks, writer, version, cache, reader, wr, up, answer>>

\* An outage in the middle of a call, or while rows are written, leaves the cache out of step.
Disconnect ==
    /\ up /\ quiet
    /\ up' = FALSE
    /\ quiet' = Calm
    /\ UNCHANGED <<asks, writer, version, cache, tagged, reader, wr, answer>>

Reconnect ==
    /\ ~up /\ quiet
    /\ up' = TRUE
    /\ UNCHANGED <<asks, writer, version, cache, tagged, reader, wr, quiet, answer>>

CacheNext ==
    \/ \E i \in Readers :
           Lookup(i) \/ Compute(i) \/ Set(i) \/ AssociateTagsRead(i) \/ AssociateTagsWrite(i)
    \/ WriteRows \/ Delete \/ InvalidateByTagsRead \/ InvalidateByTagsDrop \/ InvalidateByTagsUntag
    \/ \E k \in Keys : Expire(k)
    \/ \E t \in DOMAIN tagged : ExpireTag(t)
    \/ Disconnect \/ Reconnect

CacheSpec == CacheInit /\ [][CacheNext]_cacheVars

(***************************************************************************)
(* Properties.                                                             *)
(***************************************************************************)
\* The two readers are a known pair of questions with one key.
Crossed(a, b) == <<a.view, a.question, b.view>> \in Crossings \/ <<b.view, b.question, a.view>> \in Crossings

\* As long as calls follow one another, a reader never gets an answer that a
\* write has made stale, the answer to a different question, or what another
\* method or a cache warmer stores, whatever was cached, invalidated or expired
\* before.  The exceptions are the code's known gaps: the writers that invalidate
\* nothing, the pairs of services that share a table, and, one by one, the writers
\* that miss a view, the views whose key leaves a parameter out and the questions
\* that have another view's key.
AnswersCurrent ==
    quiet => \A i \in Readers :
        /\ answer[i] = "stale" => Gap(writer, asks[i].view)
        /\ answer[i] = "other question" => asks[i].view \in SharedKeys
        /\ answer[i] = "other view" => Crossed(asks[1], asks[2])

==============================================================================
