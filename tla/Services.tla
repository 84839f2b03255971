------------------------------ MODULE Services ------------------------------
(***************************************************************************)
(* The components around the trading core: the two caches that             *)
(* concurrent callers share (NewsCache, JwksCache), the two feeds' inside  *)
(* (YahooPublisher, KisFeed), the browsers' connections (MarketStream),    *)
(* the operator's orders (OrderDesk), the deployment (Deployment) and the  *)
(* read side of the API (ReadApi).  They share no state that changes but   *)
(* the caches' clock, so a behaviour exercises one of them: part.          *)
(***************************************************************************)
EXTENDS NewsCache

CONSTANTS
  Requests, Kids, MaxRotations,                                 \* token gate
  Tickers, Excluded, BatchSize, MaxTurns, MaxMoves,             \* Yahoo publisher
  MaxFrames, MaxRecords,                                        \* KIS feed
  Conns, MaxMessages,                                           \* browsers
  Orders, AllowLiveOrders, Life, Headroom, Interval, MaxNow,    \* order desk
  Containers, Release, MasterKeys, Rows, MaxFaults,             \* deployment
  Reads, Companies, AlarmIds, Limit, MaxWrites                  \* read endpoints

VARIABLES
  part,
  mode, published, rotations, keys, fetchedAt, lockQueue, req,
  symbols, cursor, batch, phase, tick, lastVolume, turns, day, moves, unseen, gap,
  frames, open, read, todo, onRedis, pongs, stream,
  conn, sent,
  now, client, expires, loop, loopTime, failed, desk,
  applied, master, dbUp, redisUp, box, faults,
  companies, relations, ticks, audits, alarms, moved, writes, gets

Jwks   == INSTANCE JwksCache
Yahoo  == INSTANCE YahooPublisher
Feed   == INSTANCE KisFeed WITH published <- onRedis
Stream == INSTANCE MarketStream
Order  == INSTANCE OrderDesk WITH Requests <- Orders, clock <- now, MaxClock <- MaxNow, req <- desk
Deploy == INSTANCE Deployment
Api    == INSTANCE ReadApi WITH Requests <- Reads, Tickers <- Companies, master <- companies,
                                req <- gets

\* The values main.py and the modules' settings give: what each component is constructed with.
ASSUME ServicesAssumption ==
  /\ Yahoo!ConstantsOk
  /\ Order!TimesOk /\ MaxNow \in Nat
  /\ Deploy!ReleasesOk /\ MaxFaults \in Nat
  /\ MaxRecords \in Nat \ {0}
  /\ Api!ParametersOk

newsVars   == <<cache, waiters, call, hitCount, missCount, calls>>
jwksVars   == <<mode, published, rotations, keys, fetchedAt, lockQueue, req>>
yahooVars  == <<symbols, cursor, batch, phase, tick, lastVolume, turns, day, moves, unseen, gap>>
feedVars   == <<frames, open, read, todo, onRedis, pongs, stream>>
streamVars == <<conn, sent>>
orderVars  == <<now, client, expires, loop, loopTime, failed, desk>>
deployVars == <<applied, master, dbUp, redisUp, box, faults>>
apiVars    == <<companies, relations, ticks, audits, alarms, moved, writes, gets>>

ServicesInit ==
  /\ part \in {"news", "jwks", "yahoo", "feed", "stream", "order", "deploy", "api"}
  /\ Init /\ Jwks!Init /\ Yahoo!Init /\ Feed!Init /\ Stream!Init
  /\ Order!Init /\ Deploy!Init /\ Api!Init

ServicesNext ==
  \/ part = "news" /\ Next
       /\ UNCHANGED <<part, jwksVars, yahooVars, feedVars, streamVars, orderVars, deployVars, apiVars>>
  \/ part = "jwks" /\ Jwks!Next
       /\ UNCHANGED <<part, newsVars, yahooVars, feedVars, streamVars, orderVars, deployVars, apiVars>>
  \/ part = "yahoo" /\ Yahoo!Next
       /\ UNCHANGED <<part, clock, newsVars, jwksVars, feedVars, streamVars, orderVars, deployVars, apiVars>>
  \/ part = "feed" /\ Feed!Next
       /\ UNCHANGED <<part, clock, newsVars, jwksVars, yahooVars, streamVars, orderVars, deployVars, apiVars>>
  \/ part = "stream" /\ Stream!Next
       /\ UNCHANGED <<part, clock, newsVars, jwksVars, yahooVars, feedVars, orderVars, deployVars, apiVars>>
  \/ part = "order" /\ Order!Next
       /\ UNCHANGED <<part, clock, newsVars, jwksVars, yahooVars, feedVars, streamVars, deployVars, apiVars>>
  \/ part = "deploy" /\ Deploy!Next
       /\ UNCHANGED <<part, clock, newsVars, jwksVars, yahooVars, feedVars, streamVars, orderVars, apiVars>>
  \/ part = "api" /\ Api!Next
       /\ UNCHANGED <<part, clock, newsVars, jwksVars, yahooVars, feedVars, streamVars, orderVars, deployVars>>

servicesVars == <<part, clock, newsVars, jwksVars, yahooVars, feedVars, streamVars, orderVars,
                  deployVars, apiVars>>

\* Nothing that is fair is enabled in a part that rests.
ServicesFairness == Fairness /\ Jwks!Fairness /\ Feed!Fairness /\ Stream!Fairness /\ Deploy!Fairness

ServicesSpec == ServicesInit /\ [][ServicesNext]_servicesVars /\ ServicesFairness

-----------------------------------------------------------------------------
\* Type correctness of all parts, with the agreement of lock queues and callers.
ServicesTypeOK ==
  /\ TypeOK /\ Jwks!TypeOK /\ Yahoo!TypeOK /\ Feed!TypeOK
  /\ Stream!TypeOK /\ Order!TypeOK /\ Deploy!TypeOK /\ Api!TypeOK

\* No request is admitted on a key of an expired key set (JwksCache.get_key, get_current_user).
NoStaleKey == Jwks!NoStaleKey

\* Rotation of the signing keys turns no good token away (JwksCache.get_key).
RotationTolerated == Jwks!RotationTolerated

\* The round robin of _poll_one_batch gives every symbol its turn.
PollsBalanced == Yahoo!PollsBalanced

\* Published volumes never add up to more than was traded (UsPublisher._fetch_one_tick).
VolumeNeverInflated == Yahoo!VolumeNeverInflated

\* Records of KIS frames reach Redis in order, once each, none left behind (stream_ticks).
RecordsInOrder == Feed!RecordsInOrder

\* A finished connection leaves no task and no subscription (market_stream).
NoOrphans == Stream!NoOrphans

\* What the operator is told about an order is what happened (post_order, place_order).
AnswersAreTrue == Order!AnswersAreTrue

\* The token of the KIS clients never runs out while its refresh loop works (_TokenRefreshLoop).
TokenKept == Order!TokenKept

\* readyz says ok only with all migrations, and the start command only behind the release's
\* rows; the master data is made of whole payloads (migrate, upsert_seed).
ReadyMeansDeployed == Deploy!ReadyMeansDeployed

\* Rows, pages, counters and volumes are the store's, or an outage's empty result (router.py).
ReadsAreHonest == Api!ReadsAreHonest

\* Whoever is waiting is served: callers of both caches whoever held the lock and failed,
\* connections, heartbeats, and containers that wait for the database.
ServicesEnd ==
  /\ CallEnds /\ Jwks!RequestEnds
  /\ Feed!PingsAnswered /\ Stream!ConnectionEnds
  /\ Deploy!EveryServerIsReady
=============================================================================
