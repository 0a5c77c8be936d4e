----------------------------- MODULE PriceFeed ------------------------------
(***************************************************************************)
(* The ETH price and its use: BinanceFeed (internal/price/binance.go), the *)
(* Converter (internal/price/exec.go) and the pricing half of collectFill  *)
(* (internal/app/process_block.go). Run polls in a goroutine of its own    *)
(* and backs off when it is rate limited; collectFill reads the cached     *)
(* price without waiting. A price is represented by the age of the answer  *)
(* it came from; time passes in units.                                     *)
(***************************************************************************)
EXTENDS Naturals

CONSTANTS
  Poll, Timeout,      \* PollInterval, RequestTimout
  TTL, Stale,         \* how long a price is new, and how long it may be used
  FirstBackoff, MaxBackoff  \* 1 second, 60 seconds

\* NewBinanceFeed demands the first three; the last one holds of the defaults
\* (10 s + 3 s <= 30 s) and is not checked by the code.
FeedAssumption ==
  /\ {Poll, TTL, Timeout} \subseteq Nat \ {0} /\ Stale \in Nat /\ TTL <= Stale
  /\ FirstBackoff \in Nat \ {0} /\ MaxBackoff \in Nat /\ FirstBackoff <= MaxBackoff
  /\ Poll + Timeout <= TTL

\* When the feed is certainly back after an outage: a request that was already
\* waiting is limited at its end, the longest delay follows, and a request.
Back == MaxBackoff + Poll + 2 * Timeout

TooOld == Stale + 1  \* ages are not counted beyond this
Lesser(a, b) == IF a < b THEN a ELSE b

VARIABLES
  known, age, lastFailed,  \* price, fetchedAt, lastFailed
  fetching,                \* Run: in fetch, or waiting for its timer
  delay, elapsed,          \* the timer, and the time the request has taken
  backoff,
  service,                 \* what Binance does
  upFor,                   \* how long it and this process have been up
  row                      \* how the last fill was priced

cacheVars == <<known, age, lastFailed>>
loopVars  == <<fetching, delay, elapsed, backoff>>
vars      == <<cacheVars, loopVars, service, upFor, row>>

-----------------------------------------------------------------------------
(* Run *)

BeginFetch ==
  /\ ~fetching /\ delay = 0
  /\ fetching' = TRUE /\ elapsed' = 0
  /\ UNCHANGED <<cacheVars, delay, backoff, service, upFor, row>>

\* A request may fail when the service was not up all the time it took.
MayFail == service # "up" \/ upFor < elapsed

FetchOK ==
  /\ fetching /\ service = "up"
  /\ known' = TRUE /\ age' = 0 /\ lastFailed' = FALSE
  /\ fetching' = FALSE /\ delay' = Poll /\ backoff' = FirstBackoff
  /\ UNCHANGED <<elapsed, service, upFor, row>>

NextBackoff == Lesser(2 * backoff, MaxBackoff)

FailedUnlessLimited == lastFailed

FailedWhenLimited == TRUE

\* Status 429.
FetchLimited ==
  /\ fetching /\ MayFail
  /\ lastFailed' = FailedWhenLimited
  /\ fetching' = FALSE /\ delay' = backoff
  /\ backoff' = NextBackoff
  /\ UNCHANGED <<known, age, elapsed, service, upFor, row>>

\* Any other failure; a failure never clears the price.
FetchFails ==
  /\ fetching /\ MayFail
  /\ lastFailed' = TRUE
  /\ fetching' = FALSE /\ delay' = Poll /\ backoff' = FirstBackoff
  /\ UNCHANGED <<known, age, elapsed, service, upFor, row>>

-----------------------------------------------------------------------------
(* The Converter and collectFill *)

Kinds == {"usdg", "eth", "stock", "unknown"}

\* ETHUSD returns a price.
Usable == known /\ age <= Stale /\ ~(age > TTL /\ ~lastFailed)

QuoteUSD(kind) == kind = "usdg" \/ (kind = "eth" /\ Usable)

\* ExecUSD needs both amounts: the one in the quote is missing when a native
\* trade could not be traced.
CollectFill(kind, whole) ==
  /\ row' = [kind |-> kind, whole |-> whole, usd |-> whole /\ QuoteUSD(kind),
             known |-> known, age |-> age]
  /\ UNCHANGED <<cacheVars, loopVars, service, upFor>>

-----------------------------------------------------------------------------
Older(a, oldest) == IF a < oldest THEN a + 1 ELSE oldest

\* The HTTP client ends a request after its timeout; the timer fires when it is
\* due, and neither is late here.
Pass ==
  /\ fetching => elapsed < Timeout
  /\ ~fetching => delay > 0
  /\ elapsed' = IF fetching THEN elapsed + 1 ELSE elapsed
  /\ delay' = IF fetching THEN delay ELSE delay - 1
  /\ age' = Older(age, TooOld)
  /\ upFor' = IF service = "up" THEN Older(upFor, Back + 1) ELSE 0
  /\ UNCHANGED <<known, lastFailed, fetching, backoff, service, row>>

\* Binance comes and goes.
Service(s) ==
  /\ s # service /\ service' = s /\ upFor' = 0
  /\ UNCHANGED <<cacheVars, loopVars, row>>

Init ==
  /\ known = FALSE /\ age = TooOld /\ lastFailed = FALSE
  /\ fetching = FALSE /\ delay = 0 /\ elapsed = 0 /\ backoff = FirstBackoff
  /\ service \in {"up", "down"} /\ upFor = 0
  /\ row = [kind |-> "unknown", whole |-> FALSE, usd |-> FALSE, known |-> FALSE, age |-> TooOld]

\* The cache is in memory only.
Restart ==
  /\ known' = FALSE /\ age' = TooOld /\ lastFailed' = FALSE
  /\ fetching' = FALSE /\ delay' = 0 /\ elapsed' = 0 /\ backoff' = FirstBackoff
  /\ upFor' = 0
  /\ UNCHANGED <<service, row>>

Next ==
  \/ BeginFetch \/ FetchOK \/ FetchLimited \/ FetchFails
  \/ \E kind \in Kinds, whole \in BOOLEAN : CollectFill(kind, whole)
  \/ Pass \/ Restart
  \/ \E s \in {"up", "down"} : Service(s)

Spec == Init /\ [][Next]_vars

-----------------------------------------------------------------------------
\* Types; and the timer never exceeds what the code may set it to.
TypeOK ==
  /\ {known, lastFailed, fetching} \subseteq BOOLEAN
  /\ age \in 0 .. TooOld /\ elapsed \in 0 .. Timeout
  /\ backoff \in FirstBackoff .. MaxBackoff /\ (delay <= Poll \/ delay <= MaxBackoff)
  /\ service \in {"up", "down"} /\ upFor \in 0 .. Back + 1

\* A fill in ETH loses its dollar price only when no answer of the last Stale
\* units is there: the gap that ETHUSD leaves between TTL and the detection of
\* a failure is never met, since a poll ends within the TTL of the one before
\* (Run against ETHUSD). A fill in USDG has its price whatever Binance does, a
\* stock never has one.
OnlyStaleLosesPrices ==
  row.usd <=> /\ row.whole
              /\ \/ row.kind = "usdg"
                 \/ row.kind = "eth" /\ row.known /\ row.age <= Stale

\* After an outage of any length the price is new again as soon as the longest
\* back-off is over, and stays new (the cap of the back-off, and its reset).
NewAfterOutage == upFor > Back => known /\ age <= TTL
=============================================================================
