------------------------------ MODULE TradingDay ------------------------------
(******************************************************************************)
(* Which market date a requested date stands for: TwseMarketCalendar.classify *)
(* (app/market_calendar.py) and resolve_trading_day                           *)
(* (app/pipelines/trading_day.py).  Dates are numbers; latest is the date the *)
(* exchange published last, or NoDate.                                        *)
(******************************************************************************)
EXTENDS Integers

CONSTANTS
  Weekend,    \* the dates that are a Saturday or a Sunday
  NoDate      \* no date published, or none resolved

Classify(requested, latest) ==
  IF requested \in Weekend THEN "weekend"
  ELSE IF latest = NoDate THEN "latest_unavailable"
  ELSE IF latest < requested THEN "latest_before_requested"
  ELSE IF latest = requested THEN "latest_on_requested"
  ELSE "latest_after_requested"

Resolves == {"latest_on_requested", "latest_after_requested"}

ResolutionStatus(state) ==
  CASE state = "weekend" -> "skipped_non_trading_day"
    [] state = "latest_unavailable" -> "skipped_no_new_market_date"
    [] state = "latest_before_requested" -> "deferred_awaiting_market_data"
    [] state \in Resolves -> "resolved"

(* A date published after the requested one resolves too, to itself. *)
ResolveTradingDay(requested, latest) ==
  LET state == Classify(requested, latest)
  IN  [status |-> ResolutionStatus(state),
       resolved |-> IF state \in Resolves THEN latest ELSE NoDate,
       asked |-> requested \notin Weekend]
=============================================================================
