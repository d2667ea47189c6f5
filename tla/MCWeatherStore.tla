---------------------------- MODULE MCWeatherStore ----------------------------
(* Instances of WeatherStore for TLC: days of two hours, of which the story  *)
(* sees the second and the third.  Hours 0 and 1 are yesterday's, so the     *)
(* first backfill has a day to fetch.                                        *)
EXTENDS WeatherStore

Day == 2
StoryBegins == Day
StoryEnds == 3 * Day - 1
==============================================================================
