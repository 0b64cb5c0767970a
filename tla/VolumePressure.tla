--------------------------- MODULE VolumePressure ---------------------------
(***************************************************************************)
(* The volume engine (engines/volume/engine.py) and the report the market  *)
(* maker makes from it on every refresh: what was traded in the hour, the  *)
(* day and the week, how far behind its three targets that is, and whether *)
(* the next ladder gets larger orders for it.  QuoteLadder has what the    *)
(* pressure does to a ladder.                                              *)
(*                                                                         *)
(* Time is counted in ticks since the beginning of a week.  Ratios are     *)
(* whole numbers of 1/Unit, which a length in ticks divides.               *)
(***************************************************************************)
EXTENDS Integers, FiniteSetsExt

CONSTANTS
    Hour, Day, Week,     \* lengths in ticks
    Unit,                \* what a ratio of 1 is written as
    Horizon,             \* bound on the clock
    Settings,            \* VolumeSettings in turn, see ValidSettings
    Externals,           \* 24h volume of the market, as a notional
    MaxTrades            \* bound on trades, each of notional 1

\* The validators of VolumeSettings.
ValidSettings(s) ==
    /\ s.target \in [{"hour", "day", "week"} -> Nat]
    /\ s.target["day"] > 0 => s.target["hour"] <= s.target["day"]
    /\ s.target["week"] > 0 => s.target["day"] <= s.target["week"]
    /\ s.participation \in 1..(Unit \div 5) /\ s.threshold \in 1..Unit /\ s.maxMultiplier \in Unit..(5 * Unit)
    /\ s.gap \in Nat \ {0} /\ s.enabled \in BOOLEAN /\ s.externalRequired \in BOOLEAN

ASSUME VolumeAssumption ==
    /\ {Hour, Day, Week, Unit, Horizon} \subseteq Nat \ {0} /\ Hour < Day /\ Day < Week
    /\ Unit % Hour = 0 /\ Unit % Day = 0 /\ Unit % Week = 0
    /\ \A s \in Settings : ValidSettings(s)
    /\ Externals \subseteq Nat /\ MaxTrades \in Nat

Windows == {"hour", "day", "week"}
Length == [hour |-> Hour, day |-> Day, week |-> Week]
Never == -1

VARIABLES
    clock,     \* now
    trades,    \* the rows of the trade table, with their created_at
    external,  \* volume of the latest ticker, times mid
    settings,  \* VolumeEngine.settings
    last,      \* _last_pressure_order_at, or Never
    signal,    \* size multiplier of the last report, or Never before any
    pressed    \* the last step put pressure on a ladder

volumeVars == <<clock, trades, external, settings, last, signal, pressed>>

\* Type invariant.
VolumeTypeOK ==
    /\ clock \in 0..Horizon /\ trades \subseteq [id : 1..MaxTrades, at : 0..clock]
    /\ external \in Externals /\ settings \in Settings
    /\ last \in Never..clock
    /\ signal = Never \/ signal \in Unit..settings.maxMultiplier
    /\ pressed => last = clock /\ signal > Unit

\* MarketMakerRuntime.__init__ builds the engine; the trades are in the database.
VolumeInit ==
    /\ clock = 0 /\ trades = {}
    /\ external \in Externals /\ settings \in Settings
    /\ last = Never /\ signal = Never /\ pressed = FALSE

-----------------------------------------------------------------------------
(* One report.                                                             *)

\* since_hour, since_day, since_week
WindowStart(w) == clock - (clock % Length[w])

\* _volume_progress: the trades since the start of the window.
Executed(w) == Cardinality({t \in trades : t.at >= WindowStart(w)})

\* _seconds_until_next_hour, _day and _week
Remaining(w) == Length[w] - (clock % Length[w])

\* _window: progress_ratio
Progress(w) ==
    IF settings.target[w] = 0 THEN Unit ELSE Min({Unit, (Unit * Executed(w)) \div settings.target[w]})

\* A length that is always the longest.
TargetWindowWeek(remaining) == Week

\* _target_window_seconds infers the length of a window from what remains of it.
TargetWindow(remaining) == IF remaining <= Hour THEN Hour ELSE IF remaining <= Day THEN Day ELSE Week

\* _urgency
Urgency(w) ==
    IF settings.target[w] = 0 THEN 0
    ELSE Max({0, Unit - (Unit * Remaining(w)) \div TargetWindow(Remaining(w)) - Progress(w)})

\* participation_rate against max_participation_rate; 0 when no volume is known
LimitReached == external > 0 /\ Unit * Executed("day") >= settings.participation * external

\* The conditions under which pressure_signal looks at the targets at all.
Allowed == settings.enabled /\ (settings.externalRequired => external > 0) /\ ~LimitReached

\* pressure_signal: size_multiplier, Unit for none.
Multiplier ==
    LET urgency == Max({Urgency(w) : w \in Windows})
    IN  IF ~Allowed \/ urgency < settings.threshold THEN Unit
        ELSE Min({settings.maxMultiplier, Unit + urgency})

-----------------------------------------------------------------------------
(* Steps.                                                                  *)

\* can_apply_pressure_order
CanApply == last = Never \/ clock - last >= settings.gap

\* One quote refresh: _volume_progress, then _apply_volume_pressure, which asks for
\* the slot only when the multiplier is not 1 and takes it by asking.
Refresh ==
    /\ signal' = Multiplier
    /\ pressed' = (Multiplier /= Unit /\ CanApply)
    /\ last' = IF Multiplier /= Unit /\ CanApply THEN clock ELSE last
    /\ UNCHANGED <<clock, trades, external, settings>>

\* A fill is recorded.
Trade ==
    /\ Cardinality(trades) < MaxTrades
    /\ trades' = trades \cup {[id |-> Cardinality(trades) + 1, at |-> clock]}
    /\ signal' = Never /\ pressed' = FALSE
    /\ UNCHANGED <<clock, external, settings, last>>

\* Time passes, and with it the ticker may change.
Tick ==
    /\ clock < Horizon /\ clock' = clock + 1
    /\ external' \in Externals
    /\ signal' = Never /\ pressed' = FALSE
    /\ UNCHANGED <<trades, settings, last>>

\* VolumeEngine.update_settings: the slot is not given back.
UpdateSettings ==
    /\ settings' \in Settings \ {settings}
    /\ signal' = Never /\ pressed' = FALSE
    /\ UNCHANGED <<clock, trades, external, last>>

\* The process starts again: the slot is forgotten, the trades are not.
Restart ==
    /\ last /= Never /\ last' = Never
    /\ signal' = Never /\ pressed' = FALSE
    /\ UNCHANGED <<clock, trades, external, settings>>

VolumeNext == Refresh \/ Trade \/ Tick \/ UpdateSettings \/ Restart

VolumeSpec == VolumeInit /\ [][VolumeNext]_volumeVars

-----------------------------------------------------------------------------
(* Properties, with the shortfall taken from the true length of a window.  *)

Behind(w, amount) ==
    /\ settings.target[w] > 0
    /\ (Unit * (clock % Length[w])) \div Length[w]
         - (Unit * Cardinality({t \in trades : t.at >= clock - (clock % Length[w])})) \div settings.target[w]
       >= amount

\* A ladder is enlarged only while some target is missed by the threshold on a
\* straight line through its window: the guessed length of the window may hide a
\* shortfall and never makes one up, nor do trades of an earlier window.
PushedOnlyBehind == pressed => \E w \in Windows : Behind(w, settings.threshold)

\* Behind a target by the threshold, every report asks for larger orders, except
\* that the daily target is lost sight of in the last hour of the day and the
\* weekly one in the last day of the week, when what remains of the window passes
\* for a window of its own.
BehindPushes ==
    signal /= Never /\ Allowed =>
        \/ signal > Unit \/ settings.maxMultiplier = Unit
        \/ /\ ~Behind("hour", settings.threshold)
           /\ clock % Day < Day - Hour => ~Behind("day", settings.threshold)
           /\ clock % Week < Week - Day => ~Behind("week", settings.threshold)

\* VolumeEngine: a ladder is enlarged only while some target is missed by the
\* threshold on a straight line through its window, and then by every report, the
\* last hour of the day and the last day of the week excepted.
PushedWhenBehind == PushedOnlyBehind /\ BehindPushes
=============================================================================
