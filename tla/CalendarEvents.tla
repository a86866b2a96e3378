--------------------------- MODULE CalendarEvents ---------------------------
(***************************************************************************)
(* When an event takes place (internal/connectors/google/calendar.go).     *)
(* The slots of an intent are kept as they were said and are read when the *)
(* user confirms the action, or confirms it once more after connecting     *)
(* Google or setting a timezone: against the clock of that moment and in   *)
(* the zone found then.  A reminder is read by the same functions when it  *)
(* is made.                                                                *)
(*                                                                         *)
(* Time is counted in minutes, days from a Sunday, which is the first day  *)
(* of year 0; a zone is its offset, and years are of one length.  A phrase *)
(* is what the regular expressions find in it.                             *)
(***************************************************************************)
EXTENDS Integers, Sequences

CONSTANTS
  Moments,    \* bound: instants at which something happens
  Zones,      \* offsets of the timezones that are not UTC
  Utc, NoZone,
  YearDays,
  SaidSlots,  \* what an intent or a reminder may say
  MaxZoneSets \* bound: changes of the timezone, connects and lost connections

ASSUME CalendarAssumption ==
  /\ Moments \subseteq Nat /\ Moments # {} /\ Zones \subseteq Int
  /\ {Utc, NoZone} \cap Zones = {} /\ Utc # NoZone
  /\ YearDays \in Nat \ {0} /\ MaxZoneSets \in Nat

VARIABLES
  moment,     \* now, in UTC
  prefZone,   \* user_preferences.timezone
  google,     \* integration_connections.status: "connected", "syncing" or "out"
  booking,    \* the action run, or the reminder: [pc, slots, zone, said, at, event]
  zoneSets

calendarVars == <<moment, prefZone, google, booking, zoneSets>>

-----------------------------------------------------------------------------
(* Days, clocks and phrases *)
Hour == 60
Day == 24 * Hour
DayOf(t) == t \div Day
StartOfDay(t) == DayOf(t) * Day
DateOf(year, day) == (year * YearDays + day) * Day
YearOf(t) == DayOf(t) \div YearDays
Weekday(t) == DayOf(t) % 7

\* at: <<>>, or a timestamp <<kind, minute>>, of kind "instant", "local" or "date".
\* in: <<>> or <<minutes>>.  date: <<>>, <<day>> or <<day, year>>.
\* weekday: <<>> or <<target, next>>.  clocks: in the order of the text.
Nothing == [at |-> <<>>, in |-> <<>>, date |-> <<>>, words |-> {}, weekday |-> <<>>, clocks |-> <<>>, other |-> FALSE]

\* reClockOnly; reAtClock, which a bare number does not match.
IsClockOnly(p) == Len(p.clocks) = 1 /\ p = [Nothing EXCEPT !.clocks = p.clocks]
HasClock(p) == \/ p.at # <<>> /\ p.at[1] # "date"
               \/ \E n \in DOMAIN p.clocks : p.clocks[n].form # "bare"

LooksNatural(p) ==
  \/ p.words \cap {"today", "tonight", "tomorrow", "dayAfterTomorrow", "morning", "afternoon", "evening"} # {}
  \/ p.date # <<>> \/ p.weekday # <<>>
  \/ \E n \in DOMAIN p.clocks : p.clocks[n].form \in {"am", "pm"}

\* The expressions find two digits of a clock, and "in 20 minutes" only where
\* that is the whole of the phrase, which then has no date.
ClockFound == [hour : Nat, minute : Nat, form : {"am", "pm", "at", "colon", "bare"}]
Phrase ==
  {p \in [at : {<<>>} \cup ({"instant", "local", "date"} \X Int), in : Seq(Nat), date : Seq(Int), words : SUBSET STRING,
          weekday : {<<>>} \cup ((0..6) \X BOOLEAN), clocks : Seq(ClockFound), other : BOOLEAN] :
     p.date # <<>> => p.in = <<>> /\ p.date[1] \in 0..(YearDays - 1)}
Text == {text \in Seq(Phrase) : Len(text) <= 2}

ASSUME SaidAssumption ==
  SaidSlots \subseteq [when : Text, start : Text, summary : Text, end : Text, duration : Seq(Nat \ {0})]

-----------------------------------------------------------------------------
(* extractClock: the most explicit clock that can be one, and the last of those *)
MinuteOfDay(c) ==
  Hour * (CASE c.form = "am" -> c.hour % 12 [] c.form = "pm" -> 12 + (c.hour % 12) [] OTHER -> c.hour) + c.minute

Score(c) == CASE c.form \in {"am", "pm"} -> 3 [] c.form = "at" -> 2 [] c.form = "colon" -> 1

IsClock(c) == /\ c.form # "bare" /\ c.minute <= 59
              /\ IF Score(c) = 3 THEN c.hour \in 1..12 ELSE c.hour <= 23

Better(best, c) == IF best = <<>> THEN <<c>> ELSE IF Score(c) >= Score(best[1]) THEN <<c>> ELSE best
ExtractClock(p) ==
  LET best[n \in 0..Len(p.clocks)] ==
        IF n = 0 THEN <<>> ELSE IF IsClock(p.clocks[n]) THEN Better(best[n - 1], p.clocks[n]) ELSE best[n - 1]
  IN  best[Len(p.clocks)]

DefaultTime == 9 * Hour
PartOfDay(words) ==
  IF words \cap {"tonight", "evening"} # {} THEN <<18 * Hour>>
  ELSE IF "afternoon" \in words THEN <<15 * Hour>>
  ELSE IF "morning" \in words THEN <<9 * Hour>>
  ELSE IF "noon" \in words THEN <<12 * Hour>> ELSE <<>>

TimeOfDay(p) == LET c == ExtractClock(p) IN IF c # <<>> THEN <<MinuteOfDay(c[1])>> ELSE PartOfDay(p.words)
TimeOr(time, default) == IF time = <<>> THEN default ELSE time[1]

-----------------------------------------------------------------------------
(* parseSingleTime: <<>>, or the local time a phrase names *)
OffsetOf(zone) == IF zone = Utc THEN 0 ELSE zone

Absolute(at, zone) ==
  CASE at[1] = "instant" -> at[2] + OffsetOf(zone)
    [] at[1] = "local" -> at[2]
    [] at[1] = "date" -> StartOfDay(at[2]) + DefaultTime

\* Slip: a date that has begun is taken for past.
InYear_FromNow(day, now) == IF DateOf(YearOf(now), day) < now THEN YearOf(now) + 1 ELSE YearOf(now)
InYear(day, now) == IF DateOf(YearOf(now), day) < StartOfDay(now) THEN YearOf(now) + 1 ELSE YearOf(now)

EnglishDate(p, now) ==
  DateOf(IF Len(p.date) = 2 THEN p.date[2] ELSE InYear(p.date[1], now), p.date[1]) + TimeOr(TimeOfDay(p), DefaultTime)

DaysUntilWeekday(from, target, next) ==
  LET delta == (target - from + 7) % 7 IN IF delta = 0 /\ next THEN 7 ELSE delta

DayOffset(p, now) ==
  IF "dayAfterTomorrow" \in p.words THEN <<2>>
  ELSE IF "tomorrow" \in p.words THEN <<1>>
  ELSE IF p.words \cap {"today", "tonight"} # {} THEN <<0>>
  ELSE IF p.weekday # <<>> THEN <<DaysUntilWeekday(Weekday(now), p.weekday[1], p.weekday[2])>> ELSE <<>>

\* A day without a time is at nine; a time without a day is today's or tomorrow's.
Relative(p, now) ==
  LET offset == DayOffset(p, now)
      time == TimeOfDay(p)
      today == StartOfDay(now) + TimeOr(time, DefaultTime)
  IN  IF offset # <<>> THEN <<today + offset[1] * Day>>
      ELSE IF time = <<>> THEN <<>>
      ELSE <<IF today > now THEN today ELSE today + Day>>

ParseSingle(p, now, zone) ==
  IF p.at # <<>> THEN <<Absolute(p.at, zone)>>
  ELSE IF p.date # <<>> THEN <<EnglishDate(p, now)>>
  ELSE IF p.in # <<>> THEN <<now + p.in[1]>>
  ELSE Relative(p, now)

-----------------------------------------------------------------------------
(* parseFlexibleTimeRange: a text is one phrase, or two around a dash or a "to" *)
LooksLikeEnd(p) == IsClockOnly(p) \/ (HasClock(p) /\ p.date = <<>> /\ p.words \cap {"today", "tomorrow", "dayAfterTomorrow"} = {})

\* What the expressions find in the whole of it: nothing that must stand alone.
Joined(p, q) ==
  [at |-> <<>>, in |-> <<>>, date |-> IF p.date # <<>> THEN p.date ELSE q.date, words |-> p.words \cup q.words,
   weekday |-> IF p.weekday # <<>> THEN p.weekday ELSE q.weekday, clocks |-> p.clocks \o q.clocks, other |-> TRUE]

SplitRange(text) == IF Len(text) = 1 \/ LooksLikeEnd(text[Len(text)]) THEN text ELSE <<Joined(text[1], text[2])>>

OnDayOf(start, t) == StartOfDay(start) + (t % Day)

RangeEnd(q, start, now, zone) ==
  LET parsed == ParseSingle(q, now, zone)
      end == IF ~LooksNatural(q) \/ IsClockOnly(q) THEN OnDayOf(start, parsed[1]) ELSE parsed[1]
  IN  IF parsed = <<>> THEN <<>> ELSE IF end > start THEN <<end>> ELSE <<>>

ParseRange(text, now, zone) ==
  LET parts == SplitRange(text)
      start == ParseSingle(parts[1], now, zone)
  IN  [start |-> start,
       end |-> IF start = <<>> \/ Len(parts) = 1 THEN <<>> ELSE RangeEnd(parts[2], start[1], now, zone)]

-----------------------------------------------------------------------------
(* resolveEventWindow *)
PickExpression(when, start) ==
  IF when = <<>> THEN start
  ELSE IF start = <<>> THEN when
  ELSE IF \E n \in DOMAIN when : LooksNatural(when[n]) THEN when ELSE start

\* A summary that names a day stands in for a mere clock.
NamesDay(p) == p.date # <<>> \/ p.weekday # <<>> \/ p.words \cap {"today", "tomorrow", "dayAfterTomorrow"} # {}

Expression(slots) ==
  LET raw == PickExpression(slots.when, slots.start)
  IN  IF Len(raw) = 1 /\ IsClockOnly(raw[1]) /\ \E n \in DOMAIN slots.summary : NamesDay(slots.summary[n])
      THEN slots.summary ELSE raw

NextLocalHour(now) == (now \div Hour + 1) * Hour

EndOf(slots, start, now, zone) ==
  LET parsed == IF slots.end = <<>> THEN <<>> ELSE ParseRange(slots.end, now, zone).start
  IN  IF slots.end # <<>> THEN IF parsed # <<>> /\ parsed[1] > start THEN parsed[1] ELSE start + Hour
      ELSE start + TimeOr(slots.duration, Hour)

Window(slots, now, zone) ==
  LET text == Expression(slots)
      range == IF text = <<>> THEN [start |-> <<NextLocalHour(now)>>, end |-> <<>>] ELSE ParseRange(text, now, zone)
  IN  IF range.start = <<>> THEN <<>>
      ELSE <<[start |-> range.start[1],
              end |-> IF range.end # <<>> THEN range.end[1] ELSE EndOf(slots, range.start[1], now, zone),
              zone |-> zone]>>

-----------------------------------------------------------------------------
(* createEvent: the zone of the slots or the preferences, else Google's *)
CalendarZone(zone, setting, primary) ==
  IF zone \in Zones THEN zone ELSE IF setting \in Zones THEN setting ELSE IF primary \in Zones THEN primary ELSE NoZone

Unsaid == [when |-> <<>>, start |-> <<>>, summary |-> <<>>, end |-> <<>>, duration |-> <<>>]
NoBooking == [pc |-> "none", slots |-> Unsaid, zone |-> NoZone, said |-> 0, at |-> 0, event |-> <<>>]

CalendarInit ==
  /\ moment \in Moments /\ prefZone \in Zones \cup {NoZone} /\ google = "connected"
  /\ booking = NoBooking /\ zoneSets = 0

TimePasses ==
  /\ \E t \in Moments : t > moment /\ moment' = t
  /\ UNCHANGED <<prefZone, google, booking, zoneSets>>

ZoneSet == zoneSets < MaxZoneSets /\ zoneSets' = zoneSets + 1

ChangeTimezone ==
  /\ ZoneSet /\ \E z \in Zones \cup {Utc} : z # prefZone /\ prefZone' = z
  /\ UNCHANGED <<moment, google, booking>>

\* The user connects or disconnects; a sync of the profile begins or ends.
ChangeConnection ==
  /\ ZoneSet /\ \E s \in {"connected", "syncing", "out"} : s # google /\ google' = s
  /\ UNCHANGED <<moment, prefZone, booking>>

\* The extractor's slots, which may name a timezone, become the input of a run.
ProposeEvent ==
  /\ booking.pc = "none"
  /\ \E slots \in SaidSlots, z \in {NoZone, Utc} \cup Zones :
       booking' = [NoBooking EXCEPT !.pc = "proposed", !.slots = slots, !.zone = z, !.said = moment]
  /\ UNCHANGED <<moment, prefZone, google, zoneSets>>

\* Service.CreateCalendarEvent: the copy of the input gets the preferred timezone,
\* unless the preferences cannot be read.
ConfirmEvent ==
  /\ booking.pc = "proposed"
  /\ \E read \in {prefZone, NoZone} :
       booking' = [booking EXCEPT !.pc = "google",
                     !.event = <<[zone |-> IF booking.zone = NoZone THEN read ELSE booking.zone]>>]
  /\ UNCHANGED <<moment, prefZone, google, zoneSets>>

\* Errors of these kinds leave the run as it was proposed.
MayRetry == booking' = [booking EXCEPT !.pc = "proposed", !.event = <<>>]

\* withGoogleAction and requireAccessToken: a connection that is syncing passes
\* the first and not the second.
WithGoogle ==
  /\ booking.pc = "google"
  /\ IF google = "connected" THEN booking' = [booking EXCEPT !.pc = "create"] ELSE MayRetry
  /\ UNCHANGED <<moment, prefZone, google, zoneSets>>

RefreshFails ==
  /\ booking.pc = "google" /\ google # "out" /\ ZoneSet
  /\ google' = "out" /\ MayRetry
  /\ UNCHANGED <<moment, prefZone>>

\* The two settings of the account are each as they may be, or cannot be read.
CreateEvent ==
  /\ booking.pc = "create"
  /\ \E setting, primary \in Zones \cup {Utc, NoZone} :
       LET zone == CalendarZone(booking.event[1].zone, setting, primary)
           window == IF zone = NoZone THEN <<>> ELSE Window(booking.slots, moment + OffsetOf(zone), zone)
       IN  IF window = <<>> THEN MayRetry
           ELSE booking' = [booking EXCEPT !.pc = "booked", !.at = moment, !.event = window]
  /\ UNCHANGED <<moment, prefZone, google, zoneSets>>

\* The POST fails: the run has failed for good.
CreateFails ==
  /\ booking.pc = "create" /\ ZoneSet
  /\ booking' = [booking EXCEPT !.pc = "failed", !.event = <<>>]
  /\ UNCHANGED <<moment, prefZone, google>>

\* reminders.Service.Resolve, for a request or the tool of a turn, or for a
\* proposed reminder that is confirmed; without a time it is due in an hour.
DefaultLead == Hour
ReminderText(slots) == IF slots.when # <<>> THEN slots.when ELSE slots.start

ResolveReminder(slots, asked, said) ==
  \E zone \in {asked} \cup (IF asked = NoZone THEN {prefZone} ELSE {}) :
    LET now == moment + OffsetOf(zone)
        text == ReminderText(slots)
        due == IF text = <<>> THEN <<now + DefaultLead>> ELSE ParseRange(text, now, zone).start
    IN  /\ zone # NoZone
        /\ due # <<>>
        /\ booking' = [NoBooking EXCEPT !.pc = "reminder", !.slots = slots, !.said = said, !.at = moment,
                         !.event = <<[start |-> due[1], end |-> due[1], zone |-> zone]>>]

CreateReminder ==
  /\ \/ /\ booking.pc = "none"
        /\ \E slots \in SaidSlots, z \in {NoZone, Utc} \cup Zones : ResolveReminder(slots, z, moment)
     \/ booking.pc = "proposed" /\ ResolveReminder(booking.slots, booking.zone, booking.said)
  /\ UNCHANGED <<moment, prefZone, google, zoneSets>>

CalendarNext ==
  \/ TimePasses \/ ChangeTimezone \/ ChangeConnection \/ ProposeEvent \/ ConfirmEvent
  \/ WithGoogle \/ RefreshFails \/ CreateEvent \/ CreateFails \/ CreateReminder

CalendarSpec == CalendarInit /\ [][CalendarNext]_calendarVars

-----------------------------------------------------------------------------
(* Properties *)

\* The time of day a phrase says: by a clock unless there is none, and by none
\* that is less explicit than another or as explicit as a later one.
SaysTime(p, time) ==
  LET said == {n \in DOMAIN p.clocks : IsClock(p.clocks[n])}
  IN  IF said = {} THEN time = TimeOr(PartOfDay(p.words), DefaultTime)
      ELSE \E n \in said :
             /\ time = MinuteOfDay(p.clocks[n])
             /\ \A k \in said \ {n} : \/ Score(p.clocks[k]) < Score(p.clocks[n])
                                      \/ (Score(p.clocks[k]) = Score(p.clocks[n]) /\ k < n)

\* t falls on a day a phrase names, or could mean.
OnDaySaid(p, now, t) ==
  LET ahead == DayOf(t) - DayOf(now)
  IN  IF p.date # <<>> THEN /\ DayOf(t) % YearDays = p.date[1]
                            /\ IF Len(p.date) = 2 THEN YearOf(t) = p.date[2] ELSE ahead >= 0
      ELSE IF "dayAfterTomorrow" \in p.words THEN ahead = 2
      ELSE IF "tomorrow" \in p.words THEN ahead = 1
      ELSE IF p.words \cap {"today", "tonight"} # {} THEN ahead = 0
      ELSE IF p.weekday # <<>> THEN Weekday(t) = p.weekday[1] /\ ahead >= (IF p.weekday[2] THEN 1 ELSE 0)
      ELSE t > now

\* The first time of which both are true.
Meant(p, now, zone, t) ==
  IF p.at # <<>> THEN t = Absolute(p.at, zone)
  ELSE IF p.in # <<>> THEN t = now + p.in[1]
  ELSE /\ OnDaySaid(p, now, t) /\ SaysTime(p, t % Day)
       /\ \A d \in DayOf(now)..(DayOf(t) - 1) : ~OnDaySaid(p, now, d * Day + (t % Day))

\* An event begins at the first time that what was said can mean, in the zone it
\* is booked in, and as it was meant when it was said: whatever was tried and
\* failed before it was booked and whichever timezone was found then, except that
\* midnight has passed meanwhile, or the hour that was meant, or that it was to be
\* so long from now.  It is never booked in UTC, and not in another timezone than
\* was asked for.  It ends after it begins, and at the clock said for its end if
\* that is later on the day.  So is a reminder due, which is read at once.
EventAsSaid ==
  booking.pc \in {"booked", "reminder"} =>
    LET event == booking.event[1]
        text == IF booking.pc = "booked" THEN Expression(booking.slots) ELSE ReminderText(booking.slots)
        parts == SplitRange(text)
        then == booking.said + OffsetOf(event.zone)
        now == booking.at + OffsetOf(event.zone)
        overtaken == DayOf(then) # DayOf(now)
                     \/ (parts[1].in # <<>> /\ now # then)
                     \/ \E d \in {0, Day} : LET t == StartOfDay(then) + d + (event.start % Day)
                                            IN  Meant(parts[1], then, event.zone, t) /\ t <= now
    IN  /\ text # <<>> => Meant(parts[1], then, event.zone, event.start) \/ overtaken
        /\ text # <<>> => Meant(parts[1], now, event.zone, event.start)
        /\ booking.pc = "booked" =>
             /\ event.zone \in Zones
             /\ booking.zone \in Zones => event.zone = booking.zone
             /\ event.end > event.start
             /\ Len(text) = 2 =>
                  \A t \in {StartOfDay(event.start) + MinuteOfDay(c) : c \in {c \in {text[2].clocks[n] : n \in DOMAIN text[2].clocks} : IsClock(c)}} :
                    IsClockOnly(text[2]) /\ t > event.start => event.end = t
=============================================================================
