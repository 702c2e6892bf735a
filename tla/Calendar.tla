------------------------------- MODULE Calendar -------------------------------
(***************************************************************************)
(* The calendar view of a dataset: rows as events on the days from their     *)
(* start to their end, shown by month, week, day or as a list, moved through *)
(* with Previous, Today and Next; an event opens its row in the card view,   *)
(* from where the user comes back to the view that was left.                 *)
(*                                                                           *)
(* Days are numbered from 1 January 2026, a Thursday.  The three months of   *)
(* the model have the lengths that make moving by a month hard; the clocks   *)
(* go forward or backward in one night.                                      *)
(***************************************************************************)
EXTENDS Integers, FiniteSets

CONSTANTS CaMaxMoves,   \* bound: clicks of the user
          CaDates,      \* bound: days the rows name
          CaToday,      \* the current day
          CaMaxPreview, \* events previewed in a cell of a month
          CaMaxRange    \* MAX_RANGE_DAYS_TO_EXPAND: the days of an event that are shown

VARIABLES
    caRows,   \* the rows' start and due columns, and which of the two columns there are
    caClock,  \* the day that is an hour shorter or longer, and by how much
    caView,   \* what the calendar shows: its mode and date, and the events by day
    caStore,  \* the stored view, the row opened and the view to come back to
    caCounts  \* clicks so far; the month asked for
caVars == <<caRows, caClock, caView, caStore, caCounts>>

CaIds == {1, 2}
NoDate == 0
Months == 1..3
Length(m) == CASE m < 1 -> 31 [] m = 2 -> 28 [] OTHER -> 31
FirstOf(m) == CASE m = 0 -> -30 [] m = 1 -> 1 [] m = 2 -> 32 [] m = 3 -> 60 [] m = 4 -> 91
MonthOf(day) == CHOOSE m \in 0..4 : FirstOf(m) <= day /\ day < FirstOf(m) + Length(m)
InMonth(day) == day - FirstOf(MonthOf(day)) + 1
Weekday(day) == ((day + 2) % 7) + 1  \* 1 is Monday
Modes == {"month", "week", "day", "agenda"}

\* The hour in which a local day starts, counted from day 0.
HourOf(clock, day) == 24 * day + IF day > clock.day THEN clock.by ELSE 0
-----------------------------------------------------------------------------
(* Events *)

\* inferCalendarColumns: a range if there is a start and an end column, else one day.
inferCalendarColumns(columns) ==
    IF columns = {"start", "due"} THEN [start |-> "start", end |-> "due"]
    ELSE [start |-> IF "due" \in columns THEN "due" ELSE "start", end |-> "none"]

\* buildCalendarEvent: an end that is missing or before the start is the start.
StartOf(row, columns) == row[inferCalendarColumns(columns).start]
EndOf(row, columns) ==
    LET c == inferCalendarColumns(columns) IN
    IF c.end # "none" /\ row[c.end] # NoDate /\ row[c.end] >= row[c.start] THEN row[c.end] ELSE row[c.start]

\* expandDateRangeKeys: as many days as whole times 24 hours fit between, and one; the first
\* CaMaxRange of them.
StartDayOnly(start, end) == {start}
expandDateRangeKeys(start, end) ==
    LET hours == HourOf(caClock, end) - HourOf(caClock, start)
        totalDays == hours \div 24 + 1
    IN  start..(start + (IF totalDays < CaMaxRange THEN totalDays ELSE CaMaxRange) - 1)

DaysOf(row, columns) ==
    IF StartOf(row, columns) = NoDate THEN {} ELSE expandDateRangeKeys(StartOf(row, columns), EndOf(row, columns))

groupCalendarRowsByDate(rows, columns) ==
    [day \in UNION {DaysOf(rows[r], columns) : r \in CaIds} |-> {r \in CaIds : day \in DaysOf(rows[r], columns)}]

\* chooseInitialViewDate: today if it has events, else the first day that has, else today.
chooseInitialViewDate(groups) ==
    LET days == DOMAIN groups
    IN  IF CaToday \in days \/ days = {} THEN CaToday ELSE CHOOSE d \in days : \A e \in days : d <= e

CaOpened == [mode |-> "month", date |-> chooseInitialViewDate(groupCalendarRowsByDate(caRows.rows, caRows.columns))]

CaInit ==
    /\ \E rows \in [CaIds -> [start : CaDates \cup {NoDate}, due : CaDates \cup {NoDate}]],
          columns \in {{"start", "due"}, {"start"}, {"due"}} :
          caRows = [rows |-> rows, columns |-> columns]
    /\ caClock \in {[day |-> 88, by |-> -1], [day |-> 88, by |-> 1]}
    /\ caView = CaOpened
    /\ caStore = [view |-> "calendar", row |-> 0, back |-> "none"]
    /\ caCounts = [moves |-> 0, month |-> MonthOf(CaOpened.date)]

CaMove ==
    /\ caStore.view = "calendar"
    /\ caCounts.moves < CaMaxMoves
-----------------------------------------------------------------------------
(* Moving *)

\* addMonths: the same day of the other month, or its last.
AddDaysOfMonth(day, n) == day + n * Length(MonthOf(day))
addMonths(day, n) ==
    LET m == MonthOf(day) + n
    IN  FirstOf(m) + (IF InMonth(day) <= Length(m) THEN InMonth(day) ELSE Length(m)) - 1

getMondayOfWeek(day) == day + 1 - Weekday(day)

getShiftedViewDate(day, mode, n) ==
    CASE mode = "week" -> day + 7 * n
      [] mode = "day" -> day + n
      [] OTHER -> addMonths(day, n)

\* Previous and Next.
CaShift(n) ==
    /\ CaMove
    /\ caView.mode \in {"month", "agenda"} => MonthOf(caView.date) + n \in Months
    /\ LET to == getShiftedViewDate(caView.date, caView.mode, n)
       IN /\ MonthOf(to) \in Months
          /\ caView' = [caView EXCEPT !.date = to]
          /\ caCounts' = [moves |-> caCounts.moves + 1,
                          month |-> IF caView.mode \in {"month", "agenda"} THEN caCounts.month + n ELSE MonthOf(to)]
    /\ UNCHANGED <<caRows, caClock, caStore>>

CaShow(mode, day) ==
    /\ CaMove
    /\ caView' = [mode |-> mode, date |-> day]
    /\ caCounts' = [moves |-> caCounts.moves + 1, month |-> MonthOf(day)]
    /\ UNCHANGED <<caRows, caClock, caStore>>

CaTodayClicked == CaShow(caView.mode, CaToday)
createModeButton(mode) == mode # caView.mode /\ CaShow(mode, caView.date)
-----------------------------------------------------------------------------
(* What is shown: for each day shown the events on it, those only counted included *)

groupedEvents(day) == {r \in CaIds : day \in DaysOf(caRows.rows[r], caRows.columns)}

\* createMonthGridElement: six weeks from the Monday of the week of the first.
createMonthGridElement(day) ==
    LET first == FirstOf(MonthOf(day))
        offset == (Weekday(first) + 6) % 7
    IN  (first - offset)..(first - offset + 41)

appendMonthEventPreview(events) ==
    LET previewed == IF Cardinality(events) > CaMaxPreview THEN CaMaxPreview ELSE Cardinality(events)
    IN  [shown |-> previewed, counted |-> Cardinality(events) - previewed]

getWeekDateKeys(day) == getMondayOfWeek(day)..(getMondayOfWeek(day) + 6)
getMonthDateKeys(day) == FirstOf(MonthOf(day))..(FirstOf(MonthOf(day)) + Length(MonthOf(day)) - 1)

\* createAgendaListElement: a section for a day with events, one for each longest range without.
createAgendaListElement(days) ==
    LET busy == {d \in days : groupedEvents(d) # {}}
        empty == days \ busy
        Ends(d) == {e \in empty : d <= e /\ e + 1 \notin empty}
    IN  {[from |-> d, to |-> d] : d \in busy}
        \cup {[from |-> d, to |-> CHOOSE e \in Ends(d) : \A x \in Ends(d) : e <= x] :
                 d \in {d \in empty : d - 1 \notin empty}}

\* The days an event can be clicked on.
CaVisible ==
    CASE caView.mode = "month" -> createMonthGridElement(caView.date)
      [] caView.mode = "week" -> getWeekDateKeys(caView.date)
      [] caView.mode = "day" -> {caView.date}
      [] caView.mode = "agenda" -> getMonthDateKeys(caView.date)

\* A day of the month's grid opens that day.
createMonthDayCell(day) ==
    /\ caView.mode = "month" /\ day \in CaVisible
    /\ MonthOf(day) \in Months
    /\ CaShow("day", day)

\* openCalendarEventArticle: the card view is stored and shown with the row opened.
openCalendarEventArticle(r) ==
    /\ CaMove
    /\ \E day \in CaVisible : r \in groupedEvents(day)
    /\ caStore' = [view |-> "card", row |-> r, back |-> caStore.view]
    /\ caCounts' = [caCounts EXCEPT !.moves = @ + 1]
    /\ UNCHANGED <<caRows, caClock, caView>>

\* Closing the row: the view it was opened from is shown anew.
CaBack ==
    /\ caStore.view = "card"
    /\ caStore' = [view |-> caStore.back, row |-> 0, back |-> "none"]
    /\ caView' = CaOpened
    /\ caCounts' = [caCounts EXCEPT !.month = MonthOf(CaOpened.date)]
    /\ UNCHANGED <<caRows, caClock>>

CaNext ==
    \/ \E n \in {-1, 1} : CaShift(n)
    \/ CaTodayClicked
    \/ \E mode \in Modes : createModeButton(mode)
    \/ \E day \in CaDates : createMonthDayCell(day)
    \/ \E r \in CaIds : openCalendarEventArticle(r)
    \/ CaBack
-----------------------------------------------------------------------------
CaTypeOK ==
    /\ caRows.rows \in [CaIds -> [start : CaDates \cup {NoDate}, due : CaDates \cup {NoDate}]]
    /\ caRows.columns \in SUBSET {"start", "due"}
    /\ caClock \in [day : {88}, by : {-1, 1}]
    /\ caView \in [mode : Modes, date : 1..90]
    /\ caStore \in [view : {"calendar", "card"}, row : CaIds \cup {0}, back : {"none", "calendar"}]
    /\ caCounts \in [moves : 0..CaMaxMoves, month : Months]

\* What the rows say: an event is on every day from its start to its end, on the first CaMaxRange
\* of them if there are more.
CaOn(row, day) ==
    LET range == caRows.columns = {"start", "due"}
        start == IF range \/ caRows.columns = {"start"} THEN row.start ELSE row.due
    IN  /\ start # NoDate
        /\ \/ day = start
           \/ range /\ start <= day /\ day <= row.due /\ day < start + CaMaxRange

\* A range across the night in which the clocks go forward loses its last day.
CaShort(row) == caClock.by = -1 /\ StartOf(row, caRows.columns) <= 88 /\ EndOf(row, caRows.columns) > 88

\* Whatever was clicked: the month asked for is the one shown, the days shown are all days of the
\* month, week or day, each once, and each shows or counts exactly the events on it (apart from
\* events across the night in which the clocks go forward).
CaEventsOnTheirDays ==
    /\ MonthOf(caView.date) = caCounts.month
    /\ \A r \in CaIds, day \in CaVisible :
          ~CaShort(caRows.rows[r]) => (r \in groupedEvents(day) <=> CaOn(caRows.rows[r], day))
    /\ caView.mode = "month" =>
          /\ getMonthDateKeys(caView.date) \subseteq CaVisible
          /\ \A day \in CaVisible : LET p == appendMonthEventPreview(groupedEvents(day))
                                    IN p.shown <= CaMaxPreview /\ p.shown + p.counted = Cardinality(groupedEvents(day))
    /\ caView.mode = "week" => caView.date \in CaVisible /\ {Weekday(d) : d \in CaVisible} = 1..7
    /\ caView.mode = "agenda" =>
          LET sections == createAgendaListElement(CaVisible)
          IN  \A day \in getMonthDateKeys(caView.date) : \E s \in sections :
                 /\ s.from <= day /\ day <= s.to
                 /\ \A t \in sections \ {s} : ~(t.from <= day /\ day <= t.to)
=============================================================================
