--------------------------- MODULE MCFormsAndMenu ---------------------------
(***************************************************************************)
(* The values of constants that a configuration cannot spell.              *)
(***************************************************************************)
EXTENDS FormsAndMenu

\* A group in a group, with an entry of its own, beside a separator.
UpstreamMenu ==
  [c \in {"root", "organization", "products"} |->
     CASE c = "root" -> <<"dashboard", "organization">>
       [] c = "organization" -> <<"offices", "|", "products">>
       [] c = "products" -> <<"rates">>]

\* Every kind of day field, at the edges of months: a working day sought from the
\* first and from the last of a month, a day that not every month has.
TypedDays ==
  {[kind |-> "monthDays", days |-> {1, 15, 31}],
   [kind |-> "monthDays", days |-> {30}],
   [kind |-> "lastDay", offset |-> 0, weekday |-> FALSE],
   [kind |-> "lastDay", offset |-> 0, weekday |-> TRUE],
   [kind |-> "lastDay", offset |-> 28, weekday |-> TRUE],
   [kind |-> "nearestWeekday", day |-> 1],
   [kind |-> "nearestWeekday", day |-> 30],
   [kind |-> "weekdays", start |-> 6, end |-> 2],
   [kind |-> "lastWeekday", day |-> 6],
   [kind |-> "nthWeekday", day |-> 6, nth |-> 5]}

\* Every month, one, and ranges with a step, one of which runs backwards.
TypedMonths ==
  {[start |-> 1, end |-> 12, step |-> 1], [start |-> 2, end |-> 2, step |-> 1],
   [start |-> 11, end |-> 3, step |-> 2]}

\* Before, at and after the last time of the day; ends of a year and of a February.
ClockMoments ==
  {[year |-> 2023, month |-> 2, day |-> 28, time |-> 0],
   [year |-> 2023, month |-> 12, day |-> 31, time |-> 2],
   [year |-> 2024, month |-> 2, day |-> 29, time |-> 1]}
=============================================================================
