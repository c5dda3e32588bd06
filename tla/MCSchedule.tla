------------------------------ MODULE MCSchedule ------------------------------
(* LightSchedule for TLC: a calendar with two minutes an hour, two hours a *)
(* day, and a clock that is set after the first two minutes.               *)
EXTENDS LightSchedule

ShortCalendar ==
    [t \in 0 .. Horizon |->
        LET minute == t \div 2
            day == minute \div 4
        IN  [Y |-> IF minute < 2 THEN 1970 ELSE 2019, M |-> 1, D |-> day + 1,
             WD |-> day % 7, h |-> (minute \div 2) % 2, m |-> minute % 2]]

At(y, mon, d, wd, hour) ==
    [Y |-> y, M |-> mon, D |-> d, WD |-> wd, h |-> hour, m |-> 0]

On(at, dimlevel, n) ==
    [enable |-> TRUE, dim |-> dimlevel, repeat |-> n, at |-> at]

Off == [enable |-> FALSE, dim |-> 0, repeat |-> 0, at |-> NoDate]

Exactly == At(4, 1, 2, 1, 0)
Yearly == At(Any, 1, 2, Any, 0)
Monthly == At(Any, Any, 2, Any, 1)
Weekly == At(Any, Any, Any, 1, 0)
Daily == At(Any, Any, Any, Any, 0)
Hourly == At(Any, Any, Any, Any, Any)

\* Entries of every kind, some of them due in the same minute.
ShortTables ==
    {<<On(Daily, 0, 1), On(Hourly, 50, 2)>>,
     <<On(Exactly, 0, 0), On(Weekly, 50, Always)>>,
     <<On(Yearly, 50, 0), On(Monthly, 0, 0)>>,
     <<Off, On(Daily, 50, 0)>>}
==============================================================================
