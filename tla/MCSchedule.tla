----------------------------- MODULE MCSchedule -----------------------------
EXTENDS Schedule

OffDay == [d \in Days |-> Off]
Monday(t) == [OffDay EXCEPT ![0] = [on |-> TRUE, at |-> t]]
Both == [d \in Days |-> [on |-> TRUE, at |-> 1]]
Grid == [l \in Layers |-> IF l = 0 THEN Both ELSE OffDay]

Slot(s, a, b, e) == [index |-> s, on |-> TRUE, action |-> a, begin |-> b, end |-> e]
NoEvents == [s \in 0..(PumpSlots - 1) |-> EmptySlot(s)]
Pump(on, e) == [on |-> on, stop |-> FALSE, grid |-> Grid, events |-> e]
OneEvent == {Pump(a = "run", [NoEvents EXCEPT ![0] = Slot(0, a, 1, 2)]) : a \in {"run", "stop"}}
Vacations == {Pump(FALSE, [s \in 0..(PumpSlots - 1) |-> Slot(s, "stop", 1, 3)])}

SetMonday == [cmd |-> "set_entry", layer |-> 0, day |-> 0, at |-> 2]
ClearMonday == [cmd |-> "clear_entry", layer |-> 0, day |-> 0]
Enable(on) == [cmd |-> "set_enabled", on |-> on]
SetEvent(s, b, e) == [cmd |-> "set_event", slot |-> s, action |-> "run", begin |-> b, end |-> e]
ClearEvent == [cmd |-> "clear_event", slot |-> 0]
ClearVacation == [cmd |-> "clear_vacation"]
Upload(on) == [cmd |-> "upload", on |-> on,
               grid |-> [l \in Layers |-> IF l = 0 THEN OffDay ELSE Monday(1)]]
Refresh == [cmd |-> "refresh"]
RefreshAll == [cmd |-> "refresh_events"]

Everything == {SetMonday, ClearMonday, Enable(TRUE), SetEvent(NoSlot, 2, 3), SetEvent(1, 1, 3), ClearEvent,
               ClearVacation, Upload("on"), Upload("keep"), Refresh, RefreshAll}
Lifted == {ClearVacation}
=============================================================================
