SPECIFICATION Spec
CONSTANTS
    ReserveDays = 3
    DayHours = {23, 24, 25}
    MaxDay = 4
    MaxBytes = 1
    Req = {q1, q2}
    Nil = Nil
SYMMETRY MCSymmetry
INVARIANTS CounterExact ChartRight
